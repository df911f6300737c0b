--------------------------- MODULE ReconcileProofs ---------------------------
(***************************************************************************)
(* What holds of module Reconcile for every set of commits and stacks,     *)
(* every tree, every limit and every number of faults.                     *)
(*                                                                         *)
(* The first part is about every deployment, whatever the options. The     *)
(* second is about the deployments of `composelock poll` and `webhook`,    *)
(* where nobody uses --force (Unforced).                                   *)
(***************************************************************************)
EXTENDS Reconcile, LifecycleMap, SequenceTheorems, TLAPS

-----------------------------------------------------------------------------
(* The updates of module DeployState stay within State. *)

\* Dropping an entry leaves a list of commits (MarkFailed).
LEMMA WithoutType ==
    ASSUME NEW list \in Seq(Commits), NEW c
    PROVE  Without(list, c) \in Seq(Commits)
<1>1. CASE \E i \in 1..Len(list) : list[i] = c
  <2> DEFINE i == CHOOSE i \in 1..Len(list) : list[i] = c
  <2>1. i \in 1..Len(list) BY <1>1
  <2> HIDE DEF i
  <2>2. SubSeq(list, 1, i - 1) \in Seq(Commits)
    <3>1. \A j \in 1..(i - 1) : list[j] \in Commits BY <2>1
    <3> QED BY <2>1, <3>1, SubSeqProperties
  <2>3. SubSeq(list, i + 1, Len(list)) \in Seq(Commits)
    <3>1. \A j \in (i + 1)..Len(list) : list[j] \in Commits BY <2>1
    <3> QED BY <2>1, <3>1, SubSeqProperties
  <2>4. Without(list, c) = SubSeq(list, 1, i - 1) \o SubSeq(list, i + 1, Len(list))
    BY <1>1 DEF Without, i
  <2> QED BY <2>2, <2>3, <2>4
<1>2. CASE ~ \E i \in 1..Len(list) : list[i] = c
  BY <1>2 DEF Without
<1> QED BY <1>1, <1>2

\* Cutting a list to its newest entries leaves a list of commits (MarkFailed).
LEMMA NewestType ==
    ASSUME NEW list \in Seq(Commits), NEW n \in Nat
    PROVE  Newest(list, n) \in Seq(Commits)
BY DEF Newest

\* MarkFailed keeps the record well-formed.
LEMMA MarkFailedType ==
    ASSUME NEW s \in State, NEW c \in CommitOrNone
    PROVE  MarkFailed(s, c) \in State
<1>1. CASE c = None
  BY <1>1 DEF MarkFailed, State, CommitOrNone
<1>2. CASE c # None
  <2>1. c \in Commits BY <1>2 DEF CommitOrNone
  <2>2. s.failedCommits \in Seq(Commits) BY DEF State
  <2> DEFINE list == Newest(Append(Without(s.failedCommits, c), c), MaxFailedCommits)
  <2>3. list \in Seq(Commits)
    <3>1. Append(Without(s.failedCommits, c), c) \in Seq(Commits)
      BY <2>1, <2>2, WithoutType
    <3>2. MaxFailedCommits \in Nat BY StateAssumption
    <3> QED BY <3>1, <3>2, NewestType
  <2>4. MarkFailed(s, c) = [s EXCEPT !.lastFailedCommit = c, !.failedCommits = list]
    BY <1>2 DEF MarkFailed
  <2> HIDE DEF list
  <2> QED BY <2>3, <2>4 DEF State
<1> QED BY <1>1, <1>2

\* The first record, and each other update of it, is well-formed.
LEMMA UpdateTypes ==
    ASSUME NEW s \in State
    PROVE  /\ New \in State
           /\ ClearPending(s) \in State
           /\ \A r \in Results : WithOutcome(s, r) \in State
           /\ \A c \in CommitOrNone : WithCheckout(s, c) \in State
           /\ \A c \in CommitOrNone, stacks \in SUBSET Stacks : WithPending(s, c, stacks) \in State
           /\ WithAttempt(s) \in State
           /\ \A c \in CommitOrNone, stacks \in SUBSET Stacks : Promoted(s, c, stacks) \in State
           /\ \A c \in CommitOrNone : Reverted(s, c) \in State
           /\ \A c \in CommitOrNone, stacks \in SUBSET Stacks : Interrupted(s, c, stacks) \in State
           /\ \A c \in CommitOrNone : GivenUp(s, c) \in State
<1>0. <<>> \in Seq(Commits) OBVIOUS
<1>1. New \in State BY <1>0 DEF New, State, CommitOrNone, Results
<1>2. ASSUME NEW t \in State PROVE ClearPending(t) \in State
  BY DEF ClearPending, State, CommitOrNone
<1>3. \A r \in Results : WithOutcome(s, r) \in State BY DEF WithOutcome, State
<1>4. \A c \in CommitOrNone : WithCheckout(s, c) \in State
  BY DEF WithCheckout, State, Results
<1>5. \A c \in CommitOrNone, stacks \in SUBSET Stacks : WithPending(s, c, stacks) \in State
  BY DEF WithPending, State
<1>6. WithAttempt(s) \in State BY StateAssumption DEF WithAttempt, State
<1>7. \A c \in CommitOrNone, stacks \in SUBSET Stacks : Promoted(s, c, stacks) \in State
  BY <1>0, <1>2 DEF Promoted, State, CommitOrNone, Results
<1>8. \A c \in CommitOrNone : Reverted(s, c) \in State
  BY <1>2 DEF Reverted, State, Results
<1>9. \A c \in CommitOrNone, stacks \in SUBSET Stacks : Interrupted(s, c, stacks) \in State
  <2> TAKE c \in CommitOrNone, stacks \in SUBSET Stacks
  <2> DEFINE failed == IF c = None THEN s ELSE MarkFailed(s, c)
  <2>1. failed \in State BY MarkFailedType
  <2>2. Interrupted(s, c, stacks) =
          [failed EXCEPT !.pendingRevert = TRUE,
                         !.pendingCommit = c,
                         !.pendingStacks = IF stacks # {} THEN stacks ELSE @,
                         !.pendingSince  = TRUE,
                         !.lastResult    = "failed_apply"]
    BY DEF Interrupted
  <2> HIDE DEF failed
  <2> QED BY <2>1, <2>2 DEF State, Results
<1>10. \A c \in CommitOrNone : GivenUp(s, c) \in State
  <2> TAKE c \in CommitOrNone
  <2> DEFINE failed == IF c = None THEN s ELSE MarkFailed(s, c)
  <2>1. failed \in State BY MarkFailedType
  <2>2. GivenUp(s, c) = [ClearPending(failed) EXCEPT !.lastResult = "degraded"]
    BY DEF GivenUp
  <2>3. ClearPending(failed) \in State BY <1>2, <2>1
  <2> HIDE DEF failed
  <2> QED BY <2>2, <2>3 DEF State, Results
<1> QED BY <1>1, <1>2, <1>3, <1>4, <1>5, <1>6, <1>7, <1>8, <1>9, <1>10

\* Marking a commit adds no other commit to the remembered ones.
LEMMA WithoutEntries ==
    ASSUME NEW list \in Seq(Commits), NEW c, NEW j \in 1..Len(Without(list, c))
    PROVE  \E i \in 1..Len(list) : Without(list, c)[j] = list[i]
<1>1. CASE \E i \in 1..Len(list) : list[i] = c
  <2> DEFINE i == CHOOSE i \in 1..Len(list) : list[i] = c
             a == SubSeq(list, 1, i - 1)
             b == SubSeq(list, i + 1, Len(list))
  <2>1. i \in 1..Len(list) BY <1>1
  <2>2. Without(list, c) = a \o b BY <1>1 DEF Without
  <2> HIDE DEF i
  <2>3. /\ a \in Seq(Commits) /\ Len(a) = i - 1
        /\ \A k \in 1..(i - 1) : a[k] = list[k]
    <3>1. \A k \in 1..(i - 1) : list[k] \in Commits BY <2>1
    <3>2. /\ a \in Seq(Commits)
          /\ Len(a) = IF 1 <= i - 1 THEN (i - 1) - 1 + 1 ELSE 0
          /\ \A k \in 1..((i - 1) - 1 + 1) : a[k] = list[1 + k - 1]
      BY <2>1, <3>1, SubSeqProperties
    <3> QED BY <2>1, <3>2
  <2>4. /\ b \in Seq(Commits) /\ Len(b) = Len(list) - i
        /\ \A k \in 1..(Len(list) - i) : b[k] = list[i + k]
    <3>1. \A k \in (i + 1)..Len(list) : list[k] \in Commits BY <2>1
    <3>2. /\ b \in Seq(Commits)
          /\ Len(b) = IF i + 1 <= Len(list) THEN Len(list) - (i + 1) + 1 ELSE 0
          /\ \A k \in 1..(Len(list) - (i + 1) + 1) : b[k] = list[(i + 1) + k - 1]
      BY <2>1, <3>1, SubSeqProperties
    <3> QED BY <2>1, <3>2
  <2> HIDE DEF a, b
  <2>5. Len(a \o b) = Len(list) - 1 BY <2>1, <2>3, <2>4
  <2>6. CASE j <= i - 1
    <3>1. (a \o b)[j] = list[j] BY <2>1, <2>2, <2>3, <2>4, <2>5, <2>6
    <3> QED BY <2>1, <2>2, <2>5, <2>6, <3>1
  <2>7. CASE j > i - 1
    <3>1. (a \o b)[j] = b[j - (i - 1)] BY <2>1, <2>2, <2>3, <2>4, <2>5, <2>7
    <3>2. b[j - (i - 1)] = list[j + 1] BY <2>1, <2>2, <2>4, <2>5, <2>7
    <3>3. j + 1 \in 1..Len(list) BY <2>1, <2>2, <2>5, <2>7
    <3> QED BY <2>2, <3>1, <3>2, <3>3
  <2> QED BY <2>1, <2>6, <2>7
<1>2. CASE ~ \E i \in 1..Len(list) : list[i] = c
  BY <1>2 DEF Without
<1> QED BY <1>1, <1>2

\* ... nor does keeping only the newest.
LEMMA NewestEntries ==
    ASSUME NEW list \in Seq(Commits), NEW n \in Nat, NEW j \in 1..Len(Newest(list, n))
    PROVE  \E i \in 1..Len(list) : Newest(list, n)[j] = list[i]
<1>1. CASE Len(list) > n
  <2> DEFINE m == Len(list) - n + 1
             cut == SubSeq(list, m, Len(list))
  <2>1. Newest(list, n) = cut BY <1>1 DEF Newest
  <2>2. \A k \in m..Len(list) : list[k] \in Commits BY <1>1
  <2>3. /\ Len(cut) = IF m <= Len(list) THEN Len(list) - m + 1 ELSE 0
        /\ \A k \in 1..(Len(list) - m + 1) : cut[k] = list[m + k - 1]
    BY <1>1, <2>2, SubSeqProperties
  <2>4. Len(cut) = n BY <1>1, <2>3
  <2> HIDE DEF cut
  <2>5. cut[j] = list[m + j - 1] BY <1>1, <2>1, <2>3, <2>4
  <2>6. m + j - 1 \in 1..Len(list) BY <1>1, <2>1, <2>4
  <2> QED BY <2>1, <2>5, <2>6
<1>2. CASE ~(Len(list) > n)
  BY <1>2 DEF Newest
<1> QED BY <1>1, <1>2

\* What MarkFailed does to the record: c is the last failed commit, and a commit
\* is known to be bad afterwards only if it was or if it is c.
LEMMA MarkFailedBook ==
    ASSUME NEW s \in State, NEW c \in Commits
    PROVE  /\ MarkFailed(s, c).lastFailedCommit = c
           /\ MarkFailed(s, c).pendingCommit = s.pendingCommit
           /\ MarkFailed(s, c).pendingRevert = s.pendingRevert
           /\ MarkFailed(s, c).lastResult = s.lastResult
           /\ MarkFailed(s, c).lastHealthyCommit = s.lastHealthyCommit
           /\ MarkFailed(s, c).lastCheckoutCommit = s.lastCheckoutCommit
           /\ \A d : IsKnownBad(MarkFailed(s, c), d) => d = c \/ IsKnownBad(s, d)
<1> DEFINE without == Without(s.failedCommits, c)
           grown   == Append(without, c)
           list    == Newest(grown, MaxFailedCommits)
<1>1. c # None BY StateAssumption
<1>2. MarkFailed(s, c) = [s EXCEPT !.lastFailedCommit = c, !.failedCommits = list]
  BY <1>1 DEF MarkFailed
<1>3. s.failedCommits \in Seq(Commits) BY DEF State
<1>4. without \in Seq(Commits) BY <1>3, WithoutType
<1>5. MaxFailedCommits \in Nat BY StateAssumption
<1>6. \A j \in 1..Len(without) : \E i \in 1..Len(s.failedCommits) : without[j] = s.failedCommits[i]
  BY <1>3, WithoutEntries
<1> HIDE DEF without
<1>7. grown \in Seq(Commits) BY <1>4
<1>8. \A j \in 1..Len(list) : \E i \in 1..Len(grown) : list[j] = grown[i]
  BY <1>5, <1>7, NewestEntries
<1>9. \A i \in 1..Len(grown) : grown[i] = c \/ \E k \in 1..Len(without) : grown[i] = without[k]
  BY <1>4
<1> HIDE DEF list, grown
<1>10. \A j \in 1..Len(list) : list[j] = c \/ list[j] \in Remembered(s)
  <2> TAKE j \in 1..Len(list)
  <2>1. PICK i \in 1..Len(grown) : list[j] = grown[i] BY <1>8
  <2>2. CASE grown[i] # c
    <3>1. PICK k \in 1..Len(without) : grown[i] = without[k] BY <1>9, <2>2
    <3>2. PICK m \in 1..Len(s.failedCommits) : without[k] = s.failedCommits[m] BY <1>6
    <3>3. s.failedCommits[m] \in Remembered(s) BY DEF Remembered
    <3> QED BY <2>1, <3>1, <3>2, <3>3
  <2> QED BY <2>1, <2>2
<1>11. /\ MarkFailed(s, c).lastFailedCommit = c
       /\ MarkFailed(s, c).failedCommits = list
       /\ MarkFailed(s, c).pendingCommit = s.pendingCommit
       /\ MarkFailed(s, c).pendingRevert = s.pendingRevert
       /\ MarkFailed(s, c).lastResult = s.lastResult
       /\ MarkFailed(s, c).lastHealthyCommit = s.lastHealthyCommit
       /\ MarkFailed(s, c).lastCheckoutCommit = s.lastCheckoutCommit
  BY <1>2 DEF State
<1> QED BY <1>10, <1>11 DEF IsKnownBad, Remembered

-----------------------------------------------------------------------------
(* How steps end, and what that does to the types. *)

\* The part of TypeOK that is not about the branch, the checkout, Docker and
\* the history.
RunTypeOK ==
    /\ disk \in State
    /\ pc \in Steps
    /\ st \in State
    /\ run \in Run
    /\ cancelled \in BOOLEAN
    /\ faults \in Nat

\* A fault is paid for in whole numbers.
LEMMA CallFailureType == CallFailure \in {0, 1}
BY DEF CallFailure

\* The local variables of a run that has not read anything yet.
LEMMA NoRunType == NoRun \in Run
BY DEF NoRun, Run, CommitOrNone

\* Returning from a run keeps the types when the file does.
LEMMA ReturnType ==
    ASSUME TypeOK, NEW k \in Nat, Return(k), disk' \in State
    PROVE  RunTypeOK'
<1>1. pc' \in Steps /\ cancelled' \in BOOLEAN BY DEF Return, Steps
<1>2. run' \in Run BY NoRunType DEF Return
<1>3. faults' \in Nat BY DEF TypeOK, Return, Cost
<1>4. st' \in State BY DEF Return
<1> QED BY <1>1, <1>2, <1>3, <1>4 DEF RunTypeOK

\* ... and so does saving a last record first.
LEMMA SaveAndReturnType ==
    ASSUME TypeOK, NEW k \in Nat, NEW next \in State, SaveAndReturn(next, k)
    PROVE  RunTypeOK'
<1>1. CASE disk' = next /\ Return(k)
  BY <1>1, ReturnType
<1>2. CASE disk' = disk /\ Return(k + 1)
  <2>1. k + 1 \in Nat OBVIOUS
  <2>2. disk' \in State BY <1>2 DEF TypeOK
  <2> QED BY <1>2, <2>1, <2>2, ReturnType
<1> QED BY <1>1, <1>2 DEF SaveAndReturn

\* Saving a record and going on keeps the types.
LEMMA SaveAndGotoType ==
    ASSUME TypeOK, NEW k \in Nat, NEW next \in State, NEW step \in Steps,
           SaveAndGoto(next, step, k), run' \in Run
    PROVE  RunTypeOK'
BY DEF TypeOK, RunTypeOK, SaveAndGoto, Goto, Cost

\* An abort before the first compose up keeps the types, and HEAD a commit.
LEMMA AbortBeforeUpType ==
    ASSUME TypeOK, NEW k \in Nat, NEW s \in State, NEW left \in State,
           AbortBeforeUp(s, left, k)
    PROVE  RunTypeOK' /\ head' \in Commits
<1> PICK notRestored \in {0, 1} :
        /\ head' = IF notRestored = 1 \/ run.old = None THEN head ELSE run.old
        /\ \/ disk' = left /\ Return(k + notRestored + CallFailure)
           \/ ~cancelled /\ disk' = WithOutcome(s, "failed_apply") /\ Return(k + notRestored)
  BY DEF AbortBeforeUp
<1>1. head' \in Commits
  BY DEF TypeOK, Run, CommitOrNone
<1>2. k + notRestored \in Nat /\ k + notRestored + CallFailure \in Nat
  BY CallFailureType
<1>3. WithOutcome(s, "failed_apply") \in State
  BY UpdateTypes DEF Results
<1> QED BY <1>1, <1>2, <1>3, ReturnType

\* abortApply, with its two verdicts on the commit.
LEMMA AbortApplyType ==
    ASSUME TypeOK, NEW k \in Nat, AbortApply(k)
    PROVE  RunTypeOK' /\ head' \in Commits
<1>1. st \in State /\ disk \in State /\ run.new \in CommitOrNone
  BY DEF TypeOK, Run
<1>2. MarkFailed(st, run.new) \in State
  BY <1>1, MarkFailedType
<1> QED BY <1>1, <1>2, AbortBeforeUpType DEF AbortApply

-----------------------------------------------------------------------------
(* Type correctness. TypeOK alone is not inductive: applyAndWatch checks out  *)
(* run.new, which is a commit only because of how the run got there.          *)

\* A run that moves the checkout forward has a commit to move it to, and a
\* recovery has something to recover.
CommitKnown ==
    /\ pc \in {"gate", "advance", "record"} \cup ApplySteps => run.new \in Commits
    /\ pc \in {"recover", "resolve"} => Pending(st)

\* The environment keeps the types.
LEMMA EnvironmentType ==
    ASSUME TypeOK, Environment
    PROVE  TypeOK'
<1>1. CASE Push
  BY <1>1, ReconcileAssumption DEF TypeOK, Push
<1>2. CASE Pause \/ Resume
  <2>1. disk' \in State BY <1>2 DEF TypeOK, Pause, Resume, State
  <2> QED BY <1>2, <2>1 DEF TypeOK, Pause, Resume
<1>3. CASE Shutdown
  BY <1>3 DEF TypeOK, Shutdown, Cost
<1>4. CASE Crash
  <2>1. dock' \in [Stacks -> CommitOrNone \cup {Torn}]
    BY <1>4 DEF TypeOK, Crash, CommitOrNone
  <2>2. disk' \in State BY <1>4 DEF TypeOK, Crash
  <2>3. RunTypeOK' BY <1>4, <2>2, ReturnType DEF Crash
  <2> QED BY <1>4, <2>1, <2>3 DEF TypeOK, RunTypeOK, Crash
<1> QED BY <1>1, <1>2, <1>3, <1>4 DEF Environment

\* runNormal keeps the types.
LEMMA NormalType ==
    ASSUME TypeOK, CommitKnown, NormalStep
    PROVE  TypeOK'
<1> USE DEF TypeOK, RunTypeOK
<1>0. /\ st \in State /\ disk \in State /\ run \in Run /\ run.new \in CommitOrNone
      /\ CallFailure \in Nat
  BY CallFailureType DEF Run
<1>1. CASE FetchFails
  <2>1. WithOutcome(st, "failed_git") \in State BY <1>0, UpdateTypes DEF Results
  <2>2. RunTypeOK' BY <1>0, <1>1, <2>1, SaveAndReturnType, ReturnType DEF FetchFails
  <2> QED BY <1>1, <2>2 DEF FetchFails
<1>2. CASE NothingToDo \/ SkipOutsideWindow \/ DryRunReports
  <2>1. RunTypeOK' BY <1>0, <1>2, ReturnType DEF NothingToDo, SkipOutsideWindow, DryRunReports
  <2> QED BY <1>2, <2>1 DEF NothingToDo, SkipOutsideWindow, DryRunReports
<1>3. CASE SkipKnownBad
  <2>1. WithOutcome(st, "skipped_known_bad") \in State BY <1>0, UpdateTypes DEF Results
  <2>2. RunTypeOK' BY <1>0, <1>3, <2>1, SaveAndReturnType DEF SkipKnownBad
  <2> QED BY <1>3, <2>2 DEF SkipKnownBad
<1>4. CASE ReapplyDrifted \/ SkipIrrelevant \/ ConsiderChange
  <2>1. run' \in Run
    BY <1>4 DEF ReapplyDrifted, SkipIrrelevant, ConsiderChange, Run, CommitOrNone
  <2>2. pc' \in Steps /\ cancelled' \in BOOLEAN /\ faults' \in Nat
    <3>1. Goto("gate") \/ Goto("advance")
      BY <1>4 DEF ReapplyDrifted, SkipIrrelevant, ConsiderChange
    <3>2. faults' = faults \/ \E k \in {0, 1} : Cost(k)
      BY <1>4 DEF ReapplyDrifted, SkipIrrelevant, ConsiderChange
    <3> QED BY <3>1, <3>2 DEF Goto, Steps, Cost
  <2> QED BY <1>4, <2>1, <2>2 DEF ReapplyDrifted, SkipIrrelevant, ConsiderChange
<1>5. CASE AdvanceCheckout
  BY <1>5 DEF AdvanceCheckout, CommitKnown, Goto, Steps
<1>6. CASE AdvanceFails
  <2>1. RunTypeOK' /\ head' \in Commits BY <1>0, <1>6, AbortBeforeUpType DEF AdvanceFails
  <2> QED BY <1>6, <2>1 DEF AdvanceFails
<1>7. CASE RecordCheckout
  <2>1. WithCheckout(st, run.new) \in State BY <1>0, UpdateTypes
  <2>2. RunTypeOK' BY <1>0, <1>7, <2>1, SaveAndReturnType DEF RecordCheckout
  <2> QED BY <1>7, <2>2 DEF RecordCheckout
<1>8. CASE GateFails
  <2>1. WithOutcome(st, "failed_preflight") \in State BY <1>0, UpdateTypes DEF Results
  <2>2. RunTypeOK' BY <1>0, <1>8, <2>1, SaveAndReturnType, ReturnType DEF GateFails
  <2> QED BY <1>8, <2>2 DEF GateFails
<1>9. CASE GatePasses
  <2> DEFINE next == [st EXCEPT !.preflightBlocks = 0]
  <2>1. next \in State BY <1>0 DEF State
  <2>2. PICK g \in GateStacks :
          /\ run' = [run EXCEPT !.previous = DeployedStacks(st, g[1]), !.pending = {}]
          /\ \/ SaveAndGoto(next, "checkout", g[2])
             \/ next # st /\ disk' \in {disk, next} /\ UNCHANGED st
                /\ Goto("checkout") /\ Cost(g[2] + 1)
    BY <1>9 DEF GatePasses
  <2>3. g[1] \subseteq Stacks /\ g[2] \in Nat
    BY <1>0 DEF GateStacks, StacksAt, State
  <2>4. run' \in Run BY <1>0, <2>2, <2>3 DEF Run, DeployedStacks, State
  <2> HIDE DEF next
  <2>5. RunTypeOK'
    BY <1>0, <2>1, <2>2, <2>3, <2>4 DEF SaveAndGoto, Goto, Cost, Steps
  <2> QED BY <1>9, <2>5 DEF GatePasses
<1>10. CASE GateBlocks
  <2> DEFINE before == [st EXCEPT !.preflightBlocks = BlockedSoFar]
             next   == [st EXCEPT !.preflightBlocks = BlockedSoFar + 1]
  <2>0. BlockedSoFar \in Nat BY <1>0 DEF State, BlockedSoFar
  <2>1. before \in State /\ next \in State
    <3>1. \A n \in Nat : [st EXCEPT !.preflightBlocks = n] \in State BY <1>0 DEF State
    <3>2. BlockedSoFar + 1 \in Nat BY <2>0
    <3> QED BY <2>0, <3>1, <3>2
  <2>2. PICK g \in GateStacks :
          /\ run' = [run EXCEPT !.stacks = g[1], !.failed = None]
          /\ \/ SaveAndGoto(next, "revert", g[2] + 1)
             \/ disk' \in {disk, next} /\ st' = before
                /\ Goto("revert") /\ Cost(g[2] + 2)
    BY <1>10 DEF GateBlocks
  <2>3. g[1] \subseteq Stacks /\ g[2] \in Nat
    BY <1>0 DEF GateStacks, StacksAt, State
  <2>4. run' \in Run BY <1>0, <2>2, <2>3 DEF Run, CommitOrNone
  <2> HIDE DEF before, next
  <2>5. RunTypeOK'
    BY <1>0, <2>1, <2>2, <2>3, <2>4 DEF SaveAndGoto, Goto, Cost, Steps
  <2> QED BY <1>10, <2>5 DEF GateBlocks
<1>11. CASE GateGivesUp
  <2>1. GivenUp(st, None) \in State BY <1>0, UpdateTypes DEF CommitOrNone
  <2>2. RunTypeOK' BY <1>0, <1>11, <2>1, SaveAndReturnType DEF GateGivesUp
  <2> QED BY <1>11, <2>2 DEF GateGivesUp
<1> QED BY <1>1, <1>2, <1>3, <1>4, <1>5, <1>6, <1>7, <1>8, <1>9, <1>10, <1>11 DEF NormalStep

\* recoverFromCrash keeps the types.
LEMMA RecoveryType ==
    ASSUME TypeOK, RecoveryStep
    PROVE  TypeOK'
<1> USE DEF TypeOK, RunTypeOK
<1>0. /\ st \in State /\ disk \in State /\ run \in Run /\ CallFailure \in Nat
      /\ st.pendingCommit \in CommitOrNone /\ st.pendingStacks \in SUBSET Stacks
      /\ WithAttempt(st) \in State
  <2>1. WithAttempt(st) \in State BY UpdateTypes
  <2> QED BY <2>1, CallFailureType DEF State
<1>1. CASE RecoverFetch
  <2>1. st' \in State
    BY <1>0, <1>1 DEF RecoverFetch, State
  <2>2. run' \in Run
    BY <1>0, <1>1 DEF RecoverFetch, Run, Superseding, CommitOrNone
  <2>3. faults' \in Nat
    BY <1>0, <1>1 DEF RecoverFetch, Cost
  <2> QED BY <1>1, <2>1, <2>2, <2>3 DEF RecoverFetch, Goto, Steps
<1>2. CASE RecoverGivesUp
  <2>1. GivenUp(st, st.pendingCommit) \in State BY <1>0, UpdateTypes
  <2>2. RunTypeOK' BY <1>2, <2>1, SaveAndReturnType DEF RecoverGivesUp
  <2> QED BY <1>2, <2>2 DEF RecoverGivesUp
<1>3. CASE RecoverFails
  <2>1. RunTypeOK' BY <1>0, <1>3, ReturnType DEF RecoverFails
  <2> QED BY <1>3, <2>1 DEF RecoverFails
<1>4. CASE RecoverResumesRevert \/ RecoverUnhealthy
  <2>1. PICK k \in {0, 1} : RevertPending(k)
    BY <1>4 DEF RecoverResumesRevert, RecoverUnhealthy
  <2>2. run' \in Run
    BY <1>0, <2>1 DEF RevertPending, Run, RestrictToNames, StacksAt
  <2>3. RunTypeOK'
    BY <1>0, <2>1, <2>2, SaveAndGotoType DEF RevertPending, Steps
  <2> QED BY <1>4, <2>3 DEF RecoverResumesRevert, RecoverUnhealthy
<1>5. CASE RecoverReapplies
  <2>1. DeployedStacks(st, StacksAt(head)) \in SUBSET Stacks
    BY <1>0 DEF DeployedStacks, StacksAt, State
  <2>2. st.lastHealthyCommit \in CommitOrNone BY <1>0 DEF State
  <2>3. run' \in Run
    BY <1>0, <1>5, <2>1, <2>2 DEF RecoverReapplies, Run
  <2>4. RunTypeOK'
    BY <1>0, <1>5, <2>3, SaveAndGotoType DEF RecoverReapplies, Steps
  <2> QED BY <1>5, <2>4 DEF RecoverReapplies
<1> QED BY <1>1, <1>2, <1>3, <1>4, <1>5 DEF RecoveryStep

\* applyAndWatch keeps the types.
LEMMA ApplyType ==
    ASSUME TypeOK, CommitKnown, ApplyStep
    PROVE  TypeOK'
<1> USE DEF TypeOK, RunTypeOK
<1>0. /\ st \in State /\ disk \in State /\ run \in Run /\ CallFailure \in Nat
      /\ run.new \in CommitOrNone /\ run.stacks \in SUBSET Stacks
      /\ StacksAt(head) \in SUBSET Stacks
  BY CallFailureType DEF Run, StacksAt
<1>a. ASSUME NEW down PROVE TornDown(down) \in [Stacks -> CommitOrNone \cup {Torn}]
  BY DEF TornDown, CommitOrNone
<1>b. ASSUME NEW k \in Nat, ApplyIncomplete(k) PROVE RunTypeOK'
  <2>1. WithOutcome(st, "failed_apply") \in State BY <1>0, UpdateTypes DEF Results
  <2> QED BY <1>0, <1>b, <2>1, ReturnType, SaveAndReturnType DEF ApplyIncomplete
<1>c. ASSUME NEW k \in Nat, FailAndRevert(k) PROVE RunTypeOK'
  <2> DEFINE next == WithOutcome(MarkFailed(st, run.new), "failed_apply")
  <2>1. next \in State BY <1>0, MarkFailedType, UpdateTypes DEF Results
  <2>2. /\ st' = next
        /\ disk' \in {next, disk}
        /\ faults' \in {faults + k, faults + k + 1}
    BY <1>c DEF FailAndRevert, Cost
  <2>3. run' \in Run BY <1>0, <1>c DEF FailAndRevert, Run
  <2>4. pc' \in Steps /\ cancelled' \in BOOLEAN BY <1>c DEF FailAndRevert, Goto, Steps
  <2> HIDE DEF next
  <2> QED BY <1>0, <2>1, <2>2, <2>3, <2>4
<1>d. ASSUME NEW s \in Stacks, NEW c \in CommitOrNone \cup {Torn}
      PROVE  [dock EXCEPT ![s] = c] \in [Stacks -> CommitOrNone \cup {Torn}]
  OBVIOUS
<1>1. CASE Checkout
  BY <1>1 DEF Checkout, CommitKnown, ApplySteps, Goto, Steps
<1>2. CASE CheckoutFails
  <2>1. RunTypeOK' /\ head' \in Commits BY <1>0, <1>2, AbortBeforeUpType DEF CheckoutFails
  <2> QED BY <1>2, <2>1 DEF CheckoutFails
<1>3. CASE Plan
  <2>1. PICK unloaded \in SUBSET Weighed :
          /\ run' = [run EXCEPT !.stacks = ChangedStacks(unloaded),
                                !.todo = ChangedStacks(unloaded),
                                !.vanished = run.previous \ StacksAt(head),
                                !.undecided = unloaded # {}]
          /\ Cost(IF unloaded = {} THEN 0 ELSE 1)
          /\ Goto(IF ChangedStacks(unloaded) = {} THEN "sweep" ELSE "prepare")
    BY <1>3 DEF Plan
  <2>2. ChangedStacks(unloaded) \in SUBSET Stacks
    BY <1>0 DEF ChangedStacks, StacksAt, FilterChanged, TouchedStacks, RestrictToNames, Run
  <2>3. run' \in Run
    <3>1. run.previous \ StacksAt(head) \in SUBSET Stacks BY <1>0 DEF Run
    <3>2. (unloaded # {}) \in BOOLEAN OBVIOUS
    <3> QED BY <1>0, <2>1, <2>2, <3>1, <3>2 DEF Run
  <2>4. pc' \in Steps /\ cancelled' \in BOOLEAN BY <2>1 DEF Goto, Steps
  <2>5. faults' \in Nat BY <2>1 DEF Cost
  <2> QED BY <1>3, <2>3, <2>4, <2>5 DEF Plan
<1>4. CASE PlanFails
  <2>1. RunTypeOK' /\ head' \in Commits BY <1>4, AbortApplyType DEF PlanFails
  <2> QED BY <1>4, <2>1 DEF PlanFails
<1>5. CASE Sweep
  <2>1. dock' \in [Stacks -> CommitOrNone \cup {Torn}] BY <1>5, <1>a DEF Sweep
  <2>2. RunTypeOK' BY <1>0, <1>5, ReturnType DEF Sweep, Goto, Steps
  <2> QED BY <1>5, <2>1, <2>2 DEF Sweep
<1>6. CASE TeardownFails
  <2>1. dock' \in [Stacks -> CommitOrNone \cup {Torn}] BY <1>6, <1>a DEF TeardownFails
  <2>2. RunTypeOK' BY <1>6, <1>b DEF TeardownFails
  <2> QED BY <1>6, <2>1, <2>2 DEF TeardownFails
<1>7. CASE Prepare \/ WatchHealthy
  BY <1>7 DEF Prepare, WatchHealthy, Goto, Steps
<1>8. CASE PrepareFails
  <2>1. RunTypeOK' /\ head' \in Commits BY <1>0, <1>8, AbortApplyType DEF PrepareFails
  <2> QED BY <1>8, <2>1 DEF PrepareFails
<1>9. CASE SavePending
  <2>1. WithPending(st, run.new, run.stacks) \in State BY <1>0, UpdateTypes
  <2>2. run' \in Run BY <1>9 DEF SavePending
  <2>3. RunTypeOK' BY <1>9, <2>1, <2>2, SaveAndGotoType DEF SavePending, Steps
  <2> QED BY <1>9, <2>3 DEF SavePending
<1>10. CASE SavePendingFails
  <2>1. WithPending(st, run.new, run.stacks) \in State BY <1>0, UpdateTypes
  <2>2. RunTypeOK' /\ head' \in Commits
    BY <1>0, <1>10, <2>1, AbortBeforeUpType DEF SavePendingFails
  <2> QED BY <1>10, <2>2 DEF SavePendingFails
<1>11. ASSUME NEW s \in Stacks, Up(s) PROVE TypeOK'
  <2>1. dock' \in [Stacks -> CommitOrNone \cup {Torn}] BY <1>0, <1>11, <1>d DEF Up
  <2>2. run' \in Run BY <1>0, <1>11 DEF Up, Run
  <2>3. pc' \in Steps /\ cancelled' \in BOOLEAN BY <1>11 DEF Up, Goto, Steps
  <2> QED BY <1>11, <2>1, <2>2, <2>3 DEF Up
<1>12. ASSUME NEW s \in Stacks, UpFails(s) PROVE TypeOK'
  <2>1. dock' \in [Stacks -> CommitOrNone \cup {Torn}] BY <1>12, <1>d DEF UpFails
  <2>2. RunTypeOK' BY <1>0, <1>12, <1>b, <1>c DEF UpFails
  <2> QED BY <1>12, <2>1, <2>2 DEF UpFails
<1>13. CASE WatchUnhealthy
  <2>1. RunTypeOK' BY <1>13, <1>c DEF WatchUnhealthy
  <2> QED BY <1>13, <2>1 DEF WatchUnhealthy
<1>14. CASE WatchFails
  <2>1. RunTypeOK' BY <1>0, <1>14, <1>b DEF WatchFails
  <2> QED BY <1>14, <2>1 DEF WatchFails
<1>15. CASE Teardown
  <2>1. dock' \in [Stacks -> CommitOrNone \cup {Torn}] BY <1>15, <1>a DEF Teardown
  <2> QED BY <1>15, <2>1 DEF Teardown, Goto, Steps
<1>16. CASE PromoteHealthy
  <2>1. Promoted(st, run.new, StacksAt(head)) \in State BY <1>0, UpdateTypes
  <2>2. RunTypeOK' BY <1>16, <2>1, SaveAndReturnType DEF PromoteHealthy
  <2>3. proven' \subseteq Commits BY <1>16 DEF PromoteHealthy, CommitKnown, ApplySteps
  <2> QED BY <1>16, <2>2, <2>3 DEF PromoteHealthy
<1> QED BY <1>1, <1>2, <1>3, <1>4, <1>5, <1>6, <1>7, <1>8, <1>9, <1>10, <1>11, <1>12,
           <1>13, <1>14, <1>15, <1>16 DEF ApplyStep

\* doRevert keeps the types.
LEMMA RevertType ==
    ASSUME TypeOK, RevertStep
    PROVE  TypeOK'
<1> USE DEF TypeOK, RunTypeOK
<1>0. /\ st \in State /\ disk \in State /\ run \in Run /\ CallFailure \in Nat
      /\ run.failed \in CommitOrNone /\ run.stacks \in SUBSET Stacks
      /\ st.lastHealthyCommit \in CommitOrNone
  BY CallFailureType DEF Run, State
<1>a. ASSUME NEW down PROVE TornDown(down) \in [Stacks -> CommitOrNone \cup {Torn}]
  BY DEF TornDown, CommitOrNone
<1>b. GivenUp(st, run.failed) \in State BY <1>0, UpdateTypes
<1>c. ASSUME NEW k \in Nat, RevertInterrupted(k) PROVE RunTypeOK'
  <2>1. Interrupted(st, run.failed, run.stacks) \in State BY <1>0, UpdateTypes
  <2> QED BY <1>c, <2>1, SaveAndReturnType DEF RevertInterrupted
<1>d. ASSUME NEW k \in Nat, RevertFailed(k) PROVE RunTypeOK'
  BY <1>b, <1>c, <1>d, SaveAndReturnType DEF RevertFailed
<1>e. ASSUME NEW s \in Stacks, NEW c \in CommitOrNone \cup {Torn}
      PROVE  [dock EXCEPT ![s] = c] \in [Stacks -> CommitOrNone \cup {Torn}]
  OBVIOUS
<1>1. CASE RevertNoTarget
  <2>1. RunTypeOK' BY <1>1, <1>b, SaveAndReturnType DEF RevertNoTarget
  <2> QED BY <1>1, <2>1 DEF RevertNoTarget
<1>2. CASE RevertCheckout
  <2>1. head' \in Commits BY <1>0, <1>2 DEF RevertCheckout, RevertTarget, CommitOrNone
  <2>2. st' \in State BY <1>0, <1>2 DEF RevertCheckout, RevertTarget, State
  <2> QED BY <1>2, <2>1, <2>2 DEF RevertCheckout, Goto, Steps
<1>3. CASE RevertCheckoutFails \/ RevertLoadFails
  <2>1. RunTypeOK' BY <1>0, <1>3, <1>d DEF RevertCheckoutFails, RevertLoadFails
  <2> QED BY <1>3, <2>1 DEF RevertCheckoutFails, RevertLoadFails
<1>4. CASE RevertClear
  <2>1. dock' \in [Stacks -> CommitOrNone \cup {Torn}] BY <1>4, <1>a DEF RevertClear
  <2>2. run' \in Run BY <1>0, <1>4 DEF RevertClear, Run
  <2> QED BY <1>4, <2>1, <2>2 DEF RevertClear, Goto, Steps
<1>5. CASE RevertClearFails
  <2>1. dock' \in [Stacks -> CommitOrNone \cup {Torn}] BY <1>5, <1>a DEF RevertClearFails
  <2>2. RunTypeOK' BY <1>5, <1>d DEF RevertClearFails
  <2> QED BY <1>5, <2>1, <2>2 DEF RevertClearFails
<1>6. CASE RevertLoad
  <2>1. run' \in Run BY <1>0, <1>6 DEF RevertLoad, Run
  <2> QED BY <1>6, <2>1 DEF RevertLoad, Goto, Steps
<1>7. ASSUME NEW s \in Stacks, RevertUp(s) PROVE TypeOK'
  <2>1. dock' \in [Stacks -> CommitOrNone \cup {Torn}]
    BY <1>0, <1>7, <1>e DEF RevertUp, RevertTarget
  <2>2. run' \in Run BY <1>0, <1>7 DEF RevertUp, Run
  <2>3. pc' \in Steps /\ cancelled' \in BOOLEAN BY <1>7 DEF RevertUp, Goto, Steps
  <2> QED BY <1>7, <2>1, <2>2, <2>3 DEF RevertUp
<1>8. ASSUME NEW s \in Stacks, RevertUpFails(s) PROVE TypeOK'
  <2>1. dock' \in [Stacks -> CommitOrNone \cup {Torn}] BY <1>8, <1>e DEF RevertUpFails
  <2>2. RunTypeOK' BY <1>0, <1>8, <1>d DEF RevertUpFails
  <2> QED BY <1>8, <2>1, <2>2 DEF RevertUpFails
<1>9. CASE RevertWatchHealthy
  BY <1>9 DEF RevertWatchHealthy, Goto, Steps
<1>10. CASE RevertWatchUnhealthy
  <2>1. RunTypeOK' BY <1>10, <1>b, SaveAndReturnType DEF RevertWatchUnhealthy
  <2> QED BY <1>10, <2>1 DEF RevertWatchUnhealthy
<1>11. CASE RevertWatchFails
  <2>1. RunTypeOK' BY <1>0, <1>11, <1>c DEF RevertWatchFails
  <2> QED BY <1>11, <2>1 DEF RevertWatchFails
<1>12. CASE RevertSettle
  <2>1. Reverted(st, run.failed) \in State BY <1>0, UpdateTypes
  <2>2. RunTypeOK' BY <1>12, <2>1, SaveAndReturnType DEF RevertSettle
  <2> QED BY <1>12, <2>2 DEF RevertSettle
<1> QED BY <1>1, <1>2, <1>3, <1>4, <1>5, <1>6, <1>7, <1>8, <1>9, <1>10, <1>11, <1>12
        DEF RevertStep

\* Starting a run keeps the types.
LEMMA BeginType ==
    ASSUME TypeOK, NEW mode \in Modes, Begin(mode)
    PROVE  TypeOK'
<1>1. mode \in [force : BOOLEAN, dry : BOOLEAN] BY ReconcileAssumption
<1>2. run' \in Run BY <1>1, NoRunType DEF Begin, Run
<1> QED BY <1>2 DEF TypeOK, Begin, Goto, Steps

\* A run that returns is over.
LEMMA ReturnIsIdle == ASSUME NEW k, Return(k) PROVE pc' = "idle"
BY DEF Return

\* ... also after a last save.
LEMMA SaveAndReturnIsIdle == ASSUME NEW k, NEW next, SaveAndReturn(next, k) PROVE pc' = "idle"
BY ReturnIsIdle DEF SaveAndReturn

\* ... and after an abort.
LEMMA AbortIsIdle == ASSUME NEW k, NEW s, NEW left, AbortBeforeUp(s, left, k) PROVE pc' = "idle"
BY ReturnIsIdle DEF AbortBeforeUp

\* doRevert never leads back into applyAndWatch.
LEMMA RevertStaysInRevert ==
    ASSUME RevertStep
    PROVE  pc' \in {"idle", "clear", "load", "reup", "rewatch", "settle"}
<1>1. ASSUME NEW k, RevertFailed(k) \/ RevertInterrupted(k) PROVE pc' = "idle"
  BY <1>1, SaveAndReturnIsIdle DEF RevertFailed, RevertInterrupted
<1>2. CASE \/ RevertNoTarget \/ RevertCheckoutFails \/ RevertClearFails \/ RevertLoadFails
           \/ RevertWatchUnhealthy \/ RevertWatchFails \/ RevertSettle
           \/ \E s \in Stacks : RevertUpFails(s)
  BY <1>1, <1>2, SaveAndReturnIsIdle
  DEF RevertNoTarget, RevertCheckoutFails, RevertClearFails, RevertLoadFails,
      RevertWatchUnhealthy, RevertWatchFails, RevertSettle, RevertUpFails
<1>3. CASE \/ RevertCheckout \/ RevertClear \/ RevertLoad \/ RevertWatchHealthy
           \/ \E s \in Stacks : RevertUp(s)
  BY <1>3 DEF RevertCheckout, RevertClear, RevertLoad, RevertWatchHealthy, RevertUp, Goto
<1> QED BY <1>2, <1>3 DEF RevertStep

\* runNormal and recoverFromCrash enter applyAndWatch at its start.
LEMMA EnterApplyAtCheckout ==
    ASSUME NormalStep \/ RecoveryStep
    PROVE  pc' \in {"idle", "gate", "advance", "record", "resolve", "checkout", "revert"}
<1>1. CASE NormalStep
  <2>1. CASE \/ FetchFails \/ NothingToDo \/ SkipKnownBad \/ SkipOutsideWindow
             \/ AdvanceFails \/ RecordCheckout \/ GateFails \/ DryRunReports \/ GateGivesUp
    BY <2>1, ReturnIsIdle, SaveAndReturnIsIdle, AbortIsIdle
    DEF FetchFails, NothingToDo, SkipKnownBad, SkipOutsideWindow, AdvanceFails,
        RecordCheckout, GateFails, DryRunReports, GateGivesUp
  <2>2. CASE \/ ReapplyDrifted \/ SkipIrrelevant \/ ConsiderChange \/ AdvanceCheckout
             \/ GatePasses \/ GateBlocks
    BY <2>2 DEF ReapplyDrifted, SkipIrrelevant, ConsiderChange, AdvanceCheckout,
                GatePasses, GateBlocks, SaveAndGoto, Goto
  <2> QED BY <1>1, <2>1, <2>2 DEF NormalStep
<1>2. CASE RecoveryStep
  <2>1. CASE RecoverGivesUp \/ RecoverFails
    BY <2>1, ReturnIsIdle, SaveAndReturnIsIdle DEF RecoverGivesUp, RecoverFails
  <2>2. CASE RecoverFetch \/ RecoverResumesRevert \/ RecoverUnhealthy \/ RecoverReapplies
    BY <2>2 DEF RecoverFetch, RecoverResumesRevert, RecoverUnhealthy, RecoverReapplies,
                RevertPending, SaveAndGoto, Goto
  <2> QED BY <1>2, <2>1, <2>2 DEF RecoveryStep
<1> QED BY <1>1, <1>2

\* A run knows the commit it is about before it gets to where it needs one.
LEMMA CommitKnownStep ==
    ASSUME TypeOK, CommitKnown, Next
    PROVE  CommitKnown'
<1> USE DEF CommitKnown
<1>0. run \in Run /\ st \in State /\ remote \in Commits BY DEF TypeOK
<1>a. CASE pc' = "idle"
  BY <1>a DEF ApplySteps
<1>1. CASE Environment
  <2>1. CASE Push \/ Pause \/ Resume
    BY <2>1 DEF Push, Pause, Resume, ApplySteps
  <2>2. CASE Shutdown
    BY <2>2 DEF Shutdown
  <2>3. CASE Crash
    BY <1>a, ReturnIsIdle, <2>3 DEF Crash
  <2> QED BY <1>1, <2>1, <2>2, <2>3 DEF Environment
<1>2. CASE NormalStep
  <2>1. CASE ReapplyDrifted \/ SkipIrrelevant \/ ConsiderChange
    <3>1. run'.new = remote
      BY <1>0, <2>1 DEF ReapplyDrifted, SkipIrrelevant, ConsiderChange, Run
    <3>2. pc' \in {"advance", "gate"}
      BY <2>1 DEF ReapplyDrifted, SkipIrrelevant, ConsiderChange, Goto
    <3> QED BY <1>0, <3>1, <3>2 DEF TypeOK
  <2>2. CASE AdvanceCheckout
    BY <2>2 DEF AdvanceCheckout, Goto
  <2>3. CASE GatePasses
    <3>1. run'.new = run.new BY <1>0, <2>3 DEF GatePasses, Run
    <3>2. pc = "gate" /\ pc' = "checkout" BY <2>3 DEF GatePasses, SaveAndGoto, Goto
    <3> QED BY <3>1, <3>2
  <2>4. CASE GateBlocks
    BY <2>4 DEF GateBlocks, SaveAndGoto, Goto, ApplySteps
  <2>5. CASE \/ FetchFails \/ NothingToDo \/ SkipKnownBad \/ SkipOutsideWindow
             \/ AdvanceFails \/ RecordCheckout \/ GateFails \/ DryRunReports \/ GateGivesUp
    BY <1>a, ReturnIsIdle, SaveAndReturnIsIdle, AbortIsIdle, <2>5
    DEF FetchFails, NothingToDo, SkipKnownBad, SkipOutsideWindow, AdvanceFails,
        RecordCheckout, GateFails, DryRunReports, GateGivesUp
  <2> QED BY <1>2, <2>1, <2>2, <2>3, <2>4, <2>5 DEF NormalStep
<1>3. CASE RecoveryStep
  <2>1. CASE RecoverFetch
    <3>1. pc = "recover" /\ pc' = "resolve" BY <2>1 DEF RecoverFetch, Goto
    <3>2. st'.pendingCommit = st.pendingCommit /\ st'.pendingRevert = st.pendingRevert
      BY <1>0, <2>1 DEF RecoverFetch, State
    <3> QED BY <3>1, <3>2 DEF Pending, ApplySteps
  <2>2. CASE RecoverResumesRevert \/ RecoverUnhealthy
    BY <2>2 DEF RecoverResumesRevert, RecoverUnhealthy, RevertPending, SaveAndGoto, Goto, ApplySteps
  <2>3. CASE RecoverReapplies
    <3>1. st.pendingCommit # None
      BY <2>3 DEF RecoverReapplies, Pending, RevertInProgress
    <3>2. st.pendingCommit \in Commits BY <1>0, <3>1 DEF State, CommitOrNone
    <3>3. run'.new \in Commits
      BY <1>0, <2>3, <3>2 DEF RecoverReapplies, Run, CommitOrNone
    <3>4. pc' = "checkout" BY <2>3 DEF RecoverReapplies, SaveAndGoto, Goto
    <3> QED BY <3>3, <3>4
  <2>4. CASE RecoverGivesUp \/ RecoverFails
    BY <1>a, ReturnIsIdle, SaveAndReturnIsIdle, <2>4 DEF RecoverGivesUp, RecoverFails
  <2> QED BY <1>3, <2>1, <2>2, <2>3, <2>4 DEF RecoveryStep
<1>4. CASE ApplyStep
  <2>a. CASE pc \in ApplySteps /\ pc' \in ApplySteps /\ run'.new = run.new
    BY <2>a DEF ApplySteps
  <2>b. ASSUME NEW k, FailAndRevert(k) PROVE pc' = "revert"
    BY <2>b DEF FailAndRevert, Goto
  <2>c. ASSUME NEW k, ApplyIncomplete(k) PROVE pc' = "idle"
    BY ReturnIsIdle, SaveAndReturnIsIdle, <2>c DEF ApplyIncomplete
  <2>d. CASE pc' = "revert"
    BY <2>d DEF ApplySteps
  <2>1. CASE Checkout \/ Prepare \/ WatchHealthy \/ Teardown \/ SavePending
    BY <2>1, <2>a
    DEF Checkout, Prepare, WatchHealthy, Teardown, SavePending, SaveAndGoto, Goto, ApplySteps
  <2>2. CASE Plan
    <3>1. run'.new = run.new BY <1>0, <2>2 DEF Plan, Run
    <3>2. pc = "plan" /\ pc' \in {"sweep", "prepare"} BY <2>2 DEF Plan, Goto
    <3> QED BY <2>a, <3>1, <3>2 DEF ApplySteps
  <2>3. CASE Sweep
    BY <1>a, ReturnIsIdle, <2>a, <2>3 DEF Sweep, Goto, ApplySteps
  <2>4. ASSUME NEW s \in Stacks, Up(s) PROVE CommitKnown'
    <3>1. run'.new = run.new BY <1>0, <2>4 DEF Up, Run
    <3>2. pc = "up" /\ pc' \in {"up", "watch"} BY <2>4 DEF Up, Goto
    <3> QED BY <2>a, <3>1, <3>2 DEF ApplySteps
  <2>5. ASSUME NEW s \in Stacks, UpFails(s) PROVE CommitKnown'
    BY <1>a, <2>b, <2>c, <2>d, <2>5 DEF UpFails
  <2>6. CASE WatchUnhealthy
    BY <2>6, <2>b, <2>d DEF WatchUnhealthy
  <2>7. CASE WatchFails \/ TeardownFails
    BY <1>a, <2>7, <2>c DEF WatchFails, TeardownFails
  <2>8. CASE CheckoutFails \/ PlanFails \/ PrepareFails \/ SavePendingFails \/ PromoteHealthy
    BY <1>a, SaveAndReturnIsIdle, AbortIsIdle, <2>8
    DEF CheckoutFails, PlanFails, PrepareFails, SavePendingFails, AbortApply, PromoteHealthy
  <2> QED BY <1>4, <2>1, <2>2, <2>3, <2>4, <2>5, <2>6, <2>7, <2>8 DEF ApplyStep
<1>5. CASE RevertStep
  BY <1>5, RevertStaysInRevert DEF ApplySteps
<1>6. ASSUME NEW mode \in Modes, Begin(mode) PROVE CommitKnown'
  BY <1>6 DEF Begin, Goto, ApplySteps
<1> QED BY <1>1, <1>2, <1>3, <1>4, <1>5, <1>6 DEF Next, CodeStep

\* The initial state is typed.
LEMMA InitTypes == Init => TypeOK /\ CommitKnown
<1> SUFFICES ASSUME Init PROVE TypeOK /\ CommitKnown OBVIOUS
<1>1. New \in State
  <2>1. <<>> \in Seq(Commits) OBVIOUS
  <2> QED BY <2>1 DEF New, State, CommitOrNone, Results
<1> QED BY <1>1, NoRunType, ReconcileAssumption
        DEF Init, TypeOK, CommitKnown, ApplySteps, Steps, CommitOrNone

\* Every step keeps the types.
LEMMA TypesStep == TypeOK /\ CommitKnown /\ [Next]_vars => TypeOK' /\ CommitKnown'
<1> SUFFICES ASSUME TypeOK, CommitKnown, [Next]_vars PROVE TypeOK' /\ CommitKnown'
  OBVIOUS
<1>1. CASE Next
  BY <1>1, EnvironmentType, NormalType, RecoveryType, ApplyType, RevertType, BeginType,
     CommitKnownStep DEF Next, CodeStep
<1>2. CASE UNCHANGED vars
  BY <1>2 DEF vars, TypeOK, CommitKnown
<1> QED BY <1>1, <1>2

\* TypeOK with what makes it inductive.
LEMMA TypesAndCommits == Spec => [](TypeOK /\ CommitKnown)
<1>1. Init => TypeOK /\ CommitKnown BY InitTypes
<1>2. TypeOK /\ CommitKnown /\ [Next]_vars => TypeOK' /\ CommitKnown' BY TypesStep
<1> QED BY <1>1, <1>2, PTL DEF Spec

\* Every variable keeps its type, whatever fails and whenever the process dies:
\* in particular HEAD, the record and Docker only ever name commits.
THEOREM TypeCorrect == Spec => []TypeOK
BY TypesAndCommits, PTL

-----------------------------------------------------------------------------
(* Write-ahead. *)

\* WriteAhead, and what leads up to it: from its checkout to its promotion, HEAD
\* is at the commit being applied.
WriteAheadInv ==
    /\ WriteAhead
    /\ pc \in {"plan", "sweep", "prepare", "pend", "promote"} => head = run.new

\* The steps WriteAheadInv says something about.
Recorded == {"plan", "sweep", "prepare", "pend", "up", "watch", "teardown", "promote"}

\* A step of applyAndWatch keeps the record of what it is doing ahead of it.
LEMMA WriteAheadApply ==
    ASSUME TypeOK, WriteAheadInv, ApplyStep
    PROVE  WriteAheadInv'
<1> USE DEF WriteAheadInv, WriteAhead
<1>0. run \in Run /\ st \in State BY DEF TypeOK
<1>a. ASSUME pc' \notin Recorded PROVE WriteAheadInv'
  BY <1>a DEF Recorded
<1>1. CASE Checkout
  BY <1>1 DEF Checkout, Goto
<1>2. CASE Plan
  <2>1. run'.new = run.new BY <1>0, <1>2 DEF Plan, Run
  <2>2. pc = "plan" /\ pc' \in {"sweep", "prepare"} /\ head' = head BY <1>2 DEF Plan, Goto
  <2> QED BY <2>1, <2>2
<1>3. CASE Prepare \/ WatchHealthy
  BY <1>3 DEF Prepare, WatchHealthy, Goto
<1>4. CASE SavePending
  <2>1. disk' = WithPending(st, run.new, run.stacks) /\ pc = "pend" /\ pc' = "up"
    BY <1>4 DEF SavePending, SaveAndGoto, Goto
  <2>2. disk'.pendingCommit = run.new /\ disk'.pendingStacks = run.stacks
    BY <1>0, <2>1 DEF WithPending, State
  <2> QED BY <1>4, <2>1, <2>2 DEF SavePending
<1>5. ASSUME NEW s \in Stacks, Up(s) PROVE WriteAheadInv'
  <2>1. run'.new = run.new /\ run'.stacks = run.stacks BY <1>0, <1>5 DEF Up, Run
  <2>2. pc = "up" /\ pc' \in {"up", "watch"} /\ head' = head /\ disk' = disk
    BY <1>5 DEF Up, Goto
  <2> QED BY <2>1, <2>2
<1>6. CASE Sweep \/ Teardown
  <2>1. CASE pc' = "idle" BY <2>1, <1>a DEF Recorded
  <2>2. CASE pc' # "idle"
    BY <1>6, <2>2, ReturnIsIdle DEF Sweep, Teardown, Goto
  <2> QED BY <2>1, <2>2
<1>7. ASSUME NEW k, ApplyIncomplete(k) \/ FailAndRevert(k) PROVE WriteAheadInv'
  BY <1>7, <1>a, ReturnIsIdle, SaveAndReturnIsIdle
  DEF ApplyIncomplete, FailAndRevert, Goto, Recorded
<1>8. CASE \/ WatchUnhealthy \/ WatchFails \/ TeardownFails
           \/ \E s \in Stacks : UpFails(s)
  BY <1>7, <1>8 DEF WatchUnhealthy, WatchFails, TeardownFails, UpFails
<1>9. CASE CheckoutFails \/ PlanFails \/ PrepareFails \/ SavePendingFails \/ PromoteHealthy
  BY <1>9, <1>a, SaveAndReturnIsIdle, AbortIsIdle
  DEF CheckoutFails, PlanFails, PrepareFails, SavePendingFails, AbortApply, PromoteHealthy,
      Recorded
<1> QED BY <1>1, <1>2, <1>3, <1>4, <1>5, <1>6, <1>8, <1>9 DEF ApplyStep

LEMMA WriteAheadInvariant == Spec => []WriteAheadInv
<1>1. Init => WriteAheadInv
  BY DEF Init, WriteAheadInv, WriteAhead
<1>2. TypeOK /\ WriteAheadInv /\ [Next]_vars => WriteAheadInv'
  <2> SUFFICES ASSUME TypeOK, WriteAheadInv, [Next]_vars PROVE WriteAheadInv'
    OBVIOUS
  <2>1. CASE Environment
    <3>1. CASE Push \/ Pause \/ Resume \/ Shutdown
      BY <3>1 DEF Push, Pause, Resume, Shutdown, WriteAheadInv, WriteAhead
    <3>2. CASE Crash
      BY <3>2, ReturnIsIdle DEF Crash, WriteAheadInv, WriteAhead
    <3> QED BY <2>1, <3>1, <3>2 DEF Environment
  <2>2. CASE NormalStep \/ RecoveryStep
    BY <2>2, EnterApplyAtCheckout DEF WriteAheadInv, WriteAhead
  <2>3. CASE ApplyStep
    BY <2>3, WriteAheadApply
  <2>4. CASE RevertStep
    BY <2>4, RevertStaysInRevert DEF WriteAheadInv, WriteAhead
  <2>5. ASSUME NEW mode \in Modes, Begin(mode) PROVE WriteAheadInv'
    BY <2>5 DEF Begin, Goto, WriteAheadInv, WriteAhead
  <2>6. CASE UNCHANGED vars
    BY <2>6 DEF vars, WriteAheadInv, WriteAhead
  <2> QED BY <2>1, <2>2, <2>3, <2>4, <2>5, <2>6 DEF Next, CodeStep
<1> QED BY <1>1, <1>2, TypeCorrect, PTL DEF Spec

\* Whenever a crash can leave a commit half applied, the state file names that
\* commit and all stacks being touched, and HEAD is at it: in every mode, for
\* every failure of a save and whatever was pending before.
THEOREM WriteAheadHolds == Spec => []WriteAhead
<1>1. WriteAheadInv => WriteAhead
  BY DEF WriteAheadInv
<1> QED BY <1>1, WriteAheadInvariant, PTL

-----------------------------------------------------------------------------
(* The pre-flight gate gives up. *)

Within(s) == s.preflightBlocks <= MaxPreflightBlocks

\* The run's copy of the record and the state file are both within the limit.
BlocksInv == Within(st) /\ Within(disk)

\* No update but the gate's own lets the counter grow.
LEMMA UpdatesStayWithin ==
    ASSUME NEW s \in State, Within(s), NEW c, NEW d, NEW stacks, NEW result
    PROVE  /\ Within(WithOutcome(s, result)) /\ Within(WithCheckout(s, c))
           /\ Within(WithPending(s, c, stacks)) /\ Within(WithAttempt(s))
           /\ Within(MarkFailed(s, c)) /\ Within(WithOutcome(MarkFailed(s, c), result))
           /\ Within(Promoted(s, c, stacks)) /\ Within(Reverted(s, c))
           /\ Within(Interrupted(s, c, stacks)) /\ Within(GivenUp(s, c))
<1> USE DEF Within, State
<1>1. Within(WithOutcome(s, result)) /\ Within(WithCheckout(s, c))
  BY DEF WithOutcome, WithCheckout
<1>2. Within(WithPending(s, c, stacks)) /\ Within(WithAttempt(s))
  BY DEF WithPending, WithAttempt
<1>3. MarkFailed(s, c).preflightBlocks = s.preflightBlocks
  BY DEF MarkFailed
<1>4. WithOutcome(MarkFailed(s, c), result).preflightBlocks = s.preflightBlocks
  BY DEF MarkFailed, WithOutcome
<1>5. Within(Promoted(s, c, stacks)) /\ Within(Reverted(s, c))
  BY StateAssumption DEF Promoted, Reverted, ClearPending
<1>6. Within(Interrupted(s, c, stacks))
  BY DEF Interrupted, MarkFailed
<1>7. Within(GivenUp(s, c))
  BY DEF GivenUp, ClearPending, MarkFailed
<1> QED BY <1>1, <1>2, <1>3, <1>4, <1>5, <1>6, <1>7

LEMMA ReturnsStayWithin ==
    ASSUME BlocksInv, NEW next, Within(next), NEW k,
           SaveAndReturn(next, k) \/ (disk' = disk /\ Return(k))
    PROVE  BlocksInv'
BY DEF BlocksInv, Within, SaveAndReturn, Return

LEMMA AbortsStayWithin ==
    ASSUME TypeOK, BlocksInv, NEW k, NEW s \in State, Within(s), NEW left, Within(left),
           AbortBeforeUp(s, left, k)
    PROVE  BlocksInv'
<1>1. Within(WithOutcome(s, "failed_apply"))
  BY UpdatesStayWithin
<1>2. Within(disk') /\ st' = disk'
  BY <1>1 DEF AbortBeforeUp, Return
<1> QED BY <1>2 DEF BlocksInv, Within

LEMMA NormalBlocks == ASSUME TypeOK, BlocksInv, NormalStep PROVE BlocksInv'
<1>0. st \in State /\ Within(st) BY DEF TypeOK, BlocksInv
<1>1. CASE \/ ReapplyDrifted \/ SkipIrrelevant \/ ConsiderChange \/ AdvanceCheckout
  BY <1>1 DEF ReapplyDrifted, SkipIrrelevant, ConsiderChange, AdvanceCheckout, BlocksInv
<1>2. CASE \/ FetchFails \/ NothingToDo \/ SkipKnownBad \/ SkipOutsideWindow \/ RecordCheckout
           \/ GateFails \/ DryRunReports \/ GateGivesUp
  BY <1>0, <1>2, UpdatesStayWithin, ReturnsStayWithin
  DEF FetchFails, NothingToDo, SkipKnownBad, SkipOutsideWindow, RecordCheckout, GateFails,
      DryRunReports, GateGivesUp
<1>3. CASE AdvanceFails
  BY <1>0, <1>3, AbortsStayWithin DEF AdvanceFails, BlocksInv
<1>4. CASE GatePasses
  <2>1. Within([st EXCEPT !.preflightBlocks = 0])
    BY <1>0, StateAssumption DEF Within, State
  <2> QED BY <1>4, <2>1 DEF GatePasses, SaveAndGoto, BlocksInv
<1>5. CASE GateBlocks
  <2>1. BlockedSoFar \in Nat /\ BlockedSoFar < MaxPreflightBlocks
    BY <1>0, <1>5 DEF GateBlocks, BlockedSoFar, State
  <2>2. /\ Within([st EXCEPT !.preflightBlocks = BlockedSoFar])
        /\ Within([st EXCEPT !.preflightBlocks = BlockedSoFar + 1])
    BY <1>0, <2>1, StateAssumption DEF Within, State
  <2> QED BY <1>5, <2>2 DEF GateBlocks, SaveAndGoto, BlocksInv
<1> QED BY <1>1, <1>2, <1>3, <1>4, <1>5 DEF NormalStep

LEMMA RecoveryBlocks == ASSUME TypeOK, BlocksInv, RecoveryStep PROVE BlocksInv'
<1>0. st \in State /\ Within(st) BY DEF TypeOK, BlocksInv
<1>1. CASE RecoverFetch
  <2>1. Within([st EXCEPT !.pendingAttempts = 0, !.pendingSince = TRUE])
    BY <1>0 DEF Within, State
  <2> QED BY <1>0, <1>1, <2>1 DEF RecoverFetch, BlocksInv
<1>2. CASE RecoverGivesUp
  BY <1>0, <1>2, UpdatesStayWithin, ReturnsStayWithin DEF RecoverGivesUp
<1>3. CASE RecoverFails
  <2>1. Within(disk') /\ st' = disk'
    BY <1>0, <1>3, UpdatesStayWithin DEF RecoverFails, Return, BlocksInv
  <2> QED BY <2>1 DEF BlocksInv, Within
<1>4. CASE RecoverResumesRevert \/ RecoverUnhealthy \/ RecoverReapplies
  <2>1. disk' = WithAttempt(st) /\ st' = WithAttempt(st)
    BY <1>4 DEF RecoverResumesRevert, RecoverUnhealthy, RecoverReapplies, RevertPending, SaveAndGoto
  <2> QED BY <1>0, <2>1, UpdatesStayWithin DEF BlocksInv
<1> QED BY <1>1, <1>2, <1>3, <1>4 DEF RecoveryStep

LEMMA ApplyBlocks == ASSUME TypeOK, BlocksInv, ApplyStep PROVE BlocksInv'
<1>0. st \in State /\ Within(st) /\ Within(disk) BY DEF TypeOK, BlocksInv
<1>1. CASE \/ Checkout \/ Plan \/ Prepare \/ WatchHealthy \/ Teardown
           \/ \E s \in Stacks : Up(s)
  BY <1>1 DEF Checkout, Plan, Prepare, WatchHealthy, Teardown, Up, BlocksInv
<1>2. CASE Sweep
  BY <1>0, <1>2, ReturnsStayWithin DEF Sweep, BlocksInv
<1>3. ASSUME NEW k, AbortApply(k) PROVE BlocksInv'
  <2>1. run.new \in CommitOrNone BY DEF TypeOK, Run
  <2>2. MarkFailed(st, run.new) \in State BY <1>0, <2>1, MarkFailedType
  <2> QED BY <1>0, <1>3, <2>2, UpdatesStayWithin, AbortsStayWithin DEF AbortApply
<1>4. CASE CheckoutFails \/ PlanFails \/ PrepareFails
  BY <1>0, <1>3, <1>4, AbortsStayWithin DEF CheckoutFails, PlanFails, PrepareFails
<1>5. CASE SavePendingFails
  BY <1>0, <1>5, UpdatesStayWithin, AbortsStayWithin DEF SavePendingFails
<1>6. CASE SavePending
  BY <1>0, <1>6, UpdatesStayWithin DEF SavePending, SaveAndGoto, BlocksInv
<1>7. ASSUME NEW k, ApplyIncomplete(k) PROVE BlocksInv'
  BY <1>0, <1>7, UpdatesStayWithin, ReturnsStayWithin DEF ApplyIncomplete
<1>8. ASSUME NEW k, FailAndRevert(k) PROVE BlocksInv'
  BY <1>0, <1>8, UpdatesStayWithin DEF FailAndRevert, BlocksInv
<1>9. CASE \/ TeardownFails \/ WatchUnhealthy \/ WatchFails \/ \E s \in Stacks : UpFails(s)
  BY <1>7, <1>8, <1>9 DEF TeardownFails, WatchUnhealthy, WatchFails, UpFails
<1>10. CASE PromoteHealthy
  BY <1>0, <1>10, UpdatesStayWithin, ReturnsStayWithin DEF PromoteHealthy
<1> QED BY <1>1, <1>2, <1>4, <1>5, <1>6, <1>9, <1>10 DEF ApplyStep

LEMMA RevertBlocks == ASSUME TypeOK, BlocksInv, RevertStep PROVE BlocksInv'
<1>0. st \in State /\ Within(st) BY DEF TypeOK, BlocksInv
<1>1. CASE \/ RevertClear \/ RevertLoad \/ RevertWatchHealthy \/ \E s \in Stacks : RevertUp(s)
  BY <1>1 DEF RevertClear, RevertLoad, RevertWatchHealthy, RevertUp, BlocksInv
<1>2. CASE RevertCheckout
  <2>1. Within([st EXCEPT !.lastCheckoutCommit = RevertTarget])
    BY <1>0 DEF Within, State
  <2> QED BY <1>2, <2>1 DEF RevertCheckout, BlocksInv
<1>3. ASSUME NEW k, RevertInterrupted(k) \/ RevertFailed(k) PROVE BlocksInv'
  BY <1>0, <1>3, UpdatesStayWithin, ReturnsStayWithin DEF RevertInterrupted, RevertFailed
<1>4. CASE \/ RevertCheckoutFails \/ RevertClearFails \/ RevertLoadFails \/ RevertWatchFails
           \/ \E s \in Stacks : RevertUpFails(s)
  BY <1>3, <1>4
  DEF RevertCheckoutFails, RevertClearFails, RevertLoadFails, RevertWatchFails, RevertUpFails
<1>5. CASE RevertNoTarget \/ RevertWatchUnhealthy \/ RevertSettle
  BY <1>0, <1>5, UpdatesStayWithin, ReturnsStayWithin
  DEF RevertNoTarget, RevertWatchUnhealthy, RevertSettle
<1> QED BY <1>1, <1>2, <1>4, <1>5 DEF RevertStep

\* The streak of blocked runs never passes the limit at which preflightBlocked
\* gives up: not with --force, which restarts it, not through a save that fails
\* and leaves memory and disk apart, and not through any other record update.
THEOREM BlocksBounded == Spec => []PreflightBlocksBounded
<1>1. Init => BlocksInv
  <2>1. Init => disk = New /\ st = New BY DEF Init
  <2>2. New.preflightBlocks = 0 BY DEF New
  <2>3. 0 <= MaxPreflightBlocks BY StateAssumption
  <2> QED BY <2>1, <2>2, <2>3 DEF BlocksInv, Within
<1>2. TypeOK /\ BlocksInv /\ [Next]_vars => BlocksInv'
  <2> SUFFICES ASSUME TypeOK, BlocksInv, [Next]_vars PROVE BlocksInv'
    OBVIOUS
  <2>1. CASE Environment
    <3>1. CASE Push \/ Shutdown
      BY <3>1 DEF Push, Shutdown, BlocksInv
    <3>2. CASE Pause \/ Resume
      BY <3>2 DEF Pause, Resume, BlocksInv, Within, TypeOK, State
    <3>3. CASE Crash
      BY <3>3 DEF Crash, Return, BlocksInv, Within
    <3> QED BY <2>1, <3>1, <3>2, <3>3 DEF Environment
  <2>2. ASSUME NEW mode \in Modes, Begin(mode) PROVE BlocksInv'
    BY <2>2 DEF Begin, BlocksInv, Within
  <2>3. CASE UNCHANGED vars
    BY <2>3 DEF vars, BlocksInv
  <2> QED BY <2>1, <2>2, <2>3, NormalBlocks, RecoveryBlocks, ApplyBlocks, RevertBlocks
          DEF Next, CodeStep
<1>3. BlocksInv => PreflightBlocksBounded
  BY DEF BlocksInv, Within, PreflightBlocksBounded
<1> QED BY <1>1, <1>2, <1>3, TypeCorrect, PTL DEF Spec

-----------------------------------------------------------------------------
(* Dry runs. *)

DrySteps == {"fetch", "gate", "advance", "record"}

\* A dry run never leaves runNormal, and not past the gate.
DryInv == run.dry => pc \in DrySteps

\* A run that returns leaves no mode behind.
LEMMA ReturnForgetsMode ==
    ASSUME NEW next, NEW s, NEW left, NEW k,
           Return(k) \/ SaveAndReturn(next, k) \/ AbortBeforeUp(s, left, k)
    PROVE  run'.dry = FALSE
<1>1. ASSUME NEW j, Return(j) PROVE run'.dry = FALSE
  BY <1>1 DEF Return, NoRun
<1> QED BY <1>1 DEF SaveAndReturn, AbortBeforeUp

LEMMA NormalDry ==
    ASSUME TypeOK, DryInv, NormalStep
    PROVE  DryInv' /\ (run.dry => UNCHANGED dock)
<1>0. run \in Run BY DEF TypeOK
<1>1. CASE \/ FetchFails \/ NothingToDo \/ SkipKnownBad \/ SkipOutsideWindow \/ AdvanceFails
           \/ RecordCheckout \/ GateFails \/ DryRunReports \/ GateGivesUp
  <2>1. run'.dry = FALSE
    BY <1>1, ReturnForgetsMode DEF FetchFails, NothingToDo, SkipKnownBad, SkipOutsideWindow,
       AdvanceFails, RecordCheckout, GateFails, DryRunReports, GateGivesUp
  <2>2. UNCHANGED dock
    BY <1>1 DEF FetchFails, NothingToDo, SkipKnownBad, SkipOutsideWindow,
       AdvanceFails, RecordCheckout, GateFails, DryRunReports, GateGivesUp
  <2> QED BY <2>1, <2>2 DEF DryInv
<1>2. CASE ReapplyDrifted \/ SkipIrrelevant \/ ConsiderChange \/ AdvanceCheckout
  BY <1>0, <1>2 DEF ReapplyDrifted, SkipIrrelevant, ConsiderChange, AdvanceCheckout, Goto,
     Run, DryInv, DrySteps
<1>3. CASE GatePasses \/ GateBlocks
  BY <1>0, <1>3 DEF GatePasses, GateBlocks, Run, DryInv
<1> QED BY <1>1, <1>2, <1>3 DEF NormalStep

LEMMA OtherDry ==
    ASSUME TypeOK, DryInv, RecoveryStep \/ ApplyStep \/ RevertStep
    PROVE  DryInv' /\ (run.dry => UNCHANGED dock)
<1>0. run \in Run BY DEF TypeOK
<1>1. run.dry = FALSE
  <2>1. pc \notin DrySteps
    BY DEF DrySteps, RecoveryStep, RecoverFetch, RecoverGivesUp, RecoverFails, RecoverResumesRevert,
       RecoverUnhealthy, RecoverReapplies, ApplyStep, Checkout, CheckoutFails, Plan, PlanFails,
       Sweep, TeardownFails, Prepare, PrepareFails, SavePending, SavePendingFails, Up, UpFails,
       WatchHealthy, WatchUnhealthy, WatchFails, Teardown, PromoteHealthy, RevertStep,
       RevertNoTarget, RevertCheckout, RevertCheckoutFails, RevertClear, RevertClearFails,
       RevertLoad, RevertLoadFails, RevertUp, RevertUpFails, RevertWatchHealthy,
       RevertWatchUnhealthy, RevertWatchFails, RevertSettle
  <2> QED BY <1>0, <2>1 DEF DryInv, Run
<1>2. ASSUME NEW k, \/ AbortApply(k) \/ ApplyIncomplete(k) \/ FailAndRevert(k)
                    \/ RevertInterrupted(k) \/ RevertFailed(k)
      PROVE  run'.dry = FALSE
  <2>1. CASE FailAndRevert(k)
    BY <1>0, <1>1, <2>1 DEF FailAndRevert, Run
  <2> QED BY <1>2, <2>1, ReturnForgetsMode
          DEF AbortApply, ApplyIncomplete, RevertInterrupted, RevertFailed
<1>3. CASE RecoveryStep
  <2>1. CASE RecoverGivesUp \/ RecoverFails
    BY <2>1, ReturnForgetsMode DEF RecoverGivesUp, RecoverFails, DryInv
  <2>2. CASE RecoverFetch
    BY <1>0, <1>1, <2>2 DEF RecoverFetch, Run, DryInv
  <2>3. CASE RecoverResumesRevert \/ RecoverUnhealthy \/ RecoverReapplies
    BY <1>0, <1>1, <2>3
    DEF RecoverResumesRevert, RecoverUnhealthy, RecoverReapplies, RevertPending, Run, DryInv
  <2> QED BY <1>1, <1>3, <2>1, <2>2, <2>3 DEF RecoveryStep
<1>4. CASE ApplyStep
  <2>1. CASE CheckoutFails \/ PlanFails \/ PrepareFails \/ SavePendingFails \/ PromoteHealthy
    BY <1>2, <2>1, ReturnForgetsMode
    DEF CheckoutFails, PlanFails, PrepareFails, SavePendingFails, PromoteHealthy, DryInv
  <2>2. CASE \/ TeardownFails \/ WatchUnhealthy \/ WatchFails \/ \E s \in Stacks : UpFails(s)
    BY <1>1, <1>2, <2>2 DEF TeardownFails, WatchUnhealthy, WatchFails, UpFails, DryInv
  <2>3. CASE Sweep
    BY <1>1, <2>3, ReturnForgetsMode DEF Sweep, DryInv
  <2>4. CASE Checkout \/ Prepare \/ SavePending \/ WatchHealthy \/ Teardown
    BY <1>1, <2>4 DEF Checkout, Prepare, SavePending, WatchHealthy, Teardown, DryInv
  <2>5. CASE Plan
    <3>1. run'.dry = run.dry BY <1>0, <2>5 DEF Plan, Run
    <3> QED BY <1>1, <3>1 DEF DryInv
  <2>6. ASSUME NEW s \in Stacks, Up(s) PROVE DryInv'
    <3>1. run'.dry = run.dry BY <1>0, <2>6 DEF Up, Run
    <3> QED BY <1>1, <3>1 DEF DryInv
  <2> QED BY <1>1, <1>4, <2>1, <2>2, <2>3, <2>4, <2>5, <2>6 DEF ApplyStep
<1>5. CASE RevertStep
  <2>1. CASE \/ RevertNoTarget \/ RevertCheckoutFails \/ RevertClearFails \/ RevertLoadFails
             \/ RevertWatchUnhealthy \/ RevertWatchFails \/ RevertSettle
             \/ \E s \in Stacks : RevertUpFails(s)
    BY <1>1, <1>2, <2>1, ReturnForgetsMode
    DEF RevertNoTarget, RevertCheckoutFails, RevertClearFails, RevertLoadFails,
        RevertWatchUnhealthy, RevertWatchFails, RevertSettle, RevertUpFails, DryInv
  <2>2. CASE RevertCheckout \/ RevertWatchHealthy
    BY <1>1, <2>2 DEF RevertCheckout, RevertWatchHealthy, DryInv
  <2>3. CASE RevertClear \/ RevertLoad
    <3>1. run'.dry = run.dry BY <1>0, <2>3 DEF RevertClear, RevertLoad, Run
    <3> QED BY <1>1, <3>1 DEF DryInv
  <2>4. ASSUME NEW s \in Stacks, RevertUp(s) PROVE DryInv'
    <3>1. run'.dry = run.dry BY <1>0, <2>4 DEF RevertUp, Run
    <3> QED BY <1>1, <3>1 DEF DryInv
  <2> QED BY <1>1, <1>5, <2>1, <2>2, <2>3, <2>4 DEF RevertStep
<1> QED BY <1>3, <1>4, <1>5

LEMMA EnvironmentDry ==
    ASSUME TypeOK, DryInv, Environment
    PROVE  DryInv' /\ (run.dry => UNCHANGED dock)
<1>1. CASE Push \/ Pause \/ Resume \/ Shutdown
  BY <1>1 DEF Push, Pause, Resume, Shutdown, DryInv
<1>2. CASE Crash
  <2>1. run'.dry = FALSE
    BY <1>2, ReturnForgetsMode DEF Crash
  <2>2. ASSUME run.dry PROVE dock' = dock
    <3>1. BeingRemoved = {} /\ BeingPutUp = {{}}
      BY <2>2 DEF DryInv, DrySteps, BeingRemoved, BeingPutUp
    <3>2. \A down \in SUBSET {} : down = {}
      OBVIOUS
    <3>3. dock' = [s \in Stacks |-> dock[s]]
      BY <1>2, <3>1, <3>2 DEF Crash
    <3> QED BY <3>3 DEF TypeOK
  <2> QED BY <2>1, <2>2 DEF DryInv
<1> QED BY <1>1, <1>2 DEF Environment

\* `composelock check` never puts a stack up or takes one down, whatever it
\* finds, wherever it fails and wherever it is killed (apply.go:119,
\* recovery.go:19).
THEOREM DryRunIsDry == Spec => DryRunNeverTouchesCompose
<1>1. Init => DryInv
  BY DEF Init, NoRun, DryInv
<1>2. TypeOK /\ DryInv /\ [Next]_vars => DryInv' /\ [run.dry => UNCHANGED dock]_vars
  <2> SUFFICES ASSUME TypeOK, DryInv, [Next]_vars
               PROVE  DryInv' /\ [run.dry => UNCHANGED dock]_vars
    OBVIOUS
  <2>1. ASSUME NEW mode \in Modes, Begin(mode) PROVE DryInv' /\ UNCHANGED dock
    <3>1. run'.dry = mode.dry
      BY <2>1 DEF Begin, NoRun
    <3> QED BY <2>1, <3>1 DEF Begin, Goto, DryInv, DrySteps
  <2>2. CASE UNCHANGED vars
    BY <2>2 DEF vars, DryInv
  <2> QED BY <2>1, <2>2, NormalDry, OtherDry, EnvironmentDry DEF Next, CodeStep
<1> QED BY <1>1, <1>2, TypeCorrect, PTL DEF Spec, DryRunNeverTouchesCompose

-----------------------------------------------------------------------------
(* The rollback target is not known to be bad. A commit is marked failed when *)
(* it is being applied or was pending; the invariant puts all of those        *)
(* strictly after the rollback target on a branch that only moves forward,    *)
(* and the checkout, to which an abort returns, not before it.                *)

\* Numberings of the commits that grow along every push.
Ranks == {rank \in [Commits -> Nat] :
             \A c \in Commits : \A d \in PushTo[c] : rank[c] < rank[d]}

\* The branch only moves forward: no sequence of pushes leads back.
OnlyForward == Ranks # {}

Rank == CHOOSE rank \in Ranks : TRUE

NotAfter(c, d) == c = d \/ Rank[c] < Rank[d]

\* x is a commit from the target t to the branch head r, or none ...
From(x, t, r) == x # None => NotAfter(x, r) /\ (t = None \/ NotAfter(t, x))

\* ... and after the target.
After(x, t, r) == x # None => NotAfter(x, r) /\ (t = None \/ Rank[t] < Rank[x])

OrderlyRecord(s, t, r) ==
    /\ s.lastHealthyCommit = t
    /\ From(s.lastCheckoutCommit, t, r)
    /\ After(s.pendingCommit, t, r)
    /\ ~IsKnownBad(s, t)

Orderly(t, r, s, d, h, u) ==
    /\ From(t, t, r)
    /\ OrderlyRecord(s, t, r) /\ OrderlyRecord(d, t, r)
    /\ From(h, t, r) /\ From(u.old, t, r)
    /\ After(u.new, t, r) /\ After(u.failed, t, r)

OrderInv == Orderly(disk.lastHealthyCommit, remote, st, disk, head, run)

LEMMA RankType ==
    ASSUME OnlyForward
    PROVE  /\ Rank \in [Commits -> Nat]
           /\ \A c \in Commits : \A d \in PushTo[c] : Rank[c] < Rank[d]
BY DEF OnlyForward, Rank, Ranks

\* The order of commits.
LEMMA CommitOrder ==
    ASSUME OnlyForward, NEW t \in CommitOrNone, NEW r \in Commits, NEW x \in CommitOrNone
    PROVE  /\ From(None, t, r) /\ After(None, t, r)
           /\ After(x, t, r) => From(x, t, r)
           /\ After(x, t, r) /\ x # None => x # t
           /\ \A d \in PushTo[r] : /\ From(x, t, r) => From(x, t, d)
                                   /\ After(x, t, r) => After(x, t, d)
           /\ From(r, t, r) <=> From(t, t, r)
           /\ From(x, t, r) /\ x # None /\ x # r => After(r, t, r)
           /\ After(x, t, r) /\ x # None /\ x # r => After(r, t, r)
           /\ From(t, t, r) /\ t # r => After(r, t, r)
<1>1. Rank \in [Commits -> Nat] /\ \A c \in Commits : \A d \in PushTo[c] : Rank[c] < Rank[d]
  BY RankType
<1>2. \A d \in PushTo[r] : d \in Commits BY ReconcileAssumption
<1>3. \A c \in CommitOrNone : c # None => c \in Commits BY DEF CommitOrNone
<1>4. \A c \in Commits : Rank[c] \in Nat BY <1>1
<1> USE DEF From, After, NotAfter
<1>5. From(None, t, r) /\ After(None, t, r) OBVIOUS
<1>6. (After(x, t, r) => From(x, t, r)) /\ (After(x, t, r) /\ x # None => x # t)
  BY <1>3, <1>4
<1>7. ASSUME NEW d \in PushTo[r]
      PROVE  (From(x, t, r) => From(x, t, d)) /\ (After(x, t, r) => After(x, t, d))
  <2>1. Rank[r] < Rank[d] /\ d \in Commits BY <1>1, <1>2
  <2>2. NotAfter(x, r) /\ x # None => NotAfter(x, d)
    BY <1>3, <1>4, <2>1
  <2> QED BY <2>2
<1>8. From(r, t, r) <=> From(t, t, r) BY <1>3, <1>4, StateAssumption
<1>9. /\ From(x, t, r) /\ x # None /\ x # r => After(r, t, r)
      /\ After(x, t, r) /\ x # None /\ x # r => After(r, t, r)
      /\ From(t, t, r) /\ t # r => After(r, t, r)
  BY <1>3, <1>4
<1> QED BY <1>5, <1>6, <1>7, <1>8, <1>9

\* Every update of a record keeps it orderly, when the commits it brings in are.
LEMMA OrderlyUpdates ==
    ASSUME OnlyForward, NEW s \in State, NEW t \in CommitOrNone, NEW r \in Commits,
           From(t, t, r), OrderlyRecord(s, t, r), NEW c \in CommitOrNone, NEW stacks, NEW result
    PROVE  /\ OrderlyRecord(WithOutcome(s, result), t, r)
           /\ OrderlyRecord(WithAttempt(s), t, r)
           /\ \A n : OrderlyRecord([s EXCEPT !.preflightBlocks = n], t, r)
           /\ OrderlyRecord([s EXCEPT !.pendingAttempts = 0, !.pendingSince = TRUE], t, r)
           /\ \A b : OrderlyRecord([s EXCEPT !.paused = b], t, r)
           /\ OrderlyRecord([s EXCEPT !.lastCheckoutCommit = t], t, r)
           /\ OrderlyRecord(Reverted(s, c), t, r)
           /\ From(c, t, r) => OrderlyRecord(WithCheckout(s, c), t, r)
           /\ After(c, t, r) =>
                /\ OrderlyRecord(WithPending(s, c, stacks), t, r)
                /\ c # None => OrderlyRecord(MarkFailed(s, c), t, r)
                /\ OrderlyRecord(Interrupted(s, c, stacks), t, r)
                /\ OrderlyRecord(GivenUp(s, c), t, r)
<1> USE DEF OrderlyRecord
<1>0. After(None, t, r) /\ (After(c, t, r) => From(c, t, r)) /\ (After(c, t, r) /\ c # None => c # t)
  BY CommitOrder
<1>a. ASSUME NEW u, u.lastHealthyCommit = s.lastHealthyCommit,
             From(u.lastCheckoutCommit, t, r), After(u.pendingCommit, t, r),
             u.lastFailedCommit = s.lastFailedCommit, u.failedCommits = s.failedCommits
      PROVE  OrderlyRecord(u, t, r)
  BY <1>a DEF IsKnownBad, Remembered
<1>1. OrderlyRecord(WithOutcome(s, result), t, r) /\ OrderlyRecord(WithAttempt(s), t, r)
  BY <1>a DEF WithOutcome, WithAttempt, State
<1>2. /\ \A n : OrderlyRecord([s EXCEPT !.preflightBlocks = n], t, r)
      /\ OrderlyRecord([s EXCEPT !.pendingAttempts = 0, !.pendingSince = TRUE], t, r)
      /\ \A b : OrderlyRecord([s EXCEPT !.paused = b], t, r)
      /\ OrderlyRecord([s EXCEPT !.lastCheckoutCommit = t], t, r)
  BY <1>a DEF State
<1>3. OrderlyRecord(Reverted(s, c), t, r)
  BY <1>0, <1>a DEF Reverted, ClearPending, State
<1>4. From(c, t, r) => OrderlyRecord(WithCheckout(s, c), t, r)
  BY <1>a DEF WithCheckout, State
<1>5. After(c, t, r) => OrderlyRecord(WithPending(s, c, stacks), t, r)
  BY <1>0, <1>a DEF WithPending, State
<1>6. ASSUME After(c, t, r) PROVE c # None => OrderlyRecord(MarkFailed(s, c), t, r)
  <2> SUFFICES ASSUME c \in Commits PROVE OrderlyRecord(MarkFailed(s, c), t, r)
    BY DEF CommitOrNone
  <2>1. c # t BY <1>0, <1>6, StateAssumption
  <2> QED BY <2>1, MarkFailedBook
<1>b. ASSUME After(c, t, r) PROVE OrderlyRecord(IF c = None THEN s ELSE MarkFailed(s, c), t, r)
  BY <1>6, <1>b
<1> DEFINE failed == IF c = None THEN s ELSE MarkFailed(s, c)
<1>c. failed \in State BY MarkFailedType
<1>d. Interrupted(s, c, stacks) =
        [failed EXCEPT !.pendingRevert = TRUE, !.pendingCommit = c,
                       !.pendingStacks = IF stacks # {} THEN stacks ELSE @,
                       !.pendingSince  = TRUE, !.lastResult    = "failed_apply"]
  BY DEF Interrupted
<1>e. GivenUp(s, c) = [ClearPending(failed) EXCEPT !.lastResult = "degraded"]
  BY DEF GivenUp
<1> HIDE DEF failed
<1>7. ASSUME After(c, t, r) PROVE OrderlyRecord(Interrupted(s, c, stacks), t, r)
  <2>1. OrderlyRecord(failed, t, r) BY <1>7, <1>b DEF failed
  <2> QED BY <1>7, <1>c, <1>d, <2>1 DEF State, IsKnownBad, Remembered
<1>8. ASSUME After(c, t, r) PROVE OrderlyRecord(GivenUp(s, c), t, r)
  <2>1. OrderlyRecord(failed, t, r) BY <1>8, <1>b DEF failed
  <2> QED BY <1>0, <1>c, <1>e, <2>1 DEF ClearPending, State, IsKnownBad, Remembered
<1> QED BY <1>1, <1>2, <1>3, <1>4, <1>5, <1>6, <1>7, <1>8

Target == disk.lastHealthyCommit

\* What the invariant says, with the types it needs.
LEMMA OrderFacts ==
    ASSUME TypeOK, OrderInv
    PROVE  /\ Target \in CommitOrNone /\ remote \in Commits /\ head \in Commits
           /\ head # None /\ remote # None
           /\ st \in State /\ disk \in State /\ run \in Run
           /\ run.new \in CommitOrNone /\ run.failed \in CommitOrNone /\ run.old \in CommitOrNone
           /\ st.pendingCommit \in CommitOrNone /\ st.lastHealthyCommit = Target
           /\ From(Target, Target, remote)
           /\ OrderlyRecord(st, Target, remote) /\ OrderlyRecord(disk, Target, remote)
           /\ From(head, Target, remote) /\ From(run.old, Target, remote)
           /\ After(run.new, Target, remote) /\ After(run.failed, Target, remote)
           /\ After(st.pendingCommit, Target, remote)
<1>1. /\ Target \in CommitOrNone /\ remote \in Commits /\ head \in Commits
      /\ head # None /\ remote # None
      /\ st \in State /\ disk \in State /\ run \in Run
      /\ run.new \in CommitOrNone /\ run.failed \in CommitOrNone /\ run.old \in CommitOrNone
      /\ st.pendingCommit \in CommitOrNone
  BY StateAssumption DEF TypeOK, Target, State, Run
<1> QED BY <1>1 DEF OrderInv, Orderly, OrderlyRecord, Target

\* A step that keeps the target keeps the order when all it changes is in order.
LEMMA GoOnOrder ==
    ASSUME NEW t, remote' = remote, From(t, t, remote),
           OrderlyRecord(st', t, remote), OrderlyRecord(disk', t, remote),
           From(head', t, remote), From(run'.old, t, remote),
           After(run'.new, t, remote), After(run'.failed, t, remote)
    PROVE  OrderInv'
<1>1. disk'.lastHealthyCommit = t BY DEF OrderlyRecord
<1> QED BY <1>1 DEF OrderInv, Orderly

LEMMA ReturnOrder ==
    ASSUME OnlyForward, NEW k, Return(k), remote' = remote,
           NEW t \in CommitOrNone, remote \in Commits, From(t, t, remote),
           OrderlyRecord(disk', t, remote), From(head', t, remote)
    PROVE  OrderInv'
<1>1. run'.old = None /\ run'.new = None /\ run'.failed = None /\ st' = disk'
  BY DEF Return, NoRun
<1>2. From(None, t, remote) /\ After(None, t, remote) BY CommitOrder
<1> QED BY <1>1, <1>2, GoOnOrder

LEMMA SaveAndReturnOrder ==
    ASSUME OnlyForward, TypeOK, OrderInv, NEW k, NEW next, SaveAndReturn(next, k),
           UNCHANGED <<remote, head>>, OrderlyRecord(next, Target, remote)
    PROVE  OrderInv'
BY OrderFacts, ReturnOrder DEF SaveAndReturn

LEMMA ReturnUnsavedOrder ==
    ASSUME OnlyForward, TypeOK, OrderInv, NEW k, disk' = disk, Return(k), UNCHANGED <<remote, head>>
    PROVE  OrderInv'
BY OrderFacts, ReturnOrder

LEMMA AbortOrder ==
    ASSUME OnlyForward, TypeOK, OrderInv, NEW k, NEW s \in State, NEW left,
           AbortBeforeUp(s, left, k), remote' = remote,
           OrderlyRecord(s, Target, remote), OrderlyRecord(left, Target, remote)
    PROVE  OrderInv'
<1>1. From(head', Target, remote) BY OrderFacts DEF AbortBeforeUp
<1>2. OrderlyRecord(WithOutcome(s, "failed_apply"), Target, remote) BY OrderFacts, OrderlyUpdates
<1> QED BY <1>1, <1>2, OrderFacts, ReturnOrder DEF AbortBeforeUp

LEMMA EnvironmentOrder ==
    ASSUME OnlyForward, TypeOK, OrderInv, Environment PROVE OrderInv'
<1>1. CASE Push
  <2>1. remote' \in PushTo[remote] /\ UNCHANGED <<head, disk, st, run>> BY <1>1 DEF Push
  <2>2. \A x \in CommitOrNone : /\ From(x, Target, remote) => From(x, Target, remote')
                                /\ After(x, Target, remote) => After(x, Target, remote')
    BY <2>1, OrderFacts, CommitOrder
  <2>3. ASSUME NEW s \in State, OrderlyRecord(s, Target, remote)
        PROVE  OrderlyRecord(s, Target, remote')
    BY <2>2, <2>3 DEF OrderlyRecord, State
  <2>4. head \in CommitOrNone BY OrderFacts DEF CommitOrNone
  <2>5. Orderly(Target, remote', st, disk, head, run)
    BY <2>2, <2>3, <2>4, OrderFacts DEF Orderly
  <2> QED BY <2>1, <2>5 DEF OrderInv, Target
<1>2. CASE Pause \/ Resume
  <2>1. PICK b \in BOOLEAN : /\ disk' = [disk EXCEPT !.paused = b] /\ st' = disk'
                             /\ UNCHANGED <<remote, head, run>>
    BY <1>2 DEF Pause, Resume
  <2>2. OrderlyRecord(disk', Target, remote) BY <2>1, OrderFacts, OrderlyUpdates
  <2> QED BY <2>1, <2>2, OrderFacts, GoOnOrder
<1>3. CASE Shutdown
  BY <1>3 DEF Shutdown, OrderInv
<1>4. CASE Crash
  BY <1>4, ReturnUnsavedOrder DEF Crash
<1> QED BY <1>1, <1>2, <1>3, <1>4 DEF Environment

LEMMA BeginOrder ==
    ASSUME OnlyForward, TypeOK, OrderInv, NEW mode, Begin(mode) PROVE OrderInv'
<1>1. /\ run'.old = None /\ run'.new = None /\ run'.failed = None /\ st' = disk /\ disk' = disk
      /\ UNCHANGED <<remote, head>>
  BY DEF Begin, NoRun
<1>2. From(None, Target, remote) /\ After(None, Target, remote) BY OrderFacts, CommitOrder
<1> QED BY <1>1, <1>2, OrderFacts, GoOnOrder

\* runNormal: there is something to do only for a commit after the target.
LEMMA NormalOrder ==
    ASSUME OnlyForward, TypeOK, OrderInv, CommitKnown, NormalStep PROVE OrderInv'
<1>0. /\ Target \in CommitOrNone /\ remote \in Commits /\ From(Target, Target, remote)
      /\ st \in State /\ OrderlyRecord(st, Target, remote)
  BY OrderFacts
<1>1. CASE NothingToDo \/ SkipOutsideWindow \/ DryRunReports
  BY <1>1, ReturnUnsavedOrder DEF NothingToDo, SkipOutsideWindow, DryRunReports
<1>2. CASE FetchFails \/ GateFails \/ SkipKnownBad
  <2>1. \A result : OrderlyRecord(WithOutcome(st, result), Target, remote)
    BY <1>0, OrderlyUpdates
  <2> QED BY <1>2, <2>1, ReturnUnsavedOrder, SaveAndReturnOrder DEF FetchFails, GateFails, SkipKnownBad
<1>3. CASE ReapplyDrifted \/ SkipIrrelevant \/ ConsiderChange
  <2>1. SomethingToDo /\ run'.old = head /\ run'.new = remote /\ run'.failed = run.failed
        /\ UNCHANGED <<remote, head, disk, st>>
    BY <1>3, OrderFacts DEF ReapplyDrifted, SkipIrrelevant, ConsiderChange, Eligible, Run
  <2>2. After(remote, Target, remote)
    <3>1. CASE head # remote
      <4>1. head \in CommitOrNone BY OrderFacts DEF CommitOrNone
      <4> QED BY <3>1, <4>1, OrderFacts, CommitOrder
    <3>2. CASE head = remote
      <4>1. remote # ExpectedCheckout(st) BY <2>1, <3>2 DEF SomethingToDo, CheckoutDrifted
      <4>2. CASE st.lastCheckoutCommit # None
        <5>1. st.lastCheckoutCommit # remote /\ st.lastCheckoutCommit \in CommitOrNone
          BY <1>0, <4>1, <4>2 DEF ExpectedCheckout, State
        <5>2. From(st.lastCheckoutCommit, Target, remote) BY <1>0 DEF OrderlyRecord
        <5> QED BY <1>0, <4>2, <5>1, <5>2, CommitOrder
      <4>3. CASE st.lastCheckoutCommit = None
        <5>1. Target # remote BY <4>1, <4>3, OrderFacts DEF ExpectedCheckout
        <5> QED BY <1>0, <5>1, CommitOrder
      <4> QED BY <4>2, <4>3
    <3> QED BY <3>1, <3>2
  <2> QED BY <2>1, <2>2, OrderFacts, GoOnOrder
<1>4. CASE AdvanceCheckout
  <2>1. head' = run.new /\ UNCHANGED <<remote, disk, st, run>> BY <1>4 DEF AdvanceCheckout
  <2>2. From(run.new, Target, remote) BY OrderFacts, CommitOrder
  <2> QED BY <2>1, <2>2, OrderFacts, GoOnOrder
<1>5. CASE AdvanceFails
  BY <1>5, OrderFacts, AbortOrder DEF AdvanceFails
<1>6. CASE RecordCheckout
  <2>1. From(run.new, Target, remote) BY OrderFacts, CommitOrder
  <2>2. OrderlyRecord(WithCheckout(st, run.new), Target, remote)
    BY <2>1, OrderFacts, OrderlyUpdates
  <2> QED BY <1>6, <2>2, SaveAndReturnOrder DEF RecordCheckout
<1>7. CASE GatePasses
  <2>1. /\ run'.old = run.old /\ run'.new = run.new /\ run'.failed = run.failed
        /\ UNCHANGED <<remote, head>>
        /\ st' \in {st, [st EXCEPT !.preflightBlocks = 0]}
        /\ disk' \in {disk, [st EXCEPT !.preflightBlocks = 0]}
    BY <1>7, OrderFacts DEF GatePasses, SaveAndGoto, Run
  <2>2. OrderlyRecord([st EXCEPT !.preflightBlocks = 0], Target, remote) BY <1>0, OrderlyUpdates
  <2> QED BY <2>1, <2>2, OrderFacts, GoOnOrder
<1>8. CASE GateBlocks
  <2>1. PICK n, m : /\ st' = [st EXCEPT !.preflightBlocks = n]
                    /\ disk' \in {disk, [st EXCEPT !.preflightBlocks = m]}
    BY <1>8 DEF GateBlocks, SaveAndGoto
  <2>2. /\ run'.old = run.old /\ run'.new = run.new /\ run'.failed = None
        /\ UNCHANGED <<remote, head>>
    BY <1>8, OrderFacts DEF GateBlocks, Run
  <2>3. \A i : OrderlyRecord([st EXCEPT !.preflightBlocks = i], Target, remote)
    BY <1>0, OrderlyUpdates
  <2>4. After(None, Target, remote) BY <1>0, CommitOrder
  <2> QED BY <2>1, <2>2, <2>3, <2>4, OrderFacts, GoOnOrder
<1>9. CASE GateGivesUp
  <2>1. After(None, Target, remote) BY <1>0, CommitOrder
  <2>2. OrderlyRecord(GivenUp(st, None), Target, remote)
    BY <1>0, <2>1, OrderlyUpdates DEF CommitOrNone
  <2> QED BY <1>9, <2>2, SaveAndReturnOrder DEF GateGivesUp
<1> QED BY <1>1, <1>2, <1>3, <1>4, <1>5, <1>6, <1>7, <1>8, <1>9 DEF NormalStep

\* recoverFromCrash: what is pending is after the target, and so is a commit
\* that supersedes it.
LEMMA RecoveryOrder ==
    ASSUME OnlyForward, TypeOK, OrderInv, CommitKnown, RecoveryStep PROVE OrderInv'
<1>0. /\ Target \in CommitOrNone /\ remote \in Commits /\ From(Target, Target, remote)
      /\ st \in State /\ OrderlyRecord(st, Target, remote)
      /\ st.pendingCommit \in CommitOrNone /\ After(st.pendingCommit, Target, remote)
  BY OrderFacts
<1>1. OrderlyRecord(WithAttempt(st), Target, remote) BY <1>0, OrderlyUpdates
<1>2. From(st.pendingCommit, Target, remote) BY <1>0, CommitOrder
<1>3. CASE RecoverFetch
  <2>1. /\ st' \in {st, [st EXCEPT !.pendingAttempts = 0, !.pendingSince = TRUE]}
        /\ run'.old = run.old /\ run'.failed = run.failed
        /\ run'.new \in {run.new, None} \/ (run'.new = remote /\ ~RevertInProgress(st')
                                            /\ run'.new # st'.pendingCommit)
        /\ UNCHANGED <<remote, head, disk>>
    BY <1>3, OrderFacts DEF RecoverFetch, Superseding, Run
  <2>2. OrderlyRecord([st EXCEPT !.pendingAttempts = 0, !.pendingSince = TRUE], Target, remote)
    BY <1>0, OrderlyUpdates
  <2>3. After(run'.new, Target, remote)
    <3>1. CASE run'.new \in {run.new, None} BY <1>0, <3>1, OrderFacts, CommitOrder
    <3>2. CASE run'.new = remote /\ ~RevertInProgress(st') /\ run'.new # st'.pendingCommit
      <4>1. st'.pendingCommit = st.pendingCommit BY <1>0, <2>1 DEF State
      <4>2. st.pendingCommit # None
        <5>1. Pending(st) BY <1>3 DEF CommitKnown, RecoverFetch
        <5>2. ~st.pendingRevert BY <1>0, <2>1, <3>2 DEF RevertInProgress, State
        <5> QED BY <5>1, <5>2 DEF Pending
      <4> QED BY <1>0, <3>2, <4>1, <4>2, CommitOrder
    <3> QED BY <2>1, <3>1, <3>2
  <2> QED BY <2>1, <2>2, <2>3, OrderFacts, GoOnOrder
<1>4. CASE RecoverGivesUp
  <2>1. OrderlyRecord(GivenUp(st, st.pendingCommit), Target, remote) BY <1>0, OrderlyUpdates
  <2> QED BY <1>4, <2>1, SaveAndReturnOrder DEF RecoverGivesUp
<1>5. CASE RecoverFails
  <2>1. disk' \in {disk, WithAttempt(st)} /\ UNCHANGED <<remote, head>> /\ \E k : Return(k)
    BY <1>5 DEF RecoverFails
  <2> QED BY <1>1, <2>1, OrderFacts, ReturnOrder
<1>6. CASE RecoverResumesRevert \/ RecoverUnhealthy
  <2>1. /\ st' = WithAttempt(st) /\ disk' = WithAttempt(st) /\ UNCHANGED <<remote, head>>
        /\ run'.old = run.old /\ run'.new = st.pendingCommit /\ run'.failed = st.pendingCommit
    BY <1>6, OrderFacts DEF RecoverResumesRevert, RecoverUnhealthy, RevertPending, SaveAndGoto, Run
  <2> QED BY <1>1, <2>1, OrderFacts, GoOnOrder
<1>7. CASE RecoverReapplies
  <2>1. /\ st' = WithAttempt(st) /\ disk' = WithAttempt(st) /\ UNCHANGED <<remote, head>>
        /\ run'.old \in {Target, st.pendingCommit} /\ run'.new \in {run.new, st.pendingCommit}
        /\ run'.failed = run.failed
    BY <1>7, OrderFacts DEF RecoverReapplies, SaveAndGoto, Run
  <2> QED BY <1>0, <1>1, <1>2, <2>1, OrderFacts, GoOnOrder
<1> QED BY <1>3, <1>4, <1>5, <1>6, <1>7 DEF RecoveryStep

\* applyAndWatch: a failure marks the commit being applied, and a promotion
\* forgets every failure.
LEMMA ApplyOrder ==
    ASSUME OnlyForward, TypeOK, OrderInv, CommitKnown, WriteAheadInv, ApplyStep PROVE OrderInv'
<1>0. /\ Target \in CommitOrNone /\ remote \in Commits /\ From(Target, Target, remote)
      /\ st \in State /\ OrderlyRecord(st, Target, remote) /\ OrderlyRecord(disk, Target, remote)
      /\ After(run.new, Target, remote) /\ run \in Run
  BY OrderFacts
<1>1. run.new \in Commits /\ run.new \in CommitOrNone /\ run.new # None
  BY StateAssumption DEF CommitKnown, ApplySteps, CommitOrNone, ApplyStep, Checkout, CheckoutFails,
     Plan, PlanFails, Sweep, TeardownFails, Prepare, PrepareFails, SavePending, SavePendingFails,
     Up, UpFails, WatchHealthy, WatchUnhealthy, WatchFails, Teardown, PromoteHealthy
<1>2. MarkFailed(st, run.new) \in State /\ OrderlyRecord(MarkFailed(st, run.new), Target, remote)
  BY <1>0, <1>1, OrderlyUpdates, MarkFailedType
<1>3. \A result : /\ OrderlyRecord(WithOutcome(st, result), Target, remote)
                  /\ OrderlyRecord(WithOutcome(MarkFailed(st, run.new), result), Target, remote)
  BY <1>0, <1>2, OrderlyUpdates
<1>4. \A stacks : OrderlyRecord(WithPending(st, run.new, stacks), Target, remote)
  BY <1>0, <1>1, OrderlyUpdates
<1>5. From(run.new, Target, remote) BY <1>0, <1>1, CommitOrder
<1>6. CASE Checkout
  <2>1. head' = run.new /\ UNCHANGED <<remote, disk, st, run>> BY <1>6 DEF Checkout
  <2> QED BY <1>5, <2>1, OrderFacts, GoOnOrder
<1>7. CASE Plan
  <2>1. /\ run'.old = run.old /\ run'.new = run.new /\ run'.failed = run.failed
        /\ UNCHANGED <<remote, head, disk, st>>
    BY <1>0, <1>7 DEF Plan, Run
  <2> QED BY <2>1, OrderFacts, GoOnOrder
<1>8. CASE Prepare \/ WatchHealthy \/ Teardown
  BY <1>8 DEF Prepare, WatchHealthy, Teardown, OrderInv
<1>9. ASSUME NEW s \in Stacks, Up(s) PROVE OrderInv'
  <2>1. /\ run'.old = run.old /\ run'.new = run.new /\ run'.failed = run.failed
        /\ UNCHANGED <<remote, head, disk, st>>
    BY <1>0, <1>9 DEF Up, Run
  <2> QED BY <2>1, OrderFacts, GoOnOrder
<1>10. CASE Sweep
  <2>1. CASE run.undecided BY <1>10, <2>1, ReturnUnsavedOrder DEF Sweep
  <2>2. CASE ~run.undecided BY <1>10, <2>2 DEF Sweep, OrderInv
  <2> QED BY <2>1, <2>2
<1>11. ASSUME NEW k, AbortApply(k), remote' = remote PROVE OrderInv'
  BY <1>0, <1>2, <1>11, AbortOrder DEF AbortApply
<1>12. CASE CheckoutFails \/ PlanFails \/ PrepareFails
  BY <1>0, <1>11, <1>12, AbortOrder DEF CheckoutFails, PlanFails, PrepareFails
<1>13. CASE SavePendingFails
  BY <1>0, <1>4, <1>13, AbortOrder DEF SavePendingFails
<1>14. CASE SavePending
  <2>1. /\ st' = WithPending(st, run.new, run.stacks) /\ disk' = st'
        /\ UNCHANGED <<remote, head, run>>
    BY <1>14 DEF SavePending, SaveAndGoto
  <2> QED BY <1>4, <2>1, OrderFacts, GoOnOrder
<1>15. ASSUME NEW k, ApplyIncomplete(k), UNCHANGED <<remote, head>> PROVE OrderInv'
  BY <1>3, <1>15, ReturnUnsavedOrder, SaveAndReturnOrder DEF ApplyIncomplete
<1>16. ASSUME NEW k, FailAndRevert(k), UNCHANGED <<remote, head>> PROVE OrderInv'
  <2>1. /\ st' = WithOutcome(MarkFailed(st, run.new), "failed_apply") /\ disk' \in {st', disk}
        /\ run'.old = run.old /\ run'.new = run.new /\ run'.failed = run.new
    BY <1>0, <1>16 DEF FailAndRevert, Run
  <2> QED BY <1>0, <1>3, <1>16, <2>1, OrderFacts, GoOnOrder
<1>17. CASE TeardownFails \/ WatchUnhealthy \/ WatchFails \/ \E s \in Stacks : UpFails(s)
  BY <1>15, <1>16, <1>17 DEF TeardownFails, WatchUnhealthy, WatchFails, UpFails
<1>18. CASE PromoteHealthy
  <2> DEFINE next == Promoted(st, run.new, StacksAt(head))
  <2>1. CASE disk' = disk
    BY <1>18, <2>1, ReturnUnsavedOrder DEF PromoteHealthy, SaveAndReturn
  <2>2. CASE disk' = next
    <3>1. /\ next.lastHealthyCommit = run.new /\ next.lastCheckoutCommit = run.new
          /\ next.pendingCommit = None /\ next.lastFailedCommit = None
          /\ next.failedCommits = <<>>
      BY <1>0 DEF Promoted, ClearPending, State
    <3>2. ~IsKnownBad(next, run.new)
      BY <1>1, <3>1 DEF IsKnownBad, Remembered
    <3> HIDE DEF next
    <3>3. NotAfter(run.new, remote) BY <1>0, <1>1 DEF After
    <3>4. From(run.new, run.new, remote) BY <3>3 DEF From, NotAfter
    <3>5. After(None, run.new, remote) BY <1>0, <1>1, CommitOrder
    <3>6. OrderlyRecord(next, run.new, remote) BY <3>1, <3>2, <3>4, <3>5 DEF OrderlyRecord
    <3>7. head = run.new BY <1>18 DEF PromoteHealthy, WriteAheadInv
    <3>8. UNCHANGED <<remote, head>> /\ \E k : Return(k)
      BY <1>18 DEF PromoteHealthy, SaveAndReturn
    <3> QED BY <1>0, <1>1, <2>2, <3>4, <3>6, <3>7, <3>8, ReturnOrder
  <2> QED BY <1>18, <2>1, <2>2 DEF PromoteHealthy, SaveAndReturn
<1> QED BY <1>6, <1>7, <1>8, <1>9, <1>10, <1>12, <1>13, <1>14, <1>17, <1>18 DEF ApplyStep

\* doRevert goes back to the target and blames what came after it.
LEMMA RevertOrder ==
    ASSUME OnlyForward, TypeOK, OrderInv, RevertStep PROVE OrderInv'
<1>0. /\ Target \in CommitOrNone /\ remote \in Commits /\ From(Target, Target, remote)
      /\ st \in State /\ OrderlyRecord(st, Target, remote) /\ st.lastHealthyCommit = Target
      /\ After(run.failed, Target, remote) /\ run.failed \in CommitOrNone /\ run \in Run
  BY OrderFacts
<1>1. /\ OrderlyRecord(GivenUp(st, run.failed), Target, remote)
      /\ OrderlyRecord(Reverted(st, run.failed), Target, remote)
      /\ \A stacks : OrderlyRecord(Interrupted(st, run.failed, stacks), Target, remote)
      /\ OrderlyRecord([st EXCEPT !.lastCheckoutCommit = Target], Target, remote)
  BY <1>0, OrderlyUpdates
<1>2. CASE RevertNoTarget \/ RevertWatchUnhealthy \/ RevertSettle
  BY <1>1, <1>2, SaveAndReturnOrder DEF RevertNoTarget, RevertWatchUnhealthy, RevertSettle
<1>3. CASE RevertCheckout
  <2>1. /\ head' = Target /\ st' = [st EXCEPT !.lastCheckoutCommit = Target]
        /\ UNCHANGED <<remote, disk, run>>
    BY <1>0, <1>3 DEF RevertCheckout, RevertTarget
  <2> QED BY <1>1, <2>1, OrderFacts, GoOnOrder
<1>4. CASE RevertClear \/ RevertLoad \/ \E s \in Stacks : RevertUp(s)
  <2>1. /\ run'.old = run.old /\ run'.new = run.new /\ run'.failed = run.failed
        /\ UNCHANGED <<remote, head, disk, st>>
    BY <1>0, <1>4 DEF RevertClear, RevertLoad, RevertUp, Run
  <2> QED BY <2>1, OrderFacts, GoOnOrder
<1>5. CASE RevertWatchHealthy
  BY <1>5 DEF RevertWatchHealthy, OrderInv
<1>6. ASSUME NEW k, RevertInterrupted(k) \/ RevertFailed(k), UNCHANGED <<remote, head>>
      PROVE  OrderInv'
  BY <1>1, <1>6, SaveAndReturnOrder DEF RevertInterrupted, RevertFailed
<1>7. CASE \/ RevertCheckoutFails \/ RevertClearFails \/ RevertLoadFails \/ RevertWatchFails
           \/ \E s \in Stacks : RevertUpFails(s)
  BY <1>6, <1>7
  DEF RevertCheckoutFails, RevertClearFails, RevertLoadFails, RevertWatchFails, RevertUpFails
<1> QED BY <1>2, <1>3, <1>4, <1>5, <1>7 DEF RevertStep

LEMMA OrderInvariant == ASSUME OnlyForward PROVE Spec => []OrderInv
<1>1. Init => OrderInv
  <2> SUFFICES ASSUME Init PROVE OrderInv OBVIOUS
  <2>1. /\ remote = FirstCommit /\ head = FirstCommit /\ st = New /\ disk = New /\ run = NoRun
        /\ FirstCommit \in Commits
    BY ReconcileAssumption DEF Init
  <2>2. From(None, None, remote) /\ After(None, None, remote) BY DEF From, After
  <2>3. From(head, None, remote) BY <2>1 DEF From, NotAfter
  <2>4. OrderlyRecord(New, None, remote) BY <2>2 DEF OrderlyRecord, New, IsKnownBad
  <2>5. NoRun.old = None /\ NoRun.new = None /\ NoRun.failed = None /\ New.lastHealthyCommit = None
    BY DEF NoRun, New
  <2> QED BY <2>1, <2>2, <2>3, <2>4, <2>5 DEF OrderInv, Orderly
<1>2. TypeOK /\ CommitKnown /\ WriteAheadInv /\ OrderInv /\ [Next]_vars => OrderInv'
  <2> SUFFICES ASSUME TypeOK, CommitKnown, WriteAheadInv, OrderInv, [Next]_vars PROVE OrderInv'
    OBVIOUS
  <2>1. CASE UNCHANGED vars BY <2>1 DEF vars, OrderInv
  <2> QED BY <2>1, EnvironmentOrder, BeginOrder, NormalOrder, RecoveryOrder, ApplyOrder, RevertOrder
      DEF Next, CodeStep
<1> QED BY <1>1, <1>2, TypesAndCommits, WriteAheadInvariant, PTL DEF Spec

\* On a branch that only moves forward doRevert never has a target that the
\* record calls bad: in every mode, --force included, whatever fails and
\* whatever is superseded. A force-push that takes the branch back refutes it.
THEOREM TargetNotBad == ASSUME OnlyForward PROVE Spec => []RollbackTargetNotKnownBad
<1>1. TypeOK /\ OrderInv => RollbackTargetNotKnownBad
  BY DEF OrderInv, Orderly, OrderlyRecord, RollbackTargetNotKnownBad
<1> QED BY <1>1, OrderInvariant, TypeCorrect, PTL

-----------------------------------------------------------------------------
(***************************************************************************)
(* Without --force.                                                        *)
(*                                                                         *)
(* First the record: DEGRADED is never left with work pending, a commit    *)
(* known to be bad is never applied, and a revert is finished before       *)
(* anything is applied again. With --force the first does not hold (run    *)
(* DegradedPending), and the others are not meant to.                      *)
(*                                                                         *)
(* Then the refinement: the deployment implements Lifecycle. The argument  *)
(* compares the record on disk with the run's copy of it: they agree on    *)
(* the rollback target and on what is pending at every step, and on the    *)
(* failed commits until a failure could not be saved, after which the copy *)
(* knows of exactly one more, the commit being reverted.                   *)
(*                                                                         *)
(* Then Docker, in compose_file mode: every stack is in every cycle, so    *)
(* that a promotion finds all of them at the promoted commit and a revert  *)
(* all of them at the target.                                              *)
(*                                                                         *)
(* Last Docker in compose_dir mode, where a cycle touches some stacks: the *)
(* stacks that run a commit never promoted are followed through the        *)
(* records, the steps of a run and the commits that supersede each other.  *)
(***************************************************************************)

\* Only poll, webhook and plain syncs.
Unforced == \A mode \in Modes : ~mode.force

-----------------------------------------------------------------------------
(* The part of the record these properties are about. *)

Book(s) == <<s.lastFailedCommit, s.failedCommits, s.pendingCommit, s.pendingRevert>>

\* A pending commit that is known to be bad is one being reverted.
Consistent(s) == IsKnownBad(s, s.pendingCommit) => RevertInProgress(s)

Ledger(s) == Consistent(s) /\ (Degraded(s) => ~Pending(s))

\* Records that agree on the book agree on every question about it.
LEMMA BookDecides ==
    ASSUME NEW s \in State, NEW t \in State, Book(s) = Book(t)
    PROVE  /\ \A c : IsKnownBad(s, c) <=> IsKnownBad(t, c)
           /\ RevertInProgress(s) <=> RevertInProgress(t)
           /\ Pending(s) <=> Pending(t)
           /\ Consistent(s) <=> Consistent(t)
           /\ s.pendingCommit = t.pendingCommit
<1>1. /\ s.lastFailedCommit = t.lastFailedCommit
      /\ s.failedCommits = t.failedCommits
      /\ s.pendingCommit = t.pendingCommit
      /\ s.pendingRevert = t.pendingRevert
  BY DEF Book
<1>2. \A c : IsKnownBad(s, c) <=> IsKnownBad(t, c)
  BY <1>1 DEF IsKnownBad, Remembered
<1>3. (RevertInProgress(s) <=> RevertInProgress(t)) /\ (Pending(s) <=> Pending(t))
  BY <1>1 DEF RevertInProgress, Pending
<1> QED BY <1>1, <1>2, <1>3 DEF Consistent

\* The updates that leave the book alone.
LEMMA BookKept ==
    ASSUME NEW s \in State
    PROVE  /\ \A r \in Results : /\ Book(WithOutcome(s, r)) = Book(s)
                                 /\ WithOutcome(s, r).lastResult = r
           /\ \A c : /\ Book(WithCheckout(s, c)) = Book(s)
                     /\ WithCheckout(s, c).lastResult = "success"
           /\ Book(WithAttempt(s)) = Book(s) /\ WithAttempt(s).lastResult = s.lastResult
           /\ \A n : /\ Book([s EXCEPT !.preflightBlocks = n]) = Book(s)
                     /\ [s EXCEPT !.preflightBlocks = n].lastResult = s.lastResult
BY DEF Book, WithOutcome, WithCheckout, WithAttempt, State

-----------------------------------------------------------------------------
(* The inductive invariant. *)

\* Steps that go forward: nothing is being undone.
Forward == {"fetch", "gate", "advance", "record"} \cup ApplySteps

\* The run's copy and the file agree on the failed commits.
SameFailures ==
    /\ st.lastFailedCommit = disk.lastFailedCommit
    /\ st.failedCommits = disk.failedCommits

DaemonInv ==
    /\ Ledger(disk) /\ Ledger(st)
    /\ pc # "idle" => ~run.force /\ ~Degraded(disk) /\ ~Degraded(st)
    /\ pc \in Forward \cup {"recover", "resolve"} => SameFailures
    /\ pc \in {"gate", "recover", "resolve"} \cup ApplySteps => ~IsKnownBad(st, run.new)
    /\ pc \in Forward => ~RevertInProgress(disk) /\ ~RevertInProgress(st)
    /\ pc \in {"up", "watch", "teardown"} => st.pendingCommit = run.new

\* With the failed commits the same, so is what is known to be bad.
LEMMA SameFailuresDecide ==
    ASSUME TypeOK, SameFailures
    PROVE  \A c : IsKnownBad(st, c) <=> IsKnownBad(disk, c)
BY DEF SameFailures, IsKnownBad, Remembered

\* Whatever is on disk when a run returns, a sound ledger is all that is needed.
LEMMA ReturnDaemon ==
    ASSUME NEW k, Return(k), Ledger(disk)'
    PROVE  DaemonInv'
BY DEF Return, DaemonInv, Forward, ApplySteps, Ledger, Consistent, IsKnownBad, Remembered,
       RevertInProgress, Pending, Degraded

\* ... also after a last save.
LEMMA SaveAndReturnDaemon ==
    ASSUME DaemonInv, NEW k, NEW next, SaveAndReturn(next, k), Ledger(next)
    PROVE  DaemonInv'
<1>1. CASE disk' = next /\ Return(k)
  <2>1. Ledger(disk)' BY <1>1 DEF Ledger, Consistent, IsKnownBad, Remembered,
                                  RevertInProgress, Pending, Degraded
  <2> QED BY <1>1, <2>1, ReturnDaemon
<1>2. CASE disk' = disk /\ Return(k + 1)
  <2>1. Ledger(disk)' BY <1>2 DEF DaemonInv, Ledger, Consistent, IsKnownBad, Remembered,
                                  RevertInProgress, Pending, Degraded
  <2> QED BY <1>2, <2>1, ReturnDaemon
<1> QED BY <1>1, <1>2 DEF SaveAndReturn

\* An unchanged file has the same ledger.
LEMMA ReturnUnsavedDaemon ==
    ASSUME DaemonInv, NEW k, disk' = disk, Return(k)
    PROVE  DaemonInv'
<1>1. Ledger(disk)' BY DEF DaemonInv, Ledger, Consistent, IsKnownBad, Remembered,
                           RevertInProgress, Pending, Degraded
<1> QED BY <1>1, ReturnDaemon

\* Updates that keep the book and do not give up keep the ledger sound.
LEMMA LedgerKept ==
    ASSUME NEW s \in State, NEW t \in State, Book(t) = Book(s), Ledger(s), ~Degraded(t)
    PROVE  Ledger(t)
BY BookDecides DEF Ledger

\* ... giving up clears it, and so do a promotion and a finished revert.
LEMMA LedgerCleared ==
    ASSUME NEW s \in State, NEW c \in CommitOrNone, NEW stacks \in SUBSET Stacks
    PROVE  /\ Ledger(GivenUp(s, c))
           /\ Ledger(Promoted(s, c, stacks))
           /\ Ledger(Reverted(s, c))
<1>1. ASSUME NEW t, t.pendingCommit = None, ~t.pendingRevert PROVE Ledger(t)
  BY <1>1 DEF Ledger, Consistent, IsKnownBad, Pending
<1>2. ASSUME NEW t \in State
      PROVE  ClearPending(t).pendingCommit = None /\ ~ClearPending(t).pendingRevert
             /\ ClearPending(t) \in State
  BY <1>2, UpdateTypes DEF ClearPending, State
<1>3. Ledger(GivenUp(s, c))
  <2> DEFINE failed == IF c = None THEN s ELSE MarkFailed(s, c)
  <2>1. failed \in State BY MarkFailedType
  <2>2. GivenUp(s, c) = [ClearPending(failed) EXCEPT !.lastResult = "degraded"]
    BY DEF GivenUp
  <2> HIDE DEF failed
  <2>3. GivenUp(s, c).pendingCommit = None /\ ~GivenUp(s, c).pendingRevert
    BY <1>2, <2>1, <2>2 DEF State
  <2> QED BY <1>1, <2>3
<1>4. Ledger(Promoted(s, c, stacks))
  <2>1. Promoted(s, c, stacks).pendingCommit = None /\ ~Promoted(s, c, stacks).pendingRevert
    BY <1>2 DEF Promoted, State
  <2> QED BY <1>1, <2>1
<1>5. Ledger(Reverted(s, c))
  <2>1. Reverted(s, c).pendingCommit = None /\ ~Reverted(s, c).pendingRevert
    BY <1>2 DEF Reverted, State
  <2> QED BY <1>1, <2>1
<1> QED BY <1>3, <1>4, <1>5

\* An interrupted revert is pending, and not given up.
LEMMA LedgerInterrupted ==
    ASSUME NEW s \in State, NEW c \in CommitOrNone, NEW stacks \in SUBSET Stacks
    PROVE  Ledger(Interrupted(s, c, stacks))
<1> DEFINE failed == IF c = None THEN s ELSE MarkFailed(s, c)
<1>1. failed \in State BY MarkFailedType
<1>2. Interrupted(s, c, stacks) =
        [failed EXCEPT !.pendingRevert = TRUE,
                       !.pendingCommit = c,
                       !.pendingStacks = IF stacks # {} THEN stacks ELSE @,
                       !.pendingSince  = TRUE,
                       !.lastResult    = "failed_apply"]
  BY DEF Interrupted
<1> HIDE DEF failed
<1>3. /\ Interrupted(s, c, stacks).pendingRevert
      /\ Interrupted(s, c, stacks).lastResult = "failed_apply"
  BY <1>1, <1>2 DEF State
<1> QED BY <1>3 DEF Ledger, Consistent, RevertInProgress, Degraded

\* Marking the commit being applied keeps the ledger sound: if it is the
\* pending one it is being reverted from now on, and if it superseded the
\* pending one, that stays as good as it was.
LEMMA LedgerMarked ==
    ASSUME NEW s \in State, NEW c \in Commits, Ledger(s), ~RevertInProgress(s), ~Degraded(s)
    PROVE  Ledger(WithOutcome(MarkFailed(s, c), "failed_apply"))
<1> DEFINE m == MarkFailed(s, c)
<1>1. m \in State BY MarkFailedType DEF CommitOrNone
<1>2. Consistent(m)
  <2> SUFFICES ASSUME IsKnownBad(m, m.pendingCommit) PROVE RevertInProgress(m)
    BY DEF Consistent
  <2>1. m.pendingCommit = c \/ IsKnownBad(s, s.pendingCommit)
    BY MarkFailedBook
  <2>2. ~IsKnownBad(s, s.pendingCommit) BY DEF Ledger, Consistent
  <2>3. m.pendingCommit = m.lastFailedCommit /\ m.pendingCommit # None
    BY <2>1, <2>2, MarkFailedBook, StateAssumption
  <2> QED BY <2>3 DEF RevertInProgress
<1> HIDE DEF m
<1>3. /\ WithOutcome(m, "failed_apply") \in State
      /\ Book(WithOutcome(m, "failed_apply")) = Book(m)
      /\ WithOutcome(m, "failed_apply").lastResult = "failed_apply"
  BY <1>1, UpdateTypes, BookKept DEF Results
<1>4. Consistent(WithOutcome(m, "failed_apply"))
  BY <1>1, <1>2, <1>3, BookDecides
<1> QED BY <1>3, <1>4 DEF Ledger, Degraded, m

-----------------------------------------------------------------------------
(* The invariant is inductive. *)

\* A step that only moves on within applyAndWatch keeps the invariant.
LEMMA MoveOnDaemon ==
    ASSUME DaemonInv, UNCHANGED <<disk, st>>, run'.new = run.new, run'.force = run.force,
           pc \in Forward, pc' \in Forward,
           pc' \in {"gate"} \cup ApplySteps => pc \in {"gate"} \cup ApplySteps,
           pc' \in {"up", "watch", "teardown"} => pc \in {"up", "watch", "teardown"}
    PROVE  DaemonInv'
BY DEF DaemonInv, Forward, ApplySteps, SameFailures, Ledger, Consistent, IsKnownBad, Remembered,
       RevertInProgress, Pending, Degraded

\* The environment keeps the invariant.
LEMMA EnvironmentDaemon ==
    ASSUME TypeOK, DaemonInv, Environment
    PROVE  DaemonInv'
<1>1. CASE Push \/ Shutdown
  BY <1>1 DEF Push, Shutdown, DaemonInv, Forward, ApplySteps, SameFailures, Ledger, Consistent,
              IsKnownBad, Remembered, RevertInProgress, Pending, Degraded
<1>2. CASE Pause \/ Resume
  <2>1. /\ disk \in State /\ disk' \in State /\ st' = disk' /\ pc' = "idle"
        /\ Book(disk') = Book(disk) /\ disk'.lastResult = disk.lastResult
    BY <1>2 DEF TypeOK, Pause, Resume, State, Book
  <2>2. Ledger(disk')
    BY <2>1, BookDecides DEF DaemonInv, Ledger, Degraded
  <2> QED BY <2>1, <2>2 DEF DaemonInv, Forward, ApplySteps, Ledger, Consistent, IsKnownBad,
             Remembered, RevertInProgress, Pending, Degraded
<1>3. CASE Crash
  BY <1>3, ReturnUnsavedDaemon DEF Crash
<1> QED BY <1>1, <1>2, <1>3 DEF Environment

\* Starting a run keeps the invariant: DEGRADED lets nobody in, and with
\* nothing pending there is no revert in progress.
LEMMA BeginDaemon ==
    ASSUME Unforced, TypeOK, DaemonInv, NEW mode \in Modes, Begin(mode)
    PROVE  DaemonInv'
<1>1. ~mode.force BY DEF Unforced
<1>2. ~run'.force BY <1>1 DEF Begin, NoRun
<1>3. ~Degraded(disk) BY <1>1 DEF Begin
<1>4. run'.new = None BY DEF Begin, NoRun
<1>5. /\ st' = disk /\ disk' = disk
      /\ pc' = IF Pending(disk) THEN "recover" ELSE "fetch"
  BY DEF Begin, Goto
<1>6. ~Pending(disk) => ~RevertInProgress(disk) BY DEF Pending, RevertInProgress
<1> QED BY <1>2, <1>3, <1>4, <1>5, <1>6
        DEF DaemonInv, Forward, ApplySteps, SameFailures, Ledger, Consistent, IsKnownBad,
            Remembered, RevertInProgress, Pending, Degraded

\* An abort before the first compose up keeps the invariant.
LEMMA AbortDaemon ==
    ASSUME TypeOK, DaemonInv, NEW k, NEW s, NEW left, AbortBeforeUp(s, left, k),
           Ledger(left), Ledger(WithOutcome(s, "failed_apply"))
    PROVE  DaemonInv'
<1> PICK n : /\ \/ disk' = left
                \/ disk' = WithOutcome(s, "failed_apply")
             /\ Return(n)
  BY DEF AbortBeforeUp
<1>1. Ledger(disk') OBVIOUS
<1>2. Ledger(disk)' BY <1>1 DEF Ledger, Consistent, IsKnownBad, Remembered, RevertInProgress,
                                Pending, Degraded
<1> QED BY <1>2, ReturnDaemon

\* The record of a run that ends in an outcome of no consequence.
LEMMA OutcomeLedger ==
    ASSUME TypeOK, DaemonInv, NEW r \in Results, r # "degraded"
    PROVE  Ledger(WithOutcome(st, r))
<1>1. st \in State BY DEF TypeOK
<1>2. WithOutcome(st, r) \in State BY <1>1, UpdateTypes
<1>3. Book(WithOutcome(st, r)) = Book(st) /\ WithOutcome(st, r).lastResult = r
  BY <1>1, BookKept
<1> QED BY <1>1, <1>2, <1>3, LedgerKept DEF DaemonInv, Degraded

\* runNormal keeps the invariant.
LEMMA NormalDaemon ==
    ASSUME TypeOK, DaemonInv, NormalStep
    PROVE  DaemonInv'
<1>0. st \in State /\ disk \in State /\ run \in Run /\ Ledger(disk) /\ Ledger(st)
  BY DEF TypeOK, DaemonInv
<1>1. CASE FetchFails
  <2>1. Ledger(WithOutcome(st, "failed_git")) BY OutcomeLedger DEF Results
  <2> QED BY <1>1, <2>1, SaveAndReturnDaemon, ReturnUnsavedDaemon DEF FetchFails
<1>2. CASE NothingToDo \/ SkipOutsideWindow \/ DryRunReports
  BY <1>2, ReturnUnsavedDaemon DEF NothingToDo, SkipOutsideWindow, DryRunReports
<1>3. CASE SkipKnownBad
  <2>1. Ledger(WithOutcome(st, "skipped_known_bad")) BY OutcomeLedger DEF Results
  <2> QED BY <1>3, <2>1, SaveAndReturnDaemon DEF SkipKnownBad
<1>4. CASE ReapplyDrifted \/ SkipIrrelevant \/ ConsiderChange
  <2>1. /\ run'.new = remote /\ run'.force = run.force
        /\ pc' \in {"gate", "advance"} /\ pc = "fetch" /\ UNCHANGED <<disk, st>>
    BY <1>0, <1>4 DEF ReapplyDrifted, SkipIrrelevant, ConsiderChange, Eligible, Fetched, Goto, Run
  <2>2. ~IsKnownBad(st, remote)
    BY <1>4, <2>1 DEF ReapplyDrifted, SkipIrrelevant, ConsiderChange, Eligible, DaemonInv
  <2> QED BY <2>1, <2>2 DEF DaemonInv, Forward, ApplySteps, SameFailures, Ledger, Consistent,
             IsKnownBad, Remembered, RevertInProgress, Pending, Degraded
<1>5. CASE AdvanceCheckout
  BY <1>5, MoveOnDaemon DEF AdvanceCheckout, Goto, Forward, ApplySteps
<1>6. CASE AdvanceFails
  <2>1. Ledger(WithOutcome(st, "failed_apply")) BY OutcomeLedger DEF Results
  <2> QED BY <1>0, <1>6, <2>1, AbortDaemon DEF AdvanceFails
<1>7. CASE RecordCheckout
  <2>1. /\ Book(WithCheckout(st, run.new)) = Book(st)
        /\ WithCheckout(st, run.new).lastResult = "success"
    BY <1>0, BookKept
  <2>2. WithCheckout(st, run.new) \in State BY <1>0, UpdateTypes DEF Run
  <2>3. Ledger(WithCheckout(st, run.new)) BY <1>0, <2>1, <2>2, LedgerKept DEF Degraded
  <2> QED BY <1>7, <2>3, SaveAndReturnDaemon DEF RecordCheckout
<1>8. CASE GateFails
  <2>1. Ledger(WithOutcome(st, "failed_preflight")) BY OutcomeLedger DEF Results
  <2> QED BY <1>8, <2>1, SaveAndReturnDaemon, ReturnUnsavedDaemon DEF GateFails
<1>9. CASE GatePasses
  <2> DEFINE next == [st EXCEPT !.preflightBlocks = 0]
  <2>1. next \in State BY <1>0 DEF State
  <2>2. Book(next) = Book(st) /\ next.lastResult = st.lastResult BY <1>0, BookKept
  <2>3. /\ disk' \in {disk, next} /\ st' \in {st, next}
        /\ pc = "gate" /\ pc' = "checkout"
    BY <1>9 DEF GatePasses, SaveAndGoto, Goto
  <2>4. run'.new = run.new /\ run'.force = run.force BY <1>0, <1>9 DEF GatePasses, Run
  <2> HIDE DEF next
  <2>5. ~Degraded(disk) /\ ~Degraded(st) /\ ~run.force BY <2>3 DEF DaemonInv
  <2>6. ~Degraded(next) BY <2>2, <2>5 DEF Degraded
  <2>7. Ledger(next) BY <1>0, <2>1, <2>2, <2>6, LedgerKept
  <2>8. /\ \A c : IsKnownBad(next, c) <=> IsKnownBad(st, c)
        /\ RevertInProgress(next) <=> RevertInProgress(st)
    BY <1>0, <2>1, <2>2, BookDecides
  <2>9. /\ next.lastFailedCommit = st.lastFailedCommit
        /\ next.failedCommits = st.failedCommits
    BY <2>2 DEF Book
  <2>10. SameFailures /\ ~IsKnownBad(st, run.new) /\ ~RevertInProgress(disk) /\ ~RevertInProgress(st)
    BY <2>3 DEF DaemonInv, Forward
  <2>11. Ledger(disk') /\ Ledger(st') /\ ~Degraded(disk') /\ ~Degraded(st')
    BY <1>0, <2>3, <2>5, <2>6, <2>7
  <2>12. SameFailures' BY <2>3, <2>9, <2>10 DEF SameFailures
  <2>13. ~IsKnownBad(st', run'.new) /\ ~RevertInProgress(disk') /\ ~RevertInProgress(st')
    BY <2>3, <2>4, <2>8, <2>10
  <2> QED BY <2>3, <2>4, <2>5, <2>11, <2>12, <2>13
          DEF DaemonInv, Ledger, Consistent, IsKnownBad, Remembered, RevertInProgress, Pending,
              Degraded
<1>10. CASE GateBlocks
  <2> DEFINE before == [st EXCEPT !.preflightBlocks = BlockedSoFar]
             next   == [st EXCEPT !.preflightBlocks = BlockedSoFar + 1]
  <2>0. BlockedSoFar \in Nat BY <1>0 DEF State, BlockedSoFar
  <2>1. before \in State /\ next \in State
    <3>1. \A n \in Nat : [st EXCEPT !.preflightBlocks = n] \in State BY <1>0 DEF State
    <3>2. BlockedSoFar + 1 \in Nat BY <2>0
    <3> QED BY <2>0, <3>1, <3>2
  <2>2. /\ Book(next) = Book(st) /\ next.lastResult = st.lastResult
        /\ Book(before) = Book(st) /\ before.lastResult = st.lastResult
    BY <1>0, BookKept
  <2>3. /\ disk' \in {disk, next} /\ st' \in {before, next}
        /\ pc = "gate" /\ pc' = "revert"
    BY <1>10 DEF GateBlocks, SaveAndGoto, Goto
  <2>4. run'.force = run.force BY <1>0, <1>10 DEF GateBlocks, Run
  <2> HIDE DEF before, next
  <2>5. ~Degraded(disk) /\ ~Degraded(st) /\ ~run.force BY <2>3 DEF DaemonInv
  <2>6. ~Degraded(next) /\ ~Degraded(before) BY <2>2, <2>5 DEF Degraded
  <2>7. Ledger(next) /\ Ledger(before) BY <1>0, <2>1, <2>2, <2>6, LedgerKept
  <2>8. Ledger(disk') /\ Ledger(st') /\ ~Degraded(disk') /\ ~Degraded(st')
    BY <1>0, <2>3, <2>5, <2>6, <2>7
  <2> QED BY <2>3, <2>4, <2>5, <2>8
          DEF DaemonInv, Forward, ApplySteps, Ledger, Consistent, IsKnownBad, Remembered,
              RevertInProgress, Pending, Degraded
<1>11. CASE GateGivesUp
  <2>1. Ledger(GivenUp(st, None)) BY <1>0, LedgerCleared DEF CommitOrNone
  <2> QED BY <1>11, <2>1, SaveAndReturnDaemon DEF GateGivesUp
<1> QED BY <1>1, <1>2, <1>3, <1>4, <1>5, <1>6, <1>7, <1>8, <1>9, <1>10, <1>11 DEF NormalStep

\* recoverFromCrash keeps the invariant.
LEMMA RecoveryDaemon ==
    ASSUME TypeOK, CommitKnown, DaemonInv, RecoveryStep
    PROVE  DaemonInv'
<1>0. /\ st \in State /\ disk \in State /\ run \in Run /\ Ledger(disk) /\ Ledger(st)
      /\ st.pendingCommit \in CommitOrNone
  BY DEF TypeOK, DaemonInv, State
<1>a. pc \in {"recover", "resolve"}
  BY DEF RecoveryStep, RecoverFetch, RecoverGivesUp, RecoverFails, RecoverResumesRevert,
         RecoverUnhealthy, RecoverReapplies
<1>b. ~Degraded(disk) /\ ~Degraded(st) /\ ~run.force /\ SameFailures
  BY <1>a DEF DaemonInv
<1> DEFINE next == WithAttempt(st)
<1>c. next \in State /\ Book(next) = Book(st) /\ next.lastResult = st.lastResult
  BY <1>0, UpdateTypes, BookKept
<1> HIDE DEF next
<1>d. ~Degraded(next) BY <1>b, <1>c DEF Degraded
<1>e. Ledger(next) BY <1>0, <1>c, <1>d, LedgerKept
<1>1. CASE RecoverFetch
  <2>1. pc' = "resolve" /\ disk' = disk /\ st' = st
    BY <1>1, <1>b DEF RecoverFetch, Goto
  <2>2. run'.force = run.force
    BY <1>0, <1>1 DEF RecoverFetch, Run
  <2>3. ~IsKnownBad(st, run'.new)
    <3>1. CASE run' = run
      <4>1. pc = "recover" BY <1>1 DEF RecoverFetch
      <4> QED BY <3>1, <4>1 DEF DaemonInv
    <3>2. CASE run' = [run EXCEPT !.new = Superseding(st)]
      <4>1. run'.new = Superseding(st) BY <1>0, <3>2 DEF Run
      <4> QED BY <4>1, <1>b DEF Superseding, IsKnownBad
    <3> QED BY <1>1, <1>b, <3>1, <3>2 DEF RecoverFetch
  <2> QED BY <1>0, <1>b, <2>1, <2>2, <2>3
          DEF DaemonInv, Forward, ApplySteps, SameFailures, Ledger, Consistent, IsKnownBad,
              Remembered, RevertInProgress, Pending, Degraded
<1>2. CASE RecoverGivesUp
  <2>1. Ledger(GivenUp(st, st.pendingCommit)) BY <1>0, LedgerCleared
  <2> QED BY <1>2, <2>1, SaveAndReturnDaemon DEF RecoverGivesUp
<1>3. CASE RecoverFails
  <2>1. PICK k : Return(k) /\ (disk' = disk \/ disk' = next)
    BY <1>3 DEF RecoverFails, next
  <2>2. Ledger(disk)' BY <1>0, <1>e, <2>1 DEF Ledger, Consistent, IsKnownBad, Remembered,
                                             RevertInProgress, Pending, Degraded
  <2> QED BY <2>1, <2>2, ReturnDaemon
<1>4. CASE RecoverResumesRevert \/ RecoverUnhealthy
  <2>1. pc' = "revert" /\ disk' = next /\ st' = next
    BY <1>4 DEF RecoverResumesRevert, RecoverUnhealthy, RevertPending, SaveAndGoto, Goto, next
  <2>2. run'.force = run.force
    BY <1>0, <1>4 DEF RecoverResumesRevert, RecoverUnhealthy, RevertPending, Run
  <2> QED BY <1>b, <1>d, <1>e, <2>1, <2>2
          DEF DaemonInv, Forward, ApplySteps, Ledger, Consistent, IsKnownBad, Remembered,
              RevertInProgress, Pending, Degraded
<1>5. CASE RecoverReapplies
  <2>1. pc = "resolve" /\ pc' = "checkout" /\ disk' = next /\ st' = next
    BY <1>5 DEF RecoverReapplies, SaveAndGoto, Goto, next
  <2>2. run'.force = run.force /\ run'.new \in {run.new, st.pendingCommit}
    BY <1>0, <1>5 DEF RecoverReapplies, Run
  <2>3. ~RevertInProgress(st) BY <1>5 DEF RecoverReapplies
  <2>4. ~IsKnownBad(st, st.pendingCommit) BY <1>0, <2>3 DEF Ledger, Consistent
  <2>5. ~IsKnownBad(st, run.new) BY <2>1 DEF DaemonInv
  <2>6. ~IsKnownBad(st, run'.new) BY <2>2, <2>4, <2>5
  <2>7. ~IsKnownBad(next, run'.new) /\ ~RevertInProgress(next)
    BY <1>0, <1>c, <2>3, <2>6, BookDecides
  <2> QED BY <1>b, <1>d, <1>e, <2>1, <2>2, <2>7
          DEF DaemonInv, Forward, ApplySteps, SameFailures, Ledger, Consistent, IsKnownBad,
              Remembered, RevertInProgress, Pending, Degraded
<1> QED BY <1>1, <1>2, <1>3, <1>4, <1>5 DEF RecoveryStep

\* applyAndWatch keeps the invariant.
LEMMA ApplyDaemon ==
    ASSUME TypeOK, CommitKnown, DaemonInv, ApplyStep
    PROVE  DaemonInv'
<1>0. st \in State /\ disk \in State /\ run \in Run /\ Ledger(disk) /\ Ledger(st)
  BY DEF TypeOK, DaemonInv
<1>a. pc \in ApplySteps
  BY DEF ApplyStep, Checkout, CheckoutFails, Plan, PlanFails, Sweep, TeardownFails, Prepare,
         PrepareFails, SavePending, SavePendingFails, Up, UpFails, WatchHealthy, WatchUnhealthy,
         WatchFails, Teardown, PromoteHealthy, ApplySteps
<1>b. /\ ~Degraded(disk) /\ ~Degraded(st) /\ ~run.force /\ SameFailures
      /\ ~IsKnownBad(st, run.new) /\ ~RevertInProgress(disk) /\ ~RevertInProgress(st)
  BY <1>a DEF DaemonInv, Forward, ApplySteps
<1>c. run.new \in Commits BY <1>a DEF CommitKnown
<1>d. Ledger(WithOutcome(st, "failed_apply")) BY OutcomeLedger DEF Results
<1>e. Ledger(WithOutcome(MarkFailed(st, run.new), "failed_apply"))
  BY <1>0, <1>b, <1>c, LedgerMarked
<1>f. ASSUME NEW k, AbortApply(k) PROVE DaemonInv'
  BY <1>0, <1>d, <1>e, <1>f, AbortDaemon DEF AbortApply
<1>g. ASSUME NEW k, ApplyIncomplete(k) PROVE DaemonInv'
  BY <1>d, <1>g, SaveAndReturnDaemon, ReturnUnsavedDaemon DEF ApplyIncomplete
<1>h. ASSUME NEW k, FailAndRevert(k) PROVE DaemonInv'
  <2> DEFINE next == WithOutcome(MarkFailed(st, run.new), "failed_apply")
  <2>1. pc' = "revert" /\ st' = next /\ disk' \in {next, disk}
    BY <1>h DEF FailAndRevert, Goto
  <2>2. run'.force = run.force BY <1>0, <1>h DEF FailAndRevert, Run
  <2>3. next.lastResult = "failed_apply"
    BY <1>0, <1>c, MarkFailedType, BookKept DEF Results, CommitOrNone
  <2>4. Ledger(next) BY <1>e
  <2> HIDE DEF next
  <2>5. Ledger(st') /\ Ledger(disk') /\ ~Degraded(st') /\ ~Degraded(disk')
    BY <1>0, <1>b, <2>1, <2>3, <2>4 DEF Degraded
  <2> QED BY <1>b, <2>1, <2>2, <2>5
          DEF DaemonInv, Forward, ApplySteps, Ledger, Consistent, IsKnownBad, Remembered,
              RevertInProgress, Pending, Degraded
<1> DEFINE next == WithPending(st, run.new, run.stacks)
<1>i. /\ next \in State
      /\ next.lastFailedCommit = st.lastFailedCommit
      /\ next.failedCommits = st.failedCommits
      /\ next.pendingCommit = run.new
      /\ next.pendingRevert = st.pendingRevert
      /\ next.lastResult = st.lastResult
  <2>1. next \in State BY <1>0, UpdateTypes DEF Run
  <2> QED BY <1>0, <2>1 DEF WithPending, State
<1> HIDE DEF next
<1>j. ~IsKnownBad(next, run.new) /\ ~RevertInProgress(next) /\ ~Degraded(next) /\ Ledger(next)
  <2>1. ~IsKnownBad(next, run.new) BY <1>b, <1>i DEF IsKnownBad, Remembered
  <2>2. ~RevertInProgress(next)
    BY <1>b, <1>c, <1>i, StateAssumption DEF RevertInProgress, IsKnownBad
  <2>3. ~Degraded(next) BY <1>b, <1>i DEF Degraded
  <2> QED BY <1>i, <2>1, <2>2, <2>3 DEF Ledger, Consistent
<1>1. CASE Checkout \/ Prepare \/ WatchHealthy \/ Teardown
  BY <1>1, MoveOnDaemon DEF Checkout, Prepare, WatchHealthy, Teardown, Goto, Forward, ApplySteps
<1>2. CASE Plan
  <2>1. run'.new = run.new /\ run'.force = run.force BY <1>0, <1>2 DEF Plan, Run
  <2>2. pc' \in {"sweep", "prepare"} /\ UNCHANGED <<disk, st>> BY <1>2 DEF Plan, Goto
  <2> QED BY <1>a, <2>1, <2>2, MoveOnDaemon DEF Forward, ApplySteps
<1>3. CASE Sweep
  <2>1. CASE run.undecided
    BY <1>3, <2>1, ReturnUnsavedDaemon DEF Sweep
  <2>2. CASE ~run.undecided
    BY <1>3, <2>2, MoveOnDaemon DEF Sweep, Goto, Forward, ApplySteps
  <2> QED BY <2>1, <2>2
<1>4. CASE SavePending
  <2>1. pc' = "up" /\ disk' = next /\ st' = next /\ run' = run
    BY <1>4 DEF SavePending, SaveAndGoto, Goto, next
  <2> QED BY <1>b, <1>i, <1>j, <2>1
          DEF DaemonInv, Forward, ApplySteps, SameFailures, Ledger, Consistent, IsKnownBad,
              Remembered, RevertInProgress, Pending, Degraded
<1>5. CASE SavePendingFails
  BY <1>0, <1>5, <1>d, <1>j, AbortDaemon DEF SavePendingFails, next
<1>6. ASSUME NEW s \in Stacks, Up(s) PROVE DaemonInv'
  <2>1. run'.new = run.new /\ run'.force = run.force BY <1>0, <1>6 DEF Up, Run
  <2>2. pc = "up" /\ pc' \in {"up", "watch"} /\ UNCHANGED <<disk, st>> BY <1>6 DEF Up, Goto
  <2> QED BY <2>1, <2>2, MoveOnDaemon DEF Forward, ApplySteps
<1>7. CASE \/ WatchUnhealthy \/ WatchFails \/ TeardownFails
           \/ \E s \in Stacks : UpFails(s)
  BY <1>7, <1>g, <1>h DEF WatchUnhealthy, WatchFails, TeardownFails, UpFails
<1>8. CASE PlanFails \/ PrepareFails
  BY <1>8, <1>f DEF PlanFails, PrepareFails
<1>9. CASE CheckoutFails
  BY <1>0, <1>9, <1>d, AbortDaemon DEF CheckoutFails
<1>10. CASE PromoteHealthy
  <2>1. StacksAt(head) \in SUBSET Stacks BY DEF StacksAt
  <2>2. Ledger(Promoted(st, run.new, StacksAt(head)))
    BY <1>0, <1>c, <2>1, LedgerCleared DEF CommitOrNone
  <2> QED BY <1>10, <2>2, SaveAndReturnDaemon DEF PromoteHealthy
<1> QED BY <1>1, <1>2, <1>3, <1>4, <1>5, <1>6, <1>7, <1>8, <1>9, <1>10 DEF ApplyStep

\* doRevert keeps the invariant.
LEMMA RevertDaemon ==
    ASSUME TypeOK, DaemonInv, RevertStep
    PROVE  DaemonInv'
<1>0. /\ st \in State /\ disk \in State /\ run \in Run /\ Ledger(disk) /\ Ledger(st)
      /\ run.failed \in CommitOrNone /\ run.stacks \in SUBSET Stacks
  BY DEF TypeOK, DaemonInv, Run
<1>a. pc \notin {"idle", "recover", "resolve"} \cup Forward
  BY DEF RevertStep, RevertNoTarget, RevertCheckout, RevertCheckoutFails, RevertClear,
         RevertClearFails, RevertLoad, RevertLoadFails, RevertUp, RevertUpFails,
         RevertWatchHealthy, RevertWatchUnhealthy, RevertWatchFails, RevertSettle,
         Forward, ApplySteps
<1>b. ~Degraded(disk) /\ ~Degraded(st) /\ ~run.force BY <1>a DEF DaemonInv
<1>c. /\ Ledger(GivenUp(st, run.failed)) /\ Ledger(Reverted(st, run.failed))
      /\ Ledger(Interrupted(st, run.failed, run.stacks))
  BY <1>0, LedgerCleared, LedgerInterrupted
<1>d. ASSUME NEW k, RevertFailed(k) \/ RevertInterrupted(k) PROVE DaemonInv'
  BY <1>c, <1>d, SaveAndReturnDaemon DEF RevertFailed, RevertInterrupted
<1>e. ASSUME pc' \in {"clear", "load", "reup", "rewatch", "settle"}, disk' = disk, Ledger(st'),
             ~Degraded(st'), run'.force = run.force
      PROVE  DaemonInv'
  BY <1>0, <1>b, <1>e DEF DaemonInv, Forward, ApplySteps, Ledger, Consistent, IsKnownBad,
     Remembered, RevertInProgress, Pending, Degraded
<1>1. CASE RevertNoTarget \/ RevertWatchUnhealthy \/ RevertSettle
  BY <1>1, <1>c, SaveAndReturnDaemon DEF RevertNoTarget, RevertWatchUnhealthy, RevertSettle
<1>2. CASE RevertCheckout
  <2>1. st' \in State /\ Book(st') = Book(st) /\ st'.lastResult = st.lastResult
    BY <1>0, <1>2 DEF RevertCheckout, RevertTarget, State, Book
  <2>2. ~Degraded(st') BY <1>b, <2>1 DEF Degraded
  <2>3. Ledger(st') BY <1>0, <2>1, <2>2, LedgerKept
  <2> QED BY <1>2, <1>e, <2>2, <2>3 DEF RevertCheckout, Goto
<1>3. CASE \/ RevertCheckoutFails \/ RevertClearFails \/ RevertLoadFails \/ RevertWatchFails
           \/ \E s \in Stacks : RevertUpFails(s)
  BY <1>3, <1>d DEF RevertCheckoutFails, RevertClearFails, RevertLoadFails, RevertWatchFails,
                    RevertUpFails
<1>4. CASE \/ RevertClear \/ RevertLoad \/ RevertWatchHealthy \/ \E s \in Stacks : RevertUp(s)
  <2>1. run'.force = run.force
    BY <1>0, <1>4 DEF RevertClear, RevertLoad, RevertWatchHealthy, RevertUp, Run
  <2>2. /\ pc' \in {"clear", "load", "reup", "rewatch", "settle"}
        /\ disk' = disk /\ st' = st
    BY <1>4 DEF RevertClear, RevertLoad, RevertWatchHealthy, RevertUp, Goto
  <2> QED BY <1>0, <1>b, <1>e, <2>1, <2>2
<1> QED BY <1>1, <1>2, <1>3, <1>4 DEF RevertStep

-----------------------------------------------------------------------------
(* The theorems. *)

\* DaemonInv holds throughout when no run is forced.
LEMMA DaemonInvariant == ASSUME Unforced PROVE Spec => []DaemonInv
<1>1. Init => DaemonInv
  <2>1. New.pendingCommit = None /\ ~New.pendingRevert /\ New.lastResult = ""
    BY DEF New
  <2>2. Ledger(New)
    BY <2>1 DEF Ledger, Consistent, IsKnownBad, Pending, Degraded
  <2>3. Init => pc = "idle" /\ st = New /\ disk = New
    BY DEF Init
  <2> QED BY <2>2, <2>3 DEF DaemonInv, Forward, ApplySteps, SameFailures
<1>2. TypeOK /\ CommitKnown /\ DaemonInv /\ [Next]_vars => DaemonInv'
  <2> SUFFICES ASSUME TypeOK, CommitKnown, DaemonInv, [Next]_vars PROVE DaemonInv'
    OBVIOUS
  <2>1. CASE Next
    BY <2>1, EnvironmentDaemon, NormalDaemon, RecoveryDaemon, ApplyDaemon, RevertDaemon,
       BeginDaemon DEF Next, CodeStep
  <2>2. CASE UNCHANGED vars
    BY <2>2 DEF vars, DaemonInv, Forward, ApplySteps, SameFailures, Ledger, Consistent,
                IsKnownBad, Remembered, RevertInProgress, Pending, Degraded
  <2> QED BY <2>1, <2>2
<1> QED BY <1>1, <1>2, TypesAndCommits, PTL DEF Spec

\* degrade is final for a daemon: no state file ever says DEGRADED and names
\* work to resume, whatever fails and wherever the process dies.
THEOREM DegradedIsFinal == ASSUME Unforced PROVE Spec => []DegradedNotPending
<1>1. DaemonInv => DegradedNotPending BY DEF DaemonInv, Ledger, DegradedNotPending
<1> QED BY <1>1, DaemonInvariant, PTL

\* A daemon never takes a commit recorded as failed into applyAndWatch: neither
\* from the branch, nor as the pending commit, nor as the one that supersedes it.
THEOREM KnownBadStaysOut == ASSUME Unforced PROVE Spec => []KnownBadNotApplied
<1>1. TypeOK /\ DaemonInv => KnownBadNotApplied
  BY SameFailuresDecide DEF DaemonInv, Forward, KnownBadNotApplied
<1> QED BY <1>1, DaemonInvariant, TypeCorrect, PTL

\* A daemon never applies anything while the state file says that a revert is
\* in progress.
THEOREM RevertComesFirst == ASSUME Unforced PROVE Spec => []RevertFinishesFirst
<1>1. DaemonInv => RevertFinishesFirst BY DEF DaemonInv, Forward, RevertFinishesFirst
<1> QED BY <1>1, DaemonInvariant, PTL

-----------------------------------------------------------------------------
(* The refinement of Lifecycle. *)

RevertSteps == {"revert", "clear", "load", "reup", "rewatch", "settle"}

\* t knows as bad what s does, or c besides, possibly having forgotten others.
Learnt(s, t, c) ==
    \/ \A d : IsKnownBad(t, d) <=> IsKnownBad(s, d)
    \/ /\ c # None
       /\ IsKnownBad(t, c)
       /\ \A d : IsKnownBad(t, d) => d = c \/ IsKnownBad(s, d)

LifecycleInv ==
    /\ st.lastHealthyCommit = disk.lastHealthyCommit
    /\ st.pendingCommit = disk.pendingCommit
    /\ st.pendingRevert = disk.pendingRevert
    /\ pc \in {"fetch", "gate", "advance", "record"} => ~Pending(disk)
    /\ pc \in {"recover", "resolve"} => Pending(disk)
    /\ pc \in RevertSteps => run.failed = disk.pendingCommit /\ Learnt(disk, st, run.failed)
    /\ pc \in RevertSteps \ {"revert"} => st.lastHealthyCommit # None

\* A step of the lifecycle, or none.
AbstractStep == [Abstract!LifecycleNext]_(Abstract!lifecycleVars)

-----------------------------------------------------------------------------
(* Steps of the record, and the steps of the lifecycle they are. *)

\* What the lifecycle shows of the next record.
LEMMA NextView ==
    /\ KnownBad(disk)' = KnownBad(disk')
    /\ PhaseOf(disk)' = PhaseOf(disk')
<1>1. KnownBad(disk)' = KnownBad(disk') BY DEF KnownBad, IsKnownBad, Remembered
<1>2. PhaseOf(disk)' = PhaseOf(disk') BY DEF PhaseOf, Degraded, RevertInProgress
<1> QED BY <1>1, <1>2

\* Learnt, as the lifecycle sees it.
LEMMA LearntBad ==
    ASSUME NEW s, NEW t, NEW c \in CommitOrNone, Learnt(s, t, c)
    PROVE  \/ KnownBad(t) = KnownBad(s)
           \/ c # None /\ c \in KnownBad(t) /\ KnownBad(t) \subseteq KnownBad(s) \cup {c}
BY DEF Learnt, KnownBad, CommitOrNone

\* A record that differs in nothing the lifecycle shows.
LEMMA SameView ==
    ASSUME disk \in State, disk' \in State, Book(disk') = Book(disk),
           disk'.lastHealthyCommit = disk.lastHealthyCommit,
           Degraded(disk') <=> Degraded(disk)
    PROVE  AbstractStep
<1>1. /\ \A c : IsKnownBad(disk', c) <=> IsKnownBad(disk, c)
      /\ RevertInProgress(disk') <=> RevertInProgress(disk)
      /\ disk'.pendingCommit = disk.pendingCommit
  BY BookDecides
<1>2. KnownBad(disk') = KnownBad(disk) BY <1>1 DEF KnownBad
<1>3. PhaseOf(disk') = PhaseOf(disk) BY <1>1 DEF PhaseOf
<1> QED BY <1>1, <1>2, <1>3, NextView DEF AbstractStep, Abstract!lifecycleVars

\* degrade
LEMMA GiveUpView ==
    ASSUME disk \in State, ~Degraded(disk), Degraded(disk'), disk'.pendingCommit = None,
           disk'.lastHealthyCommit = disk.lastHealthyCommit,
           Learnt(disk, disk', disk.pendingCommit)
    PROVE  AbstractStep
<1>1. disk.pendingCommit \in CommitOrNone BY DEF State
<1>2. PhaseOf(disk) # "degraded" /\ PhaseOf(disk') = "degraded" BY DEF PhaseOf
<1>3. Abstract!GiveUp
  BY <1>1, <1>2, NextView, LearntBad DEF Abstract!GiveUp, Abstract!Learn
<1> QED BY <1>3 DEF AbstractStep, Abstract!LifecycleNext

\* The end of doRevert. Where nothing was pending nothing shows.
LEMMA SettleView ==
    ASSUME disk \in State, ~Degraded(disk), ~Degraded(disk'), ~Pending(disk'),
           disk'.lastHealthyCommit = disk.lastHealthyCommit,
           disk.lastHealthyCommit # None,
           Learnt(disk, disk', disk.pendingCommit)
    PROVE  AbstractStep
<1>1. disk.pendingCommit \in CommitOrNone BY DEF State
<1>2. PhaseOf(disk') = "settled" /\ disk'.pendingCommit = None
  BY DEF PhaseOf, Pending, RevertInProgress
<1>3. CASE Pending(disk)
  <2>1. PhaseOf(disk) \in {"trying", "reverting"}
    BY <1>3 DEF PhaseOf, Pending, RevertInProgress
  <2>2. Abstract!Settle
    BY <1>1, <1>2, <2>1, NextView, LearntBad DEF Abstract!Settle, Abstract!Learn
  <2> QED BY <2>2 DEF AbstractStep, Abstract!LifecycleNext
<1>4. CASE ~Pending(disk)
  <2>1. PhaseOf(disk) = "settled" /\ disk.pendingCommit = None
    BY <1>4 DEF PhaseOf, Pending, RevertInProgress
  <2>2. KnownBad(disk') = KnownBad(disk) BY <1>1, <2>1, LearntBad
  <2> QED BY <1>2, <2>1, <2>2, NextView DEF AbstractStep, Abstract!lifecycleVars
<1> QED BY <1>3, <1>4

\* A commit is marked as failed.
LEMMA CondemnView ==
    ASSUME NEW c \in Commits, disk \in State, ~Degraded(disk), ~Degraded(disk'),
           disk'.lastHealthyCommit = disk.lastHealthyCommit,
           disk'.pendingCommit = disk.pendingCommit,
           IsKnownBad(disk', c),
           \A d : IsKnownBad(disk', d) => d = c \/ IsKnownBad(disk, d),
           RevertInProgress(disk') <=> RevertInProgress(disk) \/ c = disk.pendingCommit,
           RevertInProgress(disk) => c = disk.pendingCommit
    PROVE  AbstractStep
<1>1. c # None BY StateAssumption
<1>2. c \in KnownBad(disk') /\ KnownBad(disk') \subseteq KnownBad(disk) \cup {c}
  BY DEF KnownBad
<1>3. \/ PhaseOf(disk) \in {"settled", "trying"}
      \/ PhaseOf(disk) = "reverting" /\ c = disk.pendingCommit
  BY DEF PhaseOf
<1>4. PhaseOf(disk') = IF c = disk.pendingCommit THEN "reverting" ELSE PhaseOf(disk)
  BY DEF PhaseOf
<1>5. Abstract!Condemn(c)
  BY <1>2, <1>3, <1>4, NextView DEF Abstract!Condemn, Abstract!Learn
<1> QED BY <1>5 DEF AbstractStep, Abstract!LifecycleNext

\* A revert that no commit is to blame for is left pending.
LEMMA RestoreView ==
    ASSUME disk \in State, ~Degraded(disk), ~Degraded(disk'), RevertInProgress(disk'),
           disk.pendingCommit = None, disk'.pendingCommit = None,
           disk'.lastHealthyCommit = disk.lastHealthyCommit,
           disk.lastHealthyCommit # None,
           Learnt(disk, disk', None)
    PROVE  AbstractStep
<1>1. KnownBad(disk') = KnownBad(disk) BY LearntBad DEF CommitOrNone
<1>2. PhaseOf(disk') = "reverting" BY DEF PhaseOf
<1>3. PhaseOf(disk) \in {"settled", "reverting"} BY DEF PhaseOf
<1>4. CASE PhaseOf(disk) = "settled"
  <2>1. Abstract!Restore BY <1>1, <1>2, <1>4, NextView DEF Abstract!Restore
  <2> QED BY <2>1 DEF AbstractStep, Abstract!LifecycleNext
<1>5. CASE PhaseOf(disk) = "reverting"
  BY <1>1, <1>2, <1>5, NextView DEF AbstractStep, Abstract!lifecycleVars
<1> QED BY <1>3, <1>4, <1>5

\* The pending record of a commit not known to be bad.
LEMMA TryView ==
    ASSUME NEW c \in Commits, disk \in State, ~Degraded(disk), ~Degraded(disk'),
           ~RevertInProgress(disk), ~RevertInProgress(disk'), disk'.pendingCommit = c,
           disk'.lastHealthyCommit = disk.lastHealthyCommit,
           \A d : IsKnownBad(disk', d) <=> IsKnownBad(disk, d),
           ~IsKnownBad(disk, c)
    PROVE  AbstractStep
<1>1. c # None BY StateAssumption
<1>2. KnownBad(disk') = KnownBad(disk) /\ c \notin KnownBad(disk) BY DEF KnownBad
<1>3. PhaseOf(disk') = "trying" /\ PhaseOf(disk) \in {"settled", "trying"}
  BY <1>1 DEF PhaseOf
<1>4. Abstract!Try(c) BY <1>2, <1>3, NextView DEF Abstract!Try
<1> QED BY <1>4 DEF AbstractStep, Abstract!LifecycleNext

\* promoteHealthy
LEMMA PromoteView ==
    ASSUME NEW c \in Commits, disk \in State, ~Degraded(disk), ~Degraded(disk'),
           ~RevertInProgress(disk), ~Pending(disk'),
           disk'.lastHealthyCommit = c,
           \A d : ~IsKnownBad(disk', d),
           ~IsKnownBad(disk, c)
    PROVE  AbstractStep
<1>1. KnownBad(disk') = {} /\ c \notin KnownBad(disk) BY DEF KnownBad
<1>2. /\ PhaseOf(disk') = "settled" /\ disk'.pendingCommit = None
      /\ PhaseOf(disk) \in {"settled", "trying"}
  BY DEF PhaseOf, Pending, RevertInProgress
<1>3. Abstract!Promote(c) BY <1>1, <1>2, NextView DEF Abstract!Promote
<1> QED BY <1>3 DEF AbstractStep, Abstract!LifecycleNext

-----------------------------------------------------------------------------
(* The records a run saves. *)

LEMMA LearntTwice ==
    ASSUME NEW r, NEW s, NEW t, NEW c, Learnt(r, s, c), Learnt(s, t, c)
    PROVE  Learnt(r, t, c)
BY DEF Learnt

\* What MarkFailed teaches.
LEMMA MarkFailedLearnt ==
    ASSUME NEW s \in State, NEW c \in Commits
    PROVE  /\ MarkFailed(s, c) \in State
           /\ IsKnownBad(MarkFailed(s, c), c)
           /\ \A d : IsKnownBad(MarkFailed(s, c), d) => d = c \/ IsKnownBad(s, d)
           /\ Learnt(s, MarkFailed(s, c), c)
           /\ MarkFailed(s, c).lastHealthyCommit = s.lastHealthyCommit
<1>1. c # None BY StateAssumption
<1>2. IsKnownBad(MarkFailed(s, c), c) BY <1>1, MarkFailedBook DEF IsKnownBad
<1>3. \A d : IsKnownBad(MarkFailed(s, c), d) => d = c \/ IsKnownBad(s, d)
  BY MarkFailedBook
<1>4. MarkFailed(s, c) \in State BY MarkFailedType DEF CommitOrNone
<1>5. MarkFailed(s, c).lastHealthyCommit = s.lastHealthyCommit
  BY <1>1 DEF MarkFailed, State
<1> QED BY <1>1, <1>2, <1>3, <1>4, <1>5 DEF Learnt

\* The records degrade and revertInterrupted start from.
LEMMA BlameLearnt ==
    ASSUME NEW s \in State, NEW c \in CommitOrNone,
           NEW t, t = (IF c = None THEN s ELSE MarkFailed(s, c))
    PROVE  /\ t \in State
           /\ Learnt(s, t, c)
           /\ c # None => IsKnownBad(t, c)
           /\ t.lastHealthyCommit = s.lastHealthyCommit
<1>1. CASE c = None BY <1>1 DEF Learnt
<1>2. CASE c # None
  <2>1. c \in Commits BY <1>2 DEF CommitOrNone
  <2> QED BY <1>2, <2>1, MarkFailedLearnt
<1> QED BY <1>1, <1>2

\* The commits a record knows as bad are in these two fields.
LEMMA SameFailed ==
    ASSUME NEW s, NEW t, t.lastFailedCommit = s.lastFailedCommit,
           t.failedCommits = s.failedCommits
    PROVE  \A d : IsKnownBad(t, d) <=> IsKnownBad(s, d)
BY DEF IsKnownBad, Remembered

LEMMA GivenUpRecord ==
    ASSUME NEW s \in State, NEW c \in CommitOrNone
    PROVE  /\ GivenUp(s, c).pendingCommit = None
           /\ Degraded(GivenUp(s, c))
           /\ GivenUp(s, c).lastHealthyCommit = s.lastHealthyCommit
           /\ Learnt(s, GivenUp(s, c), c)
<1> DEFINE t == IF c = None THEN s ELSE MarkFailed(s, c)
<1>1. t \in State /\ Learnt(s, t, c) /\ t.lastHealthyCommit = s.lastHealthyCommit
  BY BlameLearnt
<1>2. GivenUp(s, c) = [ClearPending(t) EXCEPT !.lastResult = "degraded"] BY DEF GivenUp
<1> HIDE DEF t
<1>3. /\ GivenUp(s, c).pendingCommit = None
      /\ GivenUp(s, c).lastResult = "degraded"
      /\ GivenUp(s, c).lastHealthyCommit = t.lastHealthyCommit
      /\ GivenUp(s, c).lastFailedCommit = t.lastFailedCommit
      /\ GivenUp(s, c).failedCommits = t.failedCommits
  BY <1>1, <1>2 DEF ClearPending, State
<1>4. Learnt(t, GivenUp(s, c), c) BY <1>3, SameFailed DEF Learnt
<1> QED BY <1>1, <1>3, <1>4, LearntTwice DEF Degraded

LEMMA InterruptedRecord ==
    ASSUME NEW s \in State, NEW c \in CommitOrNone, NEW stacks
    PROVE  /\ Interrupted(s, c, stacks).pendingCommit = c
           /\ RevertInProgress(Interrupted(s, c, stacks))
           /\ ~Degraded(Interrupted(s, c, stacks))
           /\ Interrupted(s, c, stacks).lastHealthyCommit = s.lastHealthyCommit
           /\ Learnt(s, Interrupted(s, c, stacks), c)
           /\ c # None => IsKnownBad(Interrupted(s, c, stacks), c)
<1> DEFINE t == IF c = None THEN s ELSE MarkFailed(s, c)
           i == Interrupted(s, c, stacks)
<1>1. /\ t \in State /\ Learnt(s, t, c) /\ t.lastHealthyCommit = s.lastHealthyCommit
      /\ c # None => IsKnownBad(t, c)
  BY BlameLearnt
<1>2. i = [t EXCEPT !.pendingRevert = TRUE,
                    !.pendingCommit = c,
                    !.pendingStacks = IF stacks # {} THEN stacks ELSE @,
                    !.pendingSince  = TRUE,
                    !.lastResult    = "failed_apply"]
  BY DEF Interrupted
<1> HIDE DEF t
<1>3. /\ i.pendingCommit = c /\ i.pendingRevert
      /\ i.lastResult = "failed_apply"
      /\ i.lastHealthyCommit = t.lastHealthyCommit
      /\ i.lastFailedCommit = t.lastFailedCommit
      /\ i.failedCommits = t.failedCommits
  BY <1>1, <1>2 DEF State
<1> HIDE DEF i
<1>4. \A d : IsKnownBad(i, d) <=> IsKnownBad(t, d) BY <1>3, SameFailed
<1>5. Learnt(t, i, c) BY <1>4 DEF Learnt
<1>6. Learnt(s, i, c) BY <1>1, <1>5, LearntTwice
<1>7. /\ RevertInProgress(i) /\ ~Degraded(i) /\ i.lastHealthyCommit = s.lastHealthyCommit
      /\ c # None => IsKnownBad(i, c)
  BY <1>1, <1>3, <1>4 DEF RevertInProgress, Degraded
<1> QED BY <1>3, <1>6, <1>7 DEF i

LEMMA RevertedRecord ==
    ASSUME NEW s \in State, NEW c
    PROVE  /\ ~Pending(Reverted(s, c))
           /\ ~Degraded(Reverted(s, c))
           /\ Reverted(s, c).lastHealthyCommit = s.lastHealthyCommit
           /\ Learnt(s, Reverted(s, c), c)
<1>1. /\ Reverted(s, c).pendingCommit = None
      /\ ~Reverted(s, c).pendingRevert
      /\ Reverted(s, c).lastResult = "reverted"
      /\ Reverted(s, c).lastHealthyCommit = s.lastHealthyCommit
      /\ Reverted(s, c).lastFailedCommit = s.lastFailedCommit
      /\ Reverted(s, c).failedCommits = s.failedCommits
  BY DEF Reverted, ClearPending, State
<1>2. \A d : IsKnownBad(Reverted(s, c), d) <=> IsKnownBad(s, d) BY <1>1, SameFailed
<1> QED BY <1>1, <1>2 DEF Learnt, Pending, Degraded

LEMMA PromotedRecord ==
    ASSUME NEW s \in State, NEW c, NEW stacks
    PROVE  /\ ~Pending(Promoted(s, c, stacks))
           /\ ~Degraded(Promoted(s, c, stacks))
           /\ Promoted(s, c, stacks).lastHealthyCommit = c
           /\ \A d : ~IsKnownBad(Promoted(s, c, stacks), d)
<1>1. /\ Promoted(s, c, stacks).pendingCommit = None
      /\ ~Promoted(s, c, stacks).pendingRevert
      /\ Promoted(s, c, stacks).lastResult = "success"
      /\ Promoted(s, c, stacks).lastHealthyCommit = c
      /\ Promoted(s, c, stacks).lastFailedCommit = None
      /\ Promoted(s, c, stacks).failedCommits = <<>>
  BY DEF Promoted, ClearPending, State
<1>2. Len(<<>>) = 0 OBVIOUS
<1>3. Remembered(Promoted(s, c, stacks)) = {} BY <1>1, <1>2 DEF Remembered
<1> QED BY <1>1, <1>3 DEF Pending, Degraded, IsKnownBad

-----------------------------------------------------------------------------
(* Steps. *)

\* A run that has returned leaves nothing to agree on but the record itself.
LEMMA ReturnLifecycle ==
    ASSUME NEW k, Return(k)
    PROVE  LifecycleInv'
BY DEF Return, LifecycleInv, RevertSteps

\* A record that is saved, or not, by a run that returns.
LEMMA SaveAndReturnLifecycle ==
    ASSUME TypeOK, NEW next, NEW k, SaveAndReturn(next, k),
           disk' = next => AbstractStep
    PROVE  LifecycleInv' /\ AbstractStep
<1>1. CASE disk' = disk
  BY <1>1, ReturnLifecycle, NextView DEF SaveAndReturn, AbstractStep, Abstract!lifecycleVars
<1>2. CASE disk' = next
  BY <1>2, ReturnLifecycle DEF SaveAndReturn
<1> QED BY <1>1, <1>2 DEF SaveAndReturn

\* An unchanged record.
LEMMA KeptView == ASSUME disk' = disk PROVE AbstractStep
BY NextView DEF AbstractStep, Abstract!lifecycleVars

\* Where the run's copy agrees on the failed commits, it agrees on the book.
LEMMA CopyAgrees ==
    ASSUME LifecycleInv, SameFailures
    PROVE  Book(st) = Book(disk)
BY DEF LifecycleInv, SameFailures, Book

\* A record made from such a copy without touching the book shows nothing new.
LEMMA CopyView ==
    ASSUME TypeOK, LifecycleInv, SameFailures, ~Degraded(disk), disk' \in State,
           Book(disk') = Book(st), disk'.lastHealthyCommit = st.lastHealthyCommit,
           ~Degraded(disk')
    PROVE  AbstractStep
<1>1. Book(disk') = Book(disk) BY CopyAgrees
<1> QED BY <1>1, SameView DEF TypeOK, LifecycleInv

\* The updates that leave the target alone too.
LEMMA TargetKept ==
    ASSUME NEW s \in State
    PROVE  /\ \A r : WithOutcome(s, r).lastHealthyCommit = s.lastHealthyCommit
           /\ \A c : WithCheckout(s, c).lastHealthyCommit = s.lastHealthyCommit
           /\ WithAttempt(s).lastHealthyCommit = s.lastHealthyCommit
           /\ \A n : [s EXCEPT !.preflightBlocks = n].lastHealthyCommit = s.lastHealthyCommit
BY DEF WithOutcome, WithCheckout, WithAttempt, State

\* recordOutcome by a run whose copy agrees.
LEMMA OutcomeView ==
    ASSUME TypeOK, LifecycleInv, SameFailures, ~Degraded(disk), NEW r \in Results,
           r # "degraded", disk' = WithOutcome(st, r)
    PROVE  AbstractStep
<1>1. st \in State BY DEF TypeOK
<1>2. /\ disk' \in State /\ Book(disk') = Book(st) /\ disk'.lastResult = r
      /\ disk'.lastHealthyCommit = st.lastHealthyCommit
  BY <1>1, UpdateTypes, BookKept, TargetKept
<1> QED BY <1>2, CopyView DEF Degraded

\* abortBeforeUp from the run's copy, over a record the failure left.
LEMMA AbortLifecycle ==
    ASSUME TypeOK, NEW s, NEW left, NEW k, AbortBeforeUp(s, left, k),
           disk' = left => AbstractStep,
           disk' = WithOutcome(s, "failed_apply") => AbstractStep
    PROVE  LifecycleInv' /\ AbstractStep
<1>1. PICK n : Return(n) /\ (disk' = left \/ disk' = WithOutcome(s, "failed_apply"))
  BY DEF AbortBeforeUp
<1> QED BY <1>1, ReturnLifecycle

\* A step that moves on without a word on the record.
LEMMA MoveOnLifecycle ==
    ASSUME LifecycleInv, UNCHANGED <<disk, st>>, run'.failed = run.failed,
           pc' \in {"fetch", "gate", "advance", "record"} =>
               pc \in {"fetch", "gate", "advance", "record"},
           pc' \in {"recover", "resolve"} => pc \in {"recover", "resolve"},
           pc' \in RevertSteps => pc \in RevertSteps,
           pc' \in RevertSteps \ {"revert"} => pc \in RevertSteps \ {"revert"}
    PROVE  LifecycleInv' /\ AbstractStep
<1>1. LifecycleInv'
  BY DEF LifecycleInv, RevertSteps, Pending, Learnt, IsKnownBad, Remembered
<1> QED BY <1>1, KeptView

\* The environment does not move the lifecycle.
LEMMA EnvironmentLifecycle ==
    ASSUME TypeOK, LifecycleInv, Environment
    PROVE  LifecycleInv' /\ AbstractStep
<1>1. CASE Push \/ Shutdown
  <2>1. UNCHANGED <<disk, st, run, pc>> BY <1>1 DEF Push, Shutdown
  <2> QED BY <2>1, MoveOnLifecycle
<1>2. CASE Pause \/ Resume
  <2>1. /\ disk \in State /\ disk' \in State /\ st' = disk' /\ pc' = "idle"
        /\ Book(disk') = Book(disk) /\ disk'.lastResult = disk.lastResult
        /\ disk'.lastHealthyCommit = disk.lastHealthyCommit
    BY <1>2 DEF TypeOK, Pause, Resume, State, Book
  <2>2. LifecycleInv' BY <2>1 DEF LifecycleInv, RevertSteps
  <2>3. AbstractStep BY <2>1, SameView DEF Degraded
  <2> QED BY <2>2, <2>3
<1>3. CASE Crash
  BY <1>3, ReturnLifecycle, KeptView DEF Crash
<1> QED BY <1>1, <1>2, <1>3 DEF Environment

\* Neither does starting a run.
LEMMA BeginLifecycle ==
    ASSUME TypeOK, LifecycleInv, NEW mode, Begin(mode)
    PROVE  LifecycleInv' /\ AbstractStep
<1>1. /\ st' = disk /\ disk' = disk
      /\ pc' = IF Pending(disk) THEN "recover" ELSE "fetch"
  BY DEF Begin, Goto
<1>2. LifecycleInv' BY <1>1 DEF LifecycleInv, RevertSteps, Pending
<1> QED BY <1>1, <1>2, KeptView

\* A record made from an agreeing copy, saved or not by a run that goes on with
\* it, or with one like it.
LEMMA GoOnLifecycle ==
    ASSUME TypeOK, LifecycleInv, SameFailures, ~Degraded(disk), ~Degraded(st),
           NEW next \in State, Book(next) = Book(st), next.lastResult = st.lastResult,
           next.lastHealthyCommit = st.lastHealthyCommit,
           NEW copy \in State, Book(copy) = Book(st),
           copy.lastHealthyCommit = st.lastHealthyCommit,
           disk' \in {disk, next}, st' = copy,
           pc' \in {"checkout", "revert"},
           pc' = "revert" => run'.failed = disk.pendingCommit
    PROVE  LifecycleInv' /\ AbstractStep
<1>1. disk' \in State /\ Book(disk') = Book(disk) /\ Book(st') = Book(disk)
  BY CopyAgrees DEF TypeOK
<1>2. /\ disk'.lastHealthyCommit = disk.lastHealthyCommit
      /\ st'.lastHealthyCommit = disk.lastHealthyCommit
  BY DEF LifecycleInv
<1>3. /\ st'.pendingCommit = disk.pendingCommit /\ disk'.pendingCommit = disk.pendingCommit
      /\ st'.pendingRevert = disk.pendingRevert /\ disk'.pendingRevert = disk.pendingRevert
  BY <1>1 DEF Book
<1>4. Learnt(disk', st', run'.failed)
  BY <1>1, BookDecides DEF Learnt
<1>5. Learnt(disk, st, run.failed)' BY <1>4 DEF Learnt, IsKnownBad, Remembered
<1>6. LifecycleInv' BY <1>2, <1>3, <1>5 DEF LifecycleInv, RevertSteps
<1>7. ~Degraded(disk') BY DEF Degraded
<1>8. disk \in State BY DEF TypeOK
<1> QED BY <1>1, <1>2, <1>6, <1>7, <1>8, SameView

\* runNormal tries nothing; a pre-flight gate at its limit gives up.
LEMMA NormalLifecycle ==
    ASSUME TypeOK, DaemonInv, LifecycleInv, NormalStep
    PROVE  LifecycleInv' /\ AbstractStep
<1>0. st \in State /\ disk \in State /\ run \in Run BY DEF TypeOK
<1>a. pc \in {"fetch", "gate", "advance", "record"}
  BY DEF NormalStep, FetchFails, NothingToDo, SkipKnownBad, SkipOutsideWindow, ReapplyDrifted,
         SkipIrrelevant, ConsiderChange, AdvanceCheckout, AdvanceFails, RecordCheckout, GateFails,
         DryRunReports, GatePasses, GateBlocks, GateGivesUp, Eligible, Fetched
<1>b. /\ ~Degraded(disk) /\ ~Degraded(st) /\ SameFailures /\ ~Pending(disk)
      /\ disk.pendingCommit = None
  BY <1>a DEF DaemonInv, Forward, LifecycleInv, Pending
<1>c. ASSUME NEW r \in Results \ {"degraded"}, disk' = WithOutcome(st, r) PROVE AbstractStep
  BY <1>b, <1>c, OutcomeView
<1>d. ASSUME NEW k, disk' = disk, Return(k) PROVE LifecycleInv' /\ AbstractStep
  BY <1>d, ReturnLifecycle, KeptView
<1>1. CASE FetchFails \/ SkipKnownBad \/ GateFails
  <2>1. ASSUME NEW k, NEW r \in Results \ {"degraded"}, SaveAndReturn(WithOutcome(st, r), k)
        PROVE  LifecycleInv' /\ AbstractStep
    BY <1>c, <2>1, SaveAndReturnLifecycle
  <2>2. /\ "failed_git" \in Results \ {"degraded"}
        /\ "skipped_known_bad" \in Results \ {"degraded"}
        /\ "failed_preflight" \in Results \ {"degraded"}
    BY DEF Results
  <2> QED BY <1>1, <1>d, <2>1, <2>2 DEF FetchFails, SkipKnownBad, GateFails
<1>2. CASE NothingToDo \/ SkipOutsideWindow \/ DryRunReports
  BY <1>2, <1>d DEF NothingToDo, SkipOutsideWindow, DryRunReports
<1>3. CASE ReapplyDrifted \/ SkipIrrelevant \/ ConsiderChange \/ AdvanceCheckout
  <2>1. run'.failed = run.failed
    BY <1>0, <1>3 DEF ReapplyDrifted, SkipIrrelevant, ConsiderChange, AdvanceCheckout, Run
  <2>2. UNCHANGED <<disk, st>> /\ pc' \in {"gate", "advance", "record"}
    BY <1>3 DEF ReapplyDrifted, SkipIrrelevant, ConsiderChange, AdvanceCheckout, Goto
  <2> QED BY <1>a, <2>1, <2>2, MoveOnLifecycle DEF RevertSteps
<1>4. CASE AdvanceFails
  <2>1. AbortBeforeUp(st, disk, CallFailure) BY <1>4 DEF AdvanceFails
  <2>2. disk' = WithOutcome(st, "failed_apply") => AbstractStep BY <1>c DEF Results
  <2> QED BY <2>1, <2>2, AbortLifecycle, KeptView
<1>5. CASE RecordCheckout
  <2> DEFINE next == WithCheckout(st, run.new)
  <2>1. /\ next \in State /\ Book(next) = Book(st) /\ next.lastResult = "success"
        /\ next.lastHealthyCommit = st.lastHealthyCommit
    BY <1>0, UpdateTypes, BookKept, TargetKept DEF Run
  <2>2. SaveAndReturn(next, 0) BY <1>5 DEF RecordCheckout
  <2> HIDE DEF next
  <2>3. disk' = next => AbstractStep BY <1>b, <2>1, CopyView DEF Degraded
  <2> QED BY <2>2, <2>3, SaveAndReturnLifecycle
<1>6. ASSUME NEW n \in Nat
      PROVE  /\ [st EXCEPT !.preflightBlocks = n] \in State
             /\ Book([st EXCEPT !.preflightBlocks = n]) = Book(st)
             /\ [st EXCEPT !.preflightBlocks = n].lastResult = st.lastResult
             /\ [st EXCEPT !.preflightBlocks = n].lastHealthyCommit = st.lastHealthyCommit
  <2>1. [st EXCEPT !.preflightBlocks = n] \in State BY <1>0 DEF State
  <2> QED BY <1>0, <2>1, BookKept, TargetKept
<1>7. CASE GatePasses
  <2> DEFINE next == [st EXCEPT !.preflightBlocks = 0]
  <2>1. /\ next \in State /\ Book(next) = Book(st) /\ next.lastResult = st.lastResult
        /\ next.lastHealthyCommit = st.lastHealthyCommit
    BY <1>6
  <2>2. disk' \in {disk, next} /\ st' \in {st, next} /\ pc' = "checkout"
    BY <1>7 DEF GatePasses, SaveAndGoto, Goto
  <2> HIDE DEF next
  <2> QED BY <1>0, <1>b, <2>1, <2>2, GoOnLifecycle
<1>8. CASE GateBlocks
  <2> DEFINE before == [st EXCEPT !.preflightBlocks = BlockedSoFar]
             next   == [st EXCEPT !.preflightBlocks = BlockedSoFar + 1]
  <2>1. BlockedSoFar \in Nat /\ BlockedSoFar + 1 \in Nat BY <1>0 DEF State, BlockedSoFar
  <2>2. /\ next \in State /\ Book(next) = Book(st) /\ next.lastResult = st.lastResult
        /\ next.lastHealthyCommit = st.lastHealthyCommit
    BY <1>6, <2>1
  <2>3. /\ before \in State /\ Book(before) = Book(st)
        /\ before.lastHealthyCommit = st.lastHealthyCommit
    BY <1>6, <2>1
  <2>4. disk' \in {disk, next} /\ st' \in {before, next} /\ pc' = "revert"
    BY <1>8 DEF GateBlocks, SaveAndGoto, Goto
  <2>5. run'.failed = None BY <1>0, <1>8 DEF GateBlocks, Run
  <2> HIDE DEF before, next
  <2> QED BY <1>0, <1>b, <2>2, <2>3, <2>4, <2>5, GoOnLifecycle
<1>9. CASE GateGivesUp
  <2>1. SaveAndReturn(GivenUp(st, None), 1) BY <1>9 DEF GateGivesUp
  <2>2. Learnt(disk, st, None) BY <1>b, SameFailed DEF Learnt, SameFailures
  <2>3. disk' = GivenUp(st, None) => AbstractStep
    BY <1>0, <1>b, <2>2, GivenUpRecord, LearntTwice, GiveUpView DEF LifecycleInv, CommitOrNone
  <2> QED BY <2>1, <2>3, SaveAndReturnLifecycle
<1> QED BY <1>1, <1>2, <1>3, <1>4, <1>5, <1>7, <1>8, <1>9 DEF NormalStep

\* recoverFromCrash tries nothing either, and gives up at its limits.
LEMMA RecoveryLifecycle ==
    ASSUME TypeOK, DaemonInv, LifecycleInv, RecoveryStep
    PROVE  LifecycleInv' /\ AbstractStep
<1>0. st \in State /\ disk \in State /\ run \in Run /\ st.pendingCommit \in CommitOrNone
  BY DEF TypeOK, State
<1>a. pc \in {"recover", "resolve"}
  BY DEF RecoveryStep, RecoverFetch, RecoverGivesUp, RecoverFails, RecoverResumesRevert,
         RecoverUnhealthy, RecoverReapplies
<1>b. /\ ~Degraded(disk) /\ ~Degraded(st) /\ ~run.force /\ SameFailures
      /\ st.pendingCommit = disk.pendingCommit
  BY <1>a DEF DaemonInv, LifecycleInv
<1> DEFINE next == WithAttempt(st)
<1>c. /\ next \in State /\ Book(next) = Book(st) /\ next.lastResult = st.lastResult
      /\ next.lastHealthyCommit = st.lastHealthyCommit
  BY <1>0, UpdateTypes, BookKept, TargetKept
<1> HIDE DEF next
<1>1. CASE RecoverFetch
  <2>1. pc' = "resolve" /\ disk' = disk /\ st' = st
    BY <1>1, <1>b DEF RecoverFetch, Goto
  <2>2. run'.failed = run.failed BY <1>0, <1>1 DEF RecoverFetch, Run
  <2> QED BY <1>a, <2>1, <2>2, MoveOnLifecycle DEF RevertSteps
<1>2. CASE RecoverGivesUp
  <2>1. PICK k : SaveAndReturn(GivenUp(st, st.pendingCommit), k) BY <1>2 DEF RecoverGivesUp
  <2>2. Learnt(disk, st, st.pendingCommit) BY <1>b, SameFailed DEF Learnt, SameFailures
  <2>3. disk' = GivenUp(st, st.pendingCommit) => AbstractStep
    BY <1>0, <1>b, <2>2, GivenUpRecord, LearntTwice, GiveUpView DEF LifecycleInv
  <2> QED BY <2>1, <2>3, SaveAndReturnLifecycle
<1>3. CASE RecoverFails
  <2>1. PICK k : Return(k) /\ (disk' = disk \/ disk' = next)
    BY <1>3 DEF RecoverFails, next
  <2>2. disk' = next => AbstractStep BY <1>b, <1>c, CopyView DEF Degraded
  <2> QED BY <2>1, <2>2, ReturnLifecycle, KeptView
<1>4. CASE RecoverResumesRevert \/ RecoverUnhealthy
  <2>1. pc' = "revert" /\ disk' = next /\ st' = next
    BY <1>4 DEF RecoverResumesRevert, RecoverUnhealthy, RevertPending, SaveAndGoto, Goto, next
  <2>2. run'.failed = st.pendingCommit
    BY <1>0, <1>4 DEF RecoverResumesRevert, RecoverUnhealthy, RevertPending, Run
  <2> QED BY <1>b, <1>c, <2>1, <2>2, GoOnLifecycle
<1>5. CASE RecoverReapplies
  <2>1. pc' = "checkout" /\ disk' = next /\ st' = next
    BY <1>5 DEF RecoverReapplies, SaveAndGoto, Goto, next
  <2> QED BY <1>b, <1>c, <2>1, GoOnLifecycle
<1> QED BY <1>1, <1>2, <1>3, <1>4, <1>5 DEF RecoveryStep

\* applyAndWatch tries a commit, promotes it, or finds it bad.
LEMMA ApplyLifecycle ==
    ASSUME TypeOK, CommitKnown, DaemonInv, LifecycleInv, ApplyStep
    PROVE  LifecycleInv' /\ AbstractStep
<1>0. st \in State /\ disk \in State /\ run \in Run BY DEF TypeOK
<1>a. pc \in ApplySteps
  BY DEF ApplyStep, Checkout, CheckoutFails, Plan, PlanFails, Sweep, TeardownFails, Prepare,
         PrepareFails, SavePending, SavePendingFails, Up, UpFails, WatchHealthy, WatchUnhealthy,
         WatchFails, Teardown, PromoteHealthy, ApplySteps
<1>b. /\ ~Degraded(disk) /\ ~Degraded(st) /\ SameFailures
      /\ ~IsKnownBad(st, run.new) /\ ~RevertInProgress(disk) /\ ~RevertInProgress(st)
  BY <1>a DEF DaemonInv, Forward, ApplySteps
<1>c. run.new \in Commits /\ run.new # None BY <1>a, StateAssumption DEF CommitKnown
<1>d. ~IsKnownBad(disk, run.new) /\ \A d : IsKnownBad(st, d) <=> IsKnownBad(disk, d)
  BY <1>b, SameFailuresDecide
<1>e. disk' = WithOutcome(st, "failed_apply") => AbstractStep
  BY <1>b, OutcomeView DEF Results
<1> DEFINE marked == MarkFailed(st, run.new)
           failed == WithOutcome(marked, "failed_apply")
<1>f. /\ failed \in State /\ failed.lastResult = "failed_apply"
      /\ failed.lastHealthyCommit = disk.lastHealthyCommit
      /\ failed.pendingCommit = disk.pendingCommit
      /\ failed.pendingRevert = disk.pendingRevert
      /\ failed.lastFailedCommit = run.new
      /\ IsKnownBad(failed, run.new)
      /\ \A d : IsKnownBad(failed, d) => d = run.new \/ IsKnownBad(disk, d)
  <2>1. /\ marked \in State /\ IsKnownBad(marked, run.new)
        /\ marked.lastHealthyCommit = disk.lastHealthyCommit
        /\ \A d : IsKnownBad(marked, d) => d = run.new \/ IsKnownBad(disk, d)
    BY <1>0, <1>c, <1>d, MarkFailedLearnt DEF LifecycleInv
  <2>2. /\ marked.lastFailedCommit = run.new
        /\ marked.pendingCommit = disk.pendingCommit
        /\ marked.pendingRevert = disk.pendingRevert
    BY <1>0, <1>c, MarkFailedBook DEF LifecycleInv
  <2> HIDE DEF marked
  <2>3. failed \in State BY <2>1, UpdateTypes DEF Results
  <2>4. failed = [marked EXCEPT !.lastResult = "failed_apply"] BY DEF WithOutcome
  <2>5. /\ failed.lastResult = "failed_apply"
        /\ failed.lastFailedCommit = marked.lastFailedCommit
        /\ failed.failedCommits = marked.failedCommits
        /\ failed.pendingCommit = marked.pendingCommit
        /\ failed.pendingRevert = marked.pendingRevert
        /\ failed.lastHealthyCommit = marked.lastHealthyCommit
    BY <2>1, <2>4 DEF State
  <2>6. \A d : IsKnownBad(failed, d) <=> IsKnownBad(marked, d) BY <2>5, SameFailed
  <2> HIDE DEF failed
  <2> QED BY <2>1, <2>2, <2>3, <2>5, <2>6
<1> HIDE DEF failed
<1>g. disk' = failed => AbstractStep
  <2> SUFFICES ASSUME disk' = failed PROVE AbstractStep OBVIOUS
  <2>1. RevertInProgress(failed) <=> run.new = disk.pendingCommit
    BY <1>b, <1>c, <1>f DEF RevertInProgress
  <2>2. ~Degraded(failed) BY <1>f DEF Degraded
  <2> QED BY <1>0, <1>b, <1>c, <1>f, <2>1, <2>2, CondemnView
<1>h. ASSUME NEW k, AbortApply(k) PROVE LifecycleInv' /\ AbstractStep
  BY <1>e, <1>g, <1>h, AbortLifecycle, KeptView DEF AbortApply, failed, marked
<1>i. ASSUME NEW k, ApplyIncomplete(k) PROVE LifecycleInv' /\ AbstractStep
  BY <1>e, <1>i, SaveAndReturnLifecycle, ReturnLifecycle, KeptView DEF ApplyIncomplete
<1>j. ASSUME NEW k, FailAndRevert(k), pc \in {"up", "watch"}
      PROVE  LifecycleInv' /\ AbstractStep
  <2>1. pc' = "revert" /\ st' = failed /\ disk' \in {failed, disk}
    BY <1>j DEF FailAndRevert, Goto, failed, marked
  <2>2. run'.failed = run.new BY <1>0, <1>j DEF FailAndRevert, Run
  <2>3. run.new = disk.pendingCommit BY <1>j DEF DaemonInv, LifecycleInv
  <2>4. Learnt(disk', st', run'.failed) BY <1>c, <1>f, <2>1, <2>2 DEF Learnt
  <2>5. Learnt(disk, st, run.failed)' BY <2>4 DEF Learnt, IsKnownBad, Remembered
  <2>6. LifecycleInv' BY <1>f, <2>1, <2>2, <2>3, <2>5 DEF LifecycleInv, RevertSteps
  <2> QED BY <1>g, <2>1, <2>6, KeptView
<1> DEFINE next == WithPending(st, run.new, run.stacks)
<1>k. /\ next \in State
      /\ next.lastFailedCommit = disk.lastFailedCommit
      /\ next.failedCommits = disk.failedCommits
      /\ next.pendingCommit = run.new
      /\ next.pendingRevert = disk.pendingRevert
      /\ next.lastResult = st.lastResult
      /\ next.lastHealthyCommit = disk.lastHealthyCommit
  <2>1. next \in State BY <1>0, UpdateTypes DEF Run
  <2>2. /\ next.lastFailedCommit = st.lastFailedCommit
        /\ next.failedCommits = st.failedCommits
        /\ next.pendingCommit = run.new
        /\ next.pendingRevert = st.pendingRevert
        /\ next.lastResult = st.lastResult
        /\ next.lastHealthyCommit = st.lastHealthyCommit
    BY <1>0, <2>1 DEF WithPending, State
  <2> QED BY <1>b, <2>1, <2>2 DEF SameFailures, LifecycleInv
<1> HIDE DEF next
<1>l. disk' = next => AbstractStep
  <2> SUFFICES ASSUME disk' = next PROVE AbstractStep OBVIOUS
  <2>1. \A d : IsKnownBad(next, d) <=> IsKnownBad(disk, d) BY <1>k, SameFailed
  <2>2. ~RevertInProgress(next)
    BY <1>b, <1>c, <1>d, <1>k DEF RevertInProgress, IsKnownBad
  <2>3. ~Degraded(next) BY <1>b, <1>k DEF Degraded
  <2> QED BY <1>0, <1>b, <1>c, <1>d, <1>k, <2>1, <2>2, <2>3, TryView
<1>1. CASE Checkout \/ Plan \/ Prepare \/ WatchHealthy \/ Teardown \/ \E s \in Stacks : Up(s)
  <2>1. run'.failed = run.failed
    BY <1>0, <1>1 DEF Checkout, Plan, Prepare, WatchHealthy, Teardown, Up, Run
  <2>2. UNCHANGED <<disk, st>> /\ pc' \in ApplySteps
    BY <1>1 DEF Checkout, Plan, Prepare, WatchHealthy, Teardown, Up, Goto, ApplySteps
  <2> QED BY <2>1, <2>2, MoveOnLifecycle DEF RevertSteps, ApplySteps
<1>2. CASE Sweep
  <2>1. CASE run.undecided
    BY <1>2, <2>1, ReturnLifecycle, KeptView DEF Sweep
  <2>2. CASE ~run.undecided
    BY <1>2, <2>2, MoveOnLifecycle DEF Sweep, Goto, RevertSteps
  <2> QED BY <2>1, <2>2
<1>3. CASE SavePending
  <2>1. pc' = "up" /\ disk' = next /\ st' = next
    BY <1>3 DEF SavePending, SaveAndGoto, Goto, next
  <2>2. LifecycleInv' BY <2>1 DEF LifecycleInv, RevertSteps
  <2> QED BY <1>l, <2>1, <2>2
<1>4. CASE SavePendingFails
  <2>1. PICK left \in {disk, next} : AbortBeforeUp(st, left, 1)
    BY <1>4 DEF SavePendingFails, next
  <2>2. disk' = left => AbstractStep BY <1>l, <2>1, KeptView
  <2> QED BY <1>e, <2>1, <2>2, AbortLifecycle
<1>5. CASE CheckoutFails
  BY <1>e, <1>5, AbortLifecycle, KeptView DEF CheckoutFails
<1>6. CASE PlanFails \/ PrepareFails
  BY <1>h, <1>6 DEF PlanFails, PrepareFails
<1>7. CASE \/ WatchUnhealthy \/ WatchFails \/ TeardownFails
           \/ \E s \in Stacks : UpFails(s)
  BY <1>7, <1>i, <1>j DEF WatchUnhealthy, WatchFails, TeardownFails, UpFails
<1>8. CASE PromoteHealthy
  <2> DEFINE promoted == Promoted(st, run.new, StacksAt(head))
  <2>1. SaveAndReturn(promoted, 0) BY <1>8 DEF PromoteHealthy
  <2>2. /\ ~Pending(promoted) /\ ~Degraded(promoted)
        /\ promoted.lastHealthyCommit = run.new
        /\ \A d : ~IsKnownBad(promoted, d)
    BY <1>0, PromotedRecord
  <2> HIDE DEF promoted
  <2>3. disk' = promoted => AbstractStep BY <1>0, <1>b, <1>c, <1>d, <2>2, PromoteView
  <2> QED BY <2>1, <2>3, SaveAndReturnLifecycle
<1> QED BY <1>1, <1>2, <1>3, <1>4, <1>5, <1>6, <1>7, <1>8 DEF ApplyStep

\* doRevert settles on the target, gives up, or leaves the revert pending.
LEMMA RevertLifecycle ==
    ASSUME TypeOK, DaemonInv, LifecycleInv, RevertStep
    PROVE  LifecycleInv' /\ AbstractStep
<1> DEFINE c == run.failed
<1>0. st \in State /\ disk \in State /\ run \in Run /\ c \in CommitOrNone
  BY DEF TypeOK, Run
<1>a. pc \in RevertSteps
  BY DEF RevertStep, RevertNoTarget, RevertCheckout, RevertCheckoutFails, RevertClear,
         RevertClearFails, RevertLoad, RevertLoadFails, RevertUp, RevertUpFails,
         RevertWatchHealthy, RevertWatchUnhealthy, RevertWatchFails, RevertSettle, RevertSteps
<1>b. /\ ~Degraded(disk) /\ c = disk.pendingCommit /\ Learnt(disk, st, c)
      /\ st.lastHealthyCommit = disk.lastHealthyCommit
  BY <1>a DEF DaemonInv, LifecycleInv, RevertSteps
<1>c. (pc = "revert" => RevertTarget # None) => disk.lastHealthyCommit # None
  BY <1>a, <1>b DEF LifecycleInv, RevertTarget
<1> HIDE DEF c
<1>d. disk' = GivenUp(st, c) => AbstractStep
  BY <1>0, <1>b, GivenUpRecord, LearntTwice, GiveUpView
<1>e. disk.lastHealthyCommit # None /\ disk' = Reverted(st, c) => AbstractStep
  BY <1>0, <1>b, RevertedRecord, LearntTwice, SettleView
<1>f. ASSUME disk.lastHealthyCommit # None, disk' = Interrupted(st, c, run.stacks)
      PROVE  AbstractStep
  <2> DEFINE i == Interrupted(st, c, run.stacks)
  <2>1. /\ i.pendingCommit = c /\ RevertInProgress(i) /\ ~Degraded(i)
        /\ i.lastHealthyCommit = disk.lastHealthyCommit
        /\ Learnt(st, i, c)
        /\ c # None => IsKnownBad(i, c)
    BY <1>0, <1>b, InterruptedRecord
  <2> HIDE DEF i
  <2>2. Learnt(disk, i, c) BY <1>b, <2>1, LearntTwice
  <2>3. disk' = i BY <1>f DEF i
  <2>4. CASE c = None BY <1>0, <1>b, <1>f, <2>1, <2>2, <2>3, <2>4, RestoreView
  <2>5. CASE c # None
    <3>1. c \in Commits BY <1>0, <2>5 DEF CommitOrNone
    <3>2. \A d : IsKnownBad(i, d) => d = c \/ IsKnownBad(disk, d) BY <2>2 DEF Learnt
    <3> QED BY <1>0, <1>b, <2>1, <2>3, <2>5, <3>1, <3>2, CondemnView
  <2> QED BY <2>4, <2>5
<1>g. ASSUME NEW k, RevertFailed(k) \/ RevertInterrupted(k), disk.lastHealthyCommit # None
      PROVE  LifecycleInv' /\ AbstractStep
  BY <1>d, <1>f, <1>g, SaveAndReturnLifecycle DEF RevertFailed, RevertInterrupted, c
<1>1. CASE RevertNoTarget \/ RevertWatchUnhealthy
  BY <1>1, <1>d, SaveAndReturnLifecycle DEF RevertNoTarget, RevertWatchUnhealthy, c
<1>2. CASE RevertSettle
  BY <1>2, <1>c, <1>e, SaveAndReturnLifecycle DEF RevertSettle, c
<1>3. CASE \/ RevertCheckoutFails \/ RevertClearFails \/ RevertLoadFails \/ RevertWatchFails
           \/ \E s \in Stacks : RevertUpFails(s)
  BY <1>3, <1>c, <1>g DEF RevertCheckoutFails, RevertClearFails, RevertLoadFails,
                          RevertWatchFails, RevertUpFails
<1>4. CASE RevertCheckout
  <2>1. /\ st' = [st EXCEPT !.lastCheckoutCommit = RevertTarget]
        /\ disk' = disk /\ run' = run /\ pc = "revert" /\ pc' = "clear" /\ RevertTarget # None
    BY <1>4 DEF RevertCheckout, Goto
  <2>2. /\ st'.lastHealthyCommit = st.lastHealthyCommit
        /\ st'.pendingCommit = st.pendingCommit
        /\ st'.pendingRevert = st.pendingRevert
        /\ st'.lastFailedCommit = st.lastFailedCommit
        /\ st'.failedCommits = st.failedCommits
    BY <1>0, <2>1 DEF State
  <2>3. \A d : IsKnownBad(st', d) <=> IsKnownBad(st, d) BY <2>2, SameFailed
  <2>4. Learnt(disk', st', run'.failed) BY <1>b, <2>1, <2>3 DEF Learnt, c
  <2>5. Learnt(disk, st, run.failed)' BY <2>4 DEF Learnt, IsKnownBad, Remembered
  <2>6. LifecycleInv'
    BY <1>b, <2>1, <2>2, <2>5 DEF LifecycleInv, RevertSteps, RevertTarget, c
  <2> QED BY <2>1, <2>6, KeptView
<1>5. CASE \/ RevertClear \/ RevertLoad \/ RevertWatchHealthy \/ \E s \in Stacks : RevertUp(s)
  <2>1. run'.failed = run.failed
    BY <1>0, <1>5 DEF RevertClear, RevertLoad, RevertWatchHealthy, RevertUp, Run
  <2>2. /\ pc \in RevertSteps \ {"revert"} /\ pc' \in RevertSteps \ {"revert"}
        /\ UNCHANGED <<disk, st>>
    BY <1>5 DEF RevertClear, RevertLoad, RevertWatchHealthy, RevertUp, Goto, RevertSteps
  <2> QED BY <2>1, <2>2, MoveOnLifecycle DEF RevertSteps
<1> QED BY <1>1, <1>2, <1>3, <1>4, <1>5 DEF RevertStep

-----------------------------------------------------------------------------
(* The theorem. *)

LEMMA InitLifecycle == Init => LifecycleInv /\ Abstract!LifecycleInit
<1> SUFFICES ASSUME Init PROVE LifecycleInv /\ Abstract!LifecycleInit OBVIOUS
<1>1. pc = "idle" /\ disk = New /\ st = New BY DEF Init
<1>2. LifecycleInv BY <1>1 DEF LifecycleInv, RevertSteps
<1>3. /\ New.lastHealthyCommit = None /\ New.pendingCommit = None /\ New.pendingRevert = FALSE
      /\ New.lastResult = "" /\ New.lastFailedCommit = None /\ New.failedCommits = <<>>
  BY DEF New
<1>4. PhaseOf(New) = "settled" BY <1>3 DEF PhaseOf, Degraded, RevertInProgress
<1>5. ASSUME NEW s, s.failedCommits = <<>> PROVE Remembered(s) = {}
  <2>1. Len(<<>>) = 0 OBVIOUS
  <2> QED BY <1>5, <2>1 DEF Remembered
<1>6. Remembered(New) = {} BY <1>3, <1>5
<1>7. KnownBad(New) = {} BY <1>3, <1>6 DEF KnownBad, IsKnownBad
<1> QED BY <1>1, <1>2, <1>3, <1>4, <1>7 DEF Abstract!LifecycleInit

\* Every step of a daemon keeps the invariant and is one of the lifecycle, or none.
LEMMA LifecycleStep ==
    ASSUME Unforced, TypeOK, CommitKnown, DaemonInv, LifecycleInv, [Next]_vars
    PROVE  LifecycleInv' /\ AbstractStep
<1>1. CASE Next
  BY <1>1, EnvironmentLifecycle, NormalLifecycle, RecoveryLifecycle, ApplyLifecycle,
     RevertLifecycle, BeginLifecycle DEF Next, CodeStep
<1>2. CASE UNCHANGED vars
  BY <1>2, MoveOnLifecycle DEF vars
<1> QED BY <1>1, <1>2

\* LifecycleInv holds throughout when no run is forced.
LEMMA LifecycleInvariant == ASSUME Unforced PROVE Spec => []LifecycleInv
<1>1. Init => LifecycleInv BY InitLifecycle
<1>2. TypeOK /\ CommitKnown /\ DaemonInv /\ LifecycleInv /\ [Next]_vars => LifecycleInv'
  BY LifecycleStep
<1> QED BY <1>1, <1>2, TypesAndCommits, DaemonInvariant, PTL DEF Spec

\* The state file of a daemon moves only as the lifecycle allows: every step of
\* every run, wherever it crashes, is interrupted or fails to save, is one step
\* of the lifecycle or none.
THEOREM LifecycleImplemented == ASSUME Unforced PROVE Spec => ImplementsLifecycle
<1>1. Init => LifecycleInv /\ Abstract!LifecycleInit BY InitLifecycle
<1>2. TypeOK /\ CommitKnown /\ DaemonInv /\ LifecycleInv /\ [Next]_vars
        => LifecycleInv' /\ [Abstract!LifecycleNext]_(Abstract!lifecycleVars)
  BY LifecycleStep DEF AbstractStep
<1> QED BY <1>1, <1>2, TypesAndCommits, DaemonInvariant, PTL
        DEF Spec, ImplementsLifecycle, Abstract!LifecycleSpec

-----------------------------------------------------------------------------
(* What Docker runs between the runs of a compose_file deployment. *)

\* A record in which every stack is named where some are.
Whole(s) ==
    /\ s.lastHealthyCommit # None => s.lastHealthyStacks = Stacks
    /\ Pending(s) => s.pendingStacks = Stacks

\* A record at rest whose rollback target is where HEAD is meant to be.
OnTarget(s) ==
    s.lastHealthyCommit # None /\ ~Pending(s) /\ ~Degraded(s) =>
        s.lastCheckoutCommit \in {None, s.lastHealthyCommit}

SoundRecord(s) == Whole(s) /\ (EveryCommitMatters => OnTarget(s))

\* With record s at rest, Docker runs its rollback target.
Deployed(s, running) ==
    s.lastHealthyCommit # None /\ ~Pending(s) /\ ~Degraded(s) =>
        \A x \in Stacks : running[x] \in {s.lastHealthyCommit, Torn}

TargetInv ==
    /\ SoundRecord(disk) /\ SoundRecord(st)
    /\ Deployed(disk, dock)
    /\ pc \in {"checkout", "plan"} => run.pending \in {{}, Stacks}
    /\ pc \in {"sweep", "prepare", "pend", "up", "watch", "teardown", "promote"} =>
           run.stacks = Stacks /\ run.vanished = {}
    /\ pc \in {"sweep"} => Stacks = {}
    /\ pc \in {"prepare", "pend"} => run.todo = Stacks
    /\ pc = "up" => \A s \in Stacks \ run.todo : dock[s] = run.new
    /\ pc \in {"watch", "teardown", "promote"} => \A s \in Stacks : dock[s] = run.new
    /\ pc \in RevertSteps /\ st.lastHealthyCommit # None => run.stacks = Stacks
    /\ pc = "reup" => \A s \in Stacks \ run.todo : dock[s] = st.lastHealthyCommit
    /\ pc \in {"rewatch", "settle"} => \A s \in Stacks : dock[s] = st.lastHealthyCommit
    /\ EveryCommitMatters => pc \notin {"advance", "record"}

\* The part of the record this is about.
Slots(s) == <<s.lastHealthyCommit, s.lastHealthyStacks, s.pendingCommit, s.pendingRevert,
              s.pendingStacks, s.lastCheckoutCommit>>

\* Records that agree on it are as sound as each other.
LEMMA SlotsDecide ==
    ASSUME NEW s \in State, NEW t \in State, Slots(t) = Slots(s), ~Degraded(s), SoundRecord(s)
    PROVE  /\ SoundRecord(t)
           /\ t.lastHealthyCommit = s.lastHealthyCommit
           /\ Pending(t) <=> Pending(s)
<1>1. /\ t.lastHealthyCommit = s.lastHealthyCommit
      /\ t.lastHealthyStacks = s.lastHealthyStacks
      /\ t.pendingCommit = s.pendingCommit
      /\ t.pendingRevert = s.pendingRevert
      /\ t.pendingStacks = s.pendingStacks
      /\ t.lastCheckoutCommit = s.lastCheckoutCommit
  BY DEF Slots
<1>2. Pending(t) <=> Pending(s) BY <1>1 DEF Pending
<1>3. Whole(t) BY <1>1, <1>2 DEF SoundRecord, Whole
<1>4. EveryCommitMatters => OnTarget(t) BY <1>1, <1>2 DEF SoundRecord, OnTarget
<1> QED BY <1>1, <1>2, <1>3, <1>4 DEF SoundRecord

\* The updates that leave it alone.
LEMMA SlotsKept ==
    ASSUME NEW s \in State
    PROVE  /\ \A r : Slots(WithOutcome(s, r)) = Slots(s)
           /\ Slots(WithAttempt(s)) = Slots(s)
           /\ \A n : Slots([s EXCEPT !.preflightBlocks = n]) = Slots(s)
           /\ \A c : Slots(MarkFailed(s, c)) = Slots(s)
<1>1. \A r : Slots(WithOutcome(s, r)) = Slots(s) BY DEF Slots, WithOutcome, State
<1>2. Slots(WithAttempt(s)) = Slots(s) BY DEF Slots, WithAttempt, State
<1>3. \A n : Slots([s EXCEPT !.preflightBlocks = n]) = Slots(s) BY DEF Slots, State
<1>4. ASSUME NEW c, NEW list
      PROVE  Slots([s EXCEPT !.lastFailedCommit = c, !.failedCommits = list]) = Slots(s)
  BY DEF Slots, State
<1>5. ASSUME NEW c PROVE Slots([s EXCEPT !.lastFailedCommit = c]) = Slots(s)
  BY DEF Slots, State
<1>6. ASSUME NEW c PROVE Slots(MarkFailed(s, c)) = Slots(s)
  BY <1>4, <1>5 DEF MarkFailed
<1> QED BY <1>1, <1>2, <1>3, <1>6

\* Every commit has every stack in compose_file mode.
LEMMA OneFileStacks == ASSUME SingleFile, NEW c \in Commits PROVE StacksAt(c) = Stacks
BY ReconcileAssumption DEF StacksAt

\* A record at rest that Docker follows, and another with the same target.
LEMMA DeployedKept ==
    ASSUME NEW s, NEW t, NEW running, Deployed(s, running), ~Degraded(s),
           t.lastHealthyCommit = s.lastHealthyCommit, Pending(s) => Pending(t)
    PROVE  Deployed(t, running)
BY DEF Deployed

\* The records that end a run, or its way forward.
LEMMA SoundUpdates ==
    ASSUME SingleFile, NEW s \in State, SoundRecord(s), NEW c \in CommitOrNone
    PROVE  /\ SoundRecord(GivenUp(s, c)) /\ Degraded(GivenUp(s, c))
           /\ SoundRecord(Reverted(s, c))
           /\ Reverted(s, c).lastHealthyCommit = s.lastHealthyCommit
           /\ SoundRecord(Promoted(s, c, Stacks)) /\ Promoted(s, c, Stacks).lastHealthyCommit = c
           /\ SoundRecord(Interrupted(s, c, Stacks)) /\ Pending(Interrupted(s, c, Stacks))
           /\ c # None => SoundRecord(WithPending(s, c, Stacks)) /\ Pending(WithPending(s, c, Stacks))
<1>1. ASSUME NEW t \in State
      PROVE  /\ ClearPending(t) \in State /\ ~Pending(ClearPending(t))
             /\ ClearPending(t).lastHealthyCommit = t.lastHealthyCommit
             /\ ClearPending(t).lastHealthyStacks = t.lastHealthyStacks
  BY <1>1, UpdateTypes DEF ClearPending, Pending, State
<1> DEFINE failed == IF c = None THEN s ELSE MarkFailed(s, c)
<1>2. failed \in State /\ Slots(failed) = Slots(s) BY MarkFailedType, SlotsKept
<1>3. /\ failed.lastHealthyCommit = s.lastHealthyCommit
      /\ failed.lastHealthyStacks = s.lastHealthyStacks
      /\ failed.pendingStacks = s.pendingStacks
  BY <1>2 DEF Slots
<1>4. SoundRecord(GivenUp(s, c)) /\ Degraded(GivenUp(s, c))
  <2>1. GivenUp(s, c) = [ClearPending(failed) EXCEPT !.lastResult = "degraded"] BY DEF GivenUp
  <2> HIDE DEF failed
  <2>2. /\ ~Pending(GivenUp(s, c)) /\ Degraded(GivenUp(s, c))
        /\ GivenUp(s, c).lastHealthyCommit = s.lastHealthyCommit
        /\ GivenUp(s, c).lastHealthyStacks = s.lastHealthyStacks
    BY <1>1, <1>2, <1>3, <2>1 DEF Pending, Degraded, State
  <2> QED BY <2>2 DEF SoundRecord, Whole, OnTarget
<1>5. /\ SoundRecord(Reverted(s, c))
      /\ Reverted(s, c).lastHealthyCommit = s.lastHealthyCommit
  <2>1. /\ ~Pending(Reverted(s, c))
        /\ Reverted(s, c).lastHealthyCommit = s.lastHealthyCommit
        /\ Reverted(s, c).lastHealthyStacks = s.lastHealthyStacks
        /\ Reverted(s, c).lastCheckoutCommit = s.lastHealthyCommit
    BY <1>1 DEF Reverted, Pending, State
  <2> QED BY <2>1 DEF SoundRecord, Whole, OnTarget
<1>6. SoundRecord(Promoted(s, c, Stacks)) /\ Promoted(s, c, Stacks).lastHealthyCommit = c
  <2>1. /\ ~Pending(Promoted(s, c, Stacks))
        /\ Promoted(s, c, Stacks).lastHealthyCommit = c
        /\ Promoted(s, c, Stacks).lastHealthyStacks = Stacks
        /\ Promoted(s, c, Stacks).lastCheckoutCommit = c
    BY <1>1 DEF Promoted, Pending, State
  <2> QED BY <2>1 DEF SoundRecord, Whole, OnTarget
<1>7. SoundRecord(Interrupted(s, c, Stacks)) /\ Pending(Interrupted(s, c, Stacks))
  <2> DEFINE i == Interrupted(s, c, Stacks)
  <2>1. i = [failed EXCEPT !.pendingRevert = TRUE,
                           !.pendingCommit = c,
                           !.pendingStacks = IF Stacks # {} THEN Stacks ELSE @,
                           !.pendingSince  = TRUE,
                           !.lastResult    = "failed_apply"]
    BY DEF Interrupted
  <2> HIDE DEF failed, i
  <2>2. /\ i.pendingRevert /\ i.lastHealthyCommit = s.lastHealthyCommit
        /\ i.lastHealthyStacks = s.lastHealthyStacks
        /\ i.pendingStacks = IF Stacks # {} THEN Stacks ELSE failed.pendingStacks
    BY <1>2, <1>3, <2>1 DEF State
  <2>3. i.pendingStacks = Stacks BY <1>2, <2>2 DEF State
  <2>4. Pending(i) BY <2>2 DEF Pending
  <2> QED BY <2>2, <2>3, <2>4 DEF SoundRecord, Whole, OnTarget, i
<1>8. ASSUME c # None
      PROVE  SoundRecord(WithPending(s, c, Stacks)) /\ Pending(WithPending(s, c, Stacks))
  <2>1. /\ WithPending(s, c, Stacks).pendingCommit = c
        /\ WithPending(s, c, Stacks).pendingStacks = Stacks
        /\ WithPending(s, c, Stacks).lastHealthyCommit = s.lastHealthyCommit
        /\ WithPending(s, c, Stacks).lastHealthyStacks = s.lastHealthyStacks
    BY DEF WithPending, State
  <2>2. Pending(WithPending(s, c, Stacks)) BY <1>8, <2>1 DEF Pending
  <2> QED BY <2>1, <2>2 DEF SoundRecord, Whole, OnTarget
<1> QED BY <1>4, <1>5, <1>6, <1>7, <1>8

\* Whatever is on disk when a run returns, this is all that is needed.
LEMMA ReturnTarget ==
    ASSUME NEW k, Return(k), SoundRecord(disk'), Deployed(disk', dock')
    PROVE  TargetInv'
BY DEF Return, TargetInv, SoundRecord, Whole, OnTarget, Deployed, Pending, Degraded, RevertSteps

\* ... also after a last save.
LEMMA SaveAndReturnTarget ==
    ASSUME TargetInv, NEW k, NEW next, SaveAndReturn(next, k),
           SoundRecord(next), Deployed(next, dock'), Deployed(disk, dock')
    PROVE  TargetInv'
<1>1. CASE disk' = next /\ Return(k) BY <1>1, ReturnTarget
<1>2. CASE disk' = disk /\ Return(k + 1) BY <1>2, ReturnTarget DEF TargetInv
<1> QED BY <1>1, <1>2 DEF SaveAndReturn

\* A record made from the run's copy without touching the slots is sound, and
\* Docker follows it if it followed the one on disk.
LEMMA CopyTarget ==
    ASSUME TypeOK, LifecycleInv, TargetInv, ~Degraded(disk), ~Degraded(st),
           NEW next \in State, Slots(next) = Slots(st)
    PROVE  SoundRecord(next) /\ Deployed(next, dock)
<1>1. st \in State /\ disk \in State /\ SoundRecord(st) /\ Deployed(disk, dock)
  BY DEF TypeOK, TargetInv
<1>2. /\ SoundRecord(next) /\ next.lastHealthyCommit = st.lastHealthyCommit
      /\ Pending(next) <=> Pending(st)
  BY <1>1, SlotsDecide
<1>3. next.lastHealthyCommit = disk.lastHealthyCommit /\ (Pending(next) <=> Pending(disk))
  BY <1>2 DEF LifecycleInv, Pending
<1> QED BY <1>1, <1>2, <1>3, DeployedKept

\* An abort before the first compose up.
LEMMA AbortTarget ==
    ASSUME NEW k, NEW s, NEW left, AbortBeforeUp(s, left, k), dock' = dock,
           SoundRecord(left), Deployed(left, dock),
           SoundRecord(WithOutcome(s, "failed_apply")),
           Deployed(WithOutcome(s, "failed_apply"), dock)
    PROVE  TargetInv'
<1>1. PICK n : Return(n) /\ (disk' = left \/ disk' = WithOutcome(s, "failed_apply"))
  BY DEF AbortBeforeUp
<1> QED BY <1>1, ReturnTarget

\* The environment: a crash takes nothing down here, and tears at most a stack.
LEMMA EnvironmentTarget ==
    ASSUME SingleFile, TypeOK, LifecycleInv, TargetInv, Environment
    PROVE  TargetInv'
<1>1. CASE Push \/ Shutdown
  <2>1. UNCHANGED <<disk, st, run, pc, dock>> BY <1>1 DEF Push, Shutdown
  <2> QED BY <2>1 DEF TargetInv, SoundRecord, Whole, OnTarget, Deployed, Pending, Degraded, RevertSteps
<1>2. CASE Pause \/ Resume
  <2>1. /\ disk \in State /\ disk' \in State /\ st' = disk' /\ pc' = "idle" /\ dock' = dock
        /\ Slots(disk') = Slots(disk) /\ disk'.lastResult = disk.lastResult
    BY <1>2 DEF TypeOK, Pause, Resume, State, Slots
  <2>2. SoundRecord(disk) /\ Deployed(disk, dock) BY DEF TargetInv
  <2>3. /\ disk'.lastHealthyCommit = disk.lastHealthyCommit
        /\ disk'.lastHealthyStacks = disk.lastHealthyStacks
        /\ disk'.pendingCommit = disk.pendingCommit
        /\ disk'.pendingRevert = disk.pendingRevert
        /\ disk'.pendingStacks = disk.pendingStacks
        /\ disk'.lastCheckoutCommit = disk.lastCheckoutCommit
    BY <2>1 DEF Slots
  <2>4. SoundRecord(disk') /\ Deployed(disk', dock)
    BY <2>1, <2>2, <2>3 DEF SoundRecord, Whole, OnTarget, Deployed, Pending, Degraded
  <2> QED BY <2>1, <2>4 DEF TargetInv, SoundRecord, Whole, OnTarget, Deployed, Pending, Degraded,
             RevertSteps
<1>3. CASE Crash
  <2>1. PICK down \in SUBSET BeingRemoved, torn \in BeingPutUp :
          dock' = [s \in Stacks |-> IF s \in down THEN None
                                    ELSE IF s \in torn THEN Torn ELSE dock[s]]
    BY <1>3 DEF Crash
  <2>2. BeingRemoved = {}
    <3>1. pc \in {"sweep", "teardown"} => run.vanished = {} BY DEF TargetInv
    <3>2. pc = "clear" => run.stacks \ StacksAt(head) = {}
      <4>1. head \in Commits /\ run \in Run BY DEF TypeOK
      <4>2. StacksAt(head) = Stacks BY <4>1, OneFileStacks
      <4> QED BY <4>1, <4>2 DEF Run
    <3> QED BY <3>1, <3>2 DEF BeingRemoved
  <2>3. \A s \in Stacks : dock'[s] \in {dock[s], Torn} BY <2>1, <2>2
  <2>4. Deployed(disk, dock') BY <2>3 DEF TargetInv, Deployed
  <2>5. disk' = disk /\ Return(1) BY <1>3 DEF Crash
  <2> QED BY <2>4, <2>5, ReturnTarget DEF TargetInv
<1> QED BY <1>1, <1>2, <1>3 DEF Environment

\* Starting a run.
LEMMA BeginTarget ==
    ASSUME TargetInv, NEW mode, Begin(mode)
    PROVE  TargetInv'
<1>1. /\ st' = disk /\ disk' = disk /\ dock' = dock
      /\ pc' \in {"recover", "fetch"}
  BY DEF Begin, Goto
<1> QED BY <1>1 DEF TargetInv, SoundRecord, Whole, OnTarget, Deployed, Pending, Degraded, RevertSteps

\* runNormal leaves Docker alone.
LEMMA NormalTarget ==
    ASSUME SingleFile, TypeOK, DaemonInv, LifecycleInv, TargetInv, NormalStep
    PROVE  TargetInv'
<1>0. /\ st \in State /\ disk \in State /\ run \in Run /\ head \in Commits /\ remote \in Commits
      /\ SoundRecord(st) /\ SoundRecord(disk) /\ Deployed(disk, dock)
  BY DEF TypeOK, TargetInv
<1>a. pc \in {"fetch", "gate", "advance", "record"} /\ dock' = dock
  BY DEF NormalStep, FetchFails, NothingToDo, SkipKnownBad, SkipOutsideWindow, ReapplyDrifted,
         SkipIrrelevant, ConsiderChange, AdvanceCheckout, AdvanceFails, RecordCheckout, GateFails,
         DryRunReports, GatePasses, GateBlocks, GateGivesUp, Eligible, Fetched
<1>b. ~Degraded(disk) /\ ~Degraded(st) BY <1>a DEF DaemonInv
<1>c. ASSUME NEW r \in Results
      PROVE  SoundRecord(WithOutcome(st, r)) /\ Deployed(WithOutcome(st, r), dock)
  <2>1. WithOutcome(st, r) \in State /\ Slots(WithOutcome(st, r)) = Slots(st)
    BY <1>0, UpdateTypes, SlotsKept
  <2> QED BY <1>b, <2>1, CopyTarget
<1>d. ASSUME NEW k, disk' = disk, Return(k) PROVE TargetInv'
  BY <1>0, <1>a, <1>d, ReturnTarget
<1>1. CASE FetchFails \/ SkipKnownBad \/ GateFails
  <2>1. ASSUME NEW k, NEW r \in Results, SaveAndReturn(WithOutcome(st, r), k) PROVE TargetInv'
    BY <1>0, <1>a, <1>c, <2>1, SaveAndReturnTarget
  <2>2. "failed_git" \in Results /\ "skipped_known_bad" \in Results /\ "failed_preflight" \in Results
    BY DEF Results
  <2> QED BY <1>1, <1>d, <2>1, <2>2 DEF FetchFails, SkipKnownBad, GateFails
<1>2. CASE NothingToDo \/ SkipOutsideWindow \/ DryRunReports
  BY <1>2, <1>d DEF NothingToDo, SkipOutsideWindow, DryRunReports
<1>3. CASE ReapplyDrifted \/ ConsiderChange
  <2>1. pc' = "gate" /\ UNCHANGED <<disk, st>> BY <1>3 DEF ReapplyDrifted, ConsiderChange, Goto
  <2> QED BY <1>a, <2>1 DEF TargetInv, SoundRecord, Whole, OnTarget, Deployed, Pending, Degraded,
             RevertSteps
<1>4. CASE SkipIrrelevant
  <2>1. pc' = "advance" /\ UNCHANGED <<disk, st>> BY <1>4 DEF SkipIrrelevant, Goto
  <2>2. ~EveryCommitMatters BY <1>0, <1>4 DEF SkipIrrelevant, EveryCommitMatters
  <2> QED BY <1>a, <2>1, <2>2 DEF TargetInv, SoundRecord, Whole, OnTarget, Deployed, Pending,
             Degraded, RevertSteps
<1>5. CASE AdvanceCheckout
  <2>1. pc = "advance" /\ pc' = "record" /\ UNCHANGED <<disk, st>> BY <1>5 DEF AdvanceCheckout, Goto
  <2> QED BY <1>a, <2>1 DEF TargetInv, SoundRecord, Whole, OnTarget, Deployed, Pending, Degraded,
             RevertSteps
<1>6. CASE AdvanceFails
  BY <1>0, <1>6, <1>a, <1>c, AbortTarget DEF AdvanceFails, Results
<1>7. CASE RecordCheckout
  <2> DEFINE next == WithCheckout(st, run.new)
  <2>1. /\ next.lastHealthyCommit = st.lastHealthyCommit
        /\ next.lastHealthyStacks = st.lastHealthyStacks
        /\ next.pendingCommit = st.pendingCommit
        /\ next.pendingRevert = st.pendingRevert
        /\ next.pendingStacks = st.pendingStacks
    BY <1>0 DEF WithCheckout, State
  <2>2. SaveAndReturn(next, 0) /\ pc = "record" BY <1>7 DEF RecordCheckout
  <2> HIDE DEF next
  <2>3. Whole(next) BY <1>0, <2>1 DEF SoundRecord, Whole, Pending
  <2>4. ~EveryCommitMatters BY <2>2 DEF TargetInv
  <2>5. Deployed(next, dock)
    <3>1. next.lastHealthyCommit = disk.lastHealthyCommit /\ (Pending(next) <=> Pending(disk))
      BY <2>1 DEF LifecycleInv, Pending
    <3> QED BY <1>0, <1>b, <3>1, DeployedKept
  <2> QED BY <1>0, <1>a, <2>2, <2>3, <2>4, <2>5, SaveAndReturnTarget DEF SoundRecord
<1>8. ASSUME NEW n \in Nat
      PROVE  /\ SoundRecord([st EXCEPT !.preflightBlocks = n])
             /\ Deployed([st EXCEPT !.preflightBlocks = n], dock)
             /\ [st EXCEPT !.preflightBlocks = n].lastHealthyCommit = st.lastHealthyCommit
  <2> DEFINE next == [st EXCEPT !.preflightBlocks = n]
  <2>1. next \in State BY <1>0 DEF State
  <2>2. Slots(next) = Slots(st) BY <1>0, SlotsKept
  <2> QED BY <1>b, <2>1, <2>2, CopyTarget DEF Slots
<1>9. CASE GatePasses
  <2> DEFINE next == [st EXCEPT !.preflightBlocks = 0]
  <2>1. SoundRecord(next) /\ Deployed(next, dock) BY <1>8
  <2>2. disk' \in {disk, next} /\ st' \in {st, next} /\ pc' = "checkout"
    BY <1>9 DEF GatePasses, SaveAndGoto, Goto
  <2>3. run'.pending = {} BY <1>0, <1>9 DEF GatePasses, Run
  <2> HIDE DEF next
  <2>4. SoundRecord(disk') /\ SoundRecord(st') /\ Deployed(disk', dock') BY <1>0, <1>a, <2>1, <2>2
  <2> QED BY <2>2, <2>3, <2>4 DEF TargetInv, SoundRecord, Whole, OnTarget, Deployed, Pending,
             Degraded, RevertSteps
<1>10. CASE GateBlocks
  <2> DEFINE before == [st EXCEPT !.preflightBlocks = BlockedSoFar]
             next   == [st EXCEPT !.preflightBlocks = BlockedSoFar + 1]
  <2>1. BlockedSoFar \in Nat /\ BlockedSoFar + 1 \in Nat BY <1>0 DEF State, BlockedSoFar
  <2>2. /\ SoundRecord(next) /\ Deployed(next, dock) /\ SoundRecord(before)
        /\ next.lastHealthyCommit = st.lastHealthyCommit
        /\ before.lastHealthyCommit = st.lastHealthyCommit
    BY <1>8, <2>1
  <2>3. /\ disk' \in {disk, next} /\ st' \in {before, next} /\ pc' = "revert"
        /\ \E g \in GateStacks : run' = [run EXCEPT !.stacks = g[1], !.failed = None]
    BY <1>10 DEF GateBlocks, SaveAndGoto, Goto
  <2>4. run'.stacks \in {StacksAt(head), st.lastHealthyStacks}
    BY <1>0, <2>3 DEF GateStacks, Run
  <2>5. st.lastHealthyCommit # None => run'.stacks = Stacks
    BY <1>0, <2>4, OneFileStacks DEF SoundRecord, Whole
  <2> HIDE DEF before, next
  <2>6. SoundRecord(disk') /\ SoundRecord(st') /\ Deployed(disk', dock') BY <1>0, <1>a, <2>2, <2>3
  <2>7. st'.lastHealthyCommit # None => run'.stacks = Stacks BY <2>2, <2>3, <2>5
  <2> QED BY <2>3, <2>6, <2>7 DEF TargetInv, SoundRecord, Whole, OnTarget, Deployed, Pending,
             Degraded, RevertSteps
<1>11. CASE GateGivesUp
  <2>1. SaveAndReturn(GivenUp(st, None), 1) BY <1>11 DEF GateGivesUp
  <2>2. SoundRecord(GivenUp(st, None)) /\ Degraded(GivenUp(st, None))
    BY <1>0, SoundUpdates DEF CommitOrNone
  <2>3. Deployed(GivenUp(st, None), dock) BY <2>2 DEF Deployed
  <2> QED BY <1>0, <1>a, <2>1, <2>2, <2>3, SaveAndReturnTarget
<1> QED BY <1>1, <1>2, <1>3, <1>4, <1>5, <1>6, <1>7, <1>9, <1>10, <1>11 DEF NormalStep

\* recoverFromCrash leaves Docker alone too, and resumes with every stack.
LEMMA RecoveryTarget ==
    ASSUME SingleFile, TypeOK, DaemonInv, LifecycleInv, TargetInv, RecoveryStep
    PROVE  TargetInv'
<1>0. /\ st \in State /\ disk \in State /\ run \in Run /\ head \in Commits
      /\ SoundRecord(st) /\ SoundRecord(disk) /\ Deployed(disk, dock)
      /\ st.pendingCommit \in CommitOrNone
  BY DEF TypeOK, TargetInv, State
<1>a. pc \in {"recover", "resolve"} /\ dock' = dock
  BY DEF RecoveryStep, RecoverFetch, RecoverGivesUp, RecoverFails, RecoverResumesRevert,
         RecoverUnhealthy, RecoverReapplies
<1>b. ~Degraded(disk) /\ ~Degraded(st) /\ ~run.force BY <1>a DEF DaemonInv
<1> DEFINE next == WithAttempt(st)
<1>c. next \in State /\ Slots(next) = Slots(st) BY <1>0, UpdateTypes, SlotsKept
<1>d. SoundRecord(next) /\ Deployed(next, dock) BY <1>b, <1>c, CopyTarget
<1> HIDE DEF next
<1>e. st.pendingStacks = Stacks BY <1>0, <1>a DEF SoundRecord, Whole, LifecycleInv, Pending
<1>1. CASE RecoverFetch
  <2>1. pc' = "resolve" /\ disk' = disk /\ st' = st BY <1>1, <1>b DEF RecoverFetch, Goto
  <2> QED BY <1>a, <2>1 DEF TargetInv, SoundRecord, Whole, OnTarget, Deployed, Pending, Degraded,
             RevertSteps
<1>2. CASE RecoverGivesUp
  <2>1. PICK k : SaveAndReturn(GivenUp(st, st.pendingCommit), k) BY <1>2 DEF RecoverGivesUp
  <2>2. SoundRecord(GivenUp(st, st.pendingCommit)) /\ Degraded(GivenUp(st, st.pendingCommit))
    BY <1>0, SoundUpdates
  <2>3. Deployed(GivenUp(st, st.pendingCommit), dock) BY <2>2 DEF Deployed
  <2> QED BY <1>0, <1>a, <2>1, <2>2, <2>3, SaveAndReturnTarget
<1>3. CASE RecoverFails
  <2>1. PICK k : Return(k) /\ (disk' = disk \/ disk' = next) BY <1>3 DEF RecoverFails, next
  <2> QED BY <1>0, <1>a, <1>d, <2>1, ReturnTarget
<1>4. CASE RecoverResumesRevert \/ RecoverUnhealthy
  <2>1. pc' = "revert" /\ disk' = next /\ st' = next
    BY <1>4 DEF RecoverResumesRevert, RecoverUnhealthy, RevertPending, SaveAndGoto, Goto, next
  <2>2. run'.stacks = RestrictToNames(StacksAt(head), st.pendingStacks)
    BY <1>0, <1>4 DEF RecoverResumesRevert, RecoverUnhealthy, RevertPending, Run
  <2>3. run'.stacks = Stacks BY <1>0, <1>e, <2>2, OneFileStacks DEF RestrictToNames
  <2> QED BY <1>a, <1>d, <2>1, <2>3 DEF TargetInv, SoundRecord, Whole, OnTarget, Deployed, Pending,
             Degraded, RevertSteps
<1>5. CASE RecoverReapplies
  <2>1. pc' = "checkout" /\ disk' = next /\ st' = next
    BY <1>5 DEF RecoverReapplies, SaveAndGoto, Goto, next
  <2>2. run'.pending \in {{}, Stacks}
    BY <1>0, <1>5, <1>e DEF RecoverReapplies, Run
  <2> QED BY <1>a, <1>d, <2>1, <2>2 DEF TargetInv, SoundRecord, Whole, OnTarget, Deployed, Pending,
             Degraded, RevertSteps
<1> QED BY <1>1, <1>2, <1>3, <1>4, <1>5 DEF RecoveryStep

\* applyAndWatch: every stack is in the cycle and none vanishes, so that a
\* promotion finds all of them at the new commit.
LEMMA ApplyTarget ==
    ASSUME SingleFile, TypeOK, CommitKnown, DaemonInv, LifecycleInv, TargetInv, ApplyStep
    PROVE  TargetInv'
<1>0. /\ st \in State /\ disk \in State /\ run \in Run /\ head \in Commits
      /\ dock \in [Stacks -> CommitOrNone \cup {Torn}]
      /\ SoundRecord(st) /\ SoundRecord(disk) /\ Deployed(disk, dock)
  BY DEF TypeOK, TargetInv
<1>a. pc \in ApplySteps
  BY DEF ApplyStep, Checkout, CheckoutFails, Plan, PlanFails, Sweep, TeardownFails, Prepare,
         PrepareFails, SavePending, SavePendingFails, Up, UpFails, WatchHealthy, WatchUnhealthy,
         WatchFails, Teardown, PromoteHealthy, ApplySteps
<1>b. ~Degraded(disk) /\ ~Degraded(st) BY <1>a DEF DaemonInv, ApplySteps
<1>c. run.new \in Commits /\ run.new # None /\ run.new \in CommitOrNone
  BY <1>a, StateAssumption DEF CommitKnown, CommitOrNone
<1>d. StacksAt(head) = Stacks BY <1>0, OneFileStacks
<1>e. pc \in {"up", "watch", "teardown"} => Pending(disk) /\ Pending(st)
  BY <1>c DEF DaemonInv, LifecycleInv, Pending
<1>f. /\ WithOutcome(st, "failed_apply") \in State
      /\ Slots(WithOutcome(st, "failed_apply")) = Slots(st)
  BY <1>0, UpdateTypes, SlotsKept DEF Results
<1>g. /\ SoundRecord(WithOutcome(st, "failed_apply"))
      /\ Deployed(WithOutcome(st, "failed_apply"), dock)
  BY <1>b, <1>f, CopyTarget
<1> DEFINE failed == WithOutcome(MarkFailed(st, run.new), "failed_apply")
<1>h. failed \in State /\ Slots(failed) = Slots(st)
  <2>1. MarkFailed(st, run.new) \in State /\ Slots(MarkFailed(st, run.new)) = Slots(st)
    BY <1>0, <1>c, MarkFailedType, SlotsKept
  <2> QED BY <2>1, UpdateTypes, SlotsKept DEF Results
<1>i. /\ SoundRecord(failed) /\ Deployed(failed, dock)
      /\ failed.lastHealthyCommit = st.lastHealthyCommit
      /\ Pending(failed) <=> Pending(st)
  BY <1>0, <1>b, <1>h, CopyTarget, SlotsDecide
<1> HIDE DEF failed
<1>j. ASSUME NEW k, AbortApply(k), dock' = dock PROVE TargetInv'
  BY <1>0, <1>g, <1>i, <1>j, AbortTarget DEF AbortApply, failed
<1>k. ASSUME NEW k, ApplyIncomplete(k), pc \in {"up", "watch"} PROVE TargetInv'
  <2>1. Pending(WithOutcome(st, "failed_apply")) BY <1>0, <1>b, <1>e, <1>f, <1>k, SlotsDecide
  <2>2. Deployed(WithOutcome(st, "failed_apply"), dock') /\ Deployed(disk, dock')
    BY <1>e, <1>k, <2>1 DEF Deployed
  <2> QED BY <1>0, <1>g, <1>k, <2>2, SaveAndReturnTarget, ReturnTarget DEF ApplyIncomplete
<1>l. ASSUME NEW k, FailAndRevert(k), pc \in {"up", "watch"} PROVE TargetInv'
  <2>1. pc' = "revert" /\ st' = failed /\ disk' \in {failed, disk}
    BY <1>l DEF FailAndRevert, Goto, failed
  <2>2. run'.stacks = Stacks
    <3>1. run.stacks = Stacks BY <1>l DEF TargetInv
    <3>2. run'.stacks = run.stacks BY <1>0, <1>l DEF FailAndRevert, Run
    <3> QED BY <3>1, <3>2
  <2>3. Pending(disk') BY <1>e, <1>i, <1>l, <2>1
  <2>4. Deployed(disk', dock') BY <2>3 DEF Deployed
  <2>5. SoundRecord(disk') /\ SoundRecord(st') BY <1>0, <1>i, <2>1
  <2> QED BY <2>1, <2>2, <2>4, <2>5 DEF TargetInv, SoundRecord, Whole, OnTarget, Deployed, Pending,
             Degraded, RevertSteps
<1>1. CASE Checkout
  <2>1. pc = "checkout" /\ pc' = "plan" /\ UNCHANGED <<disk, st, run, dock>> BY <1>1 DEF Checkout, Goto
  <2> QED BY <2>1 DEF TargetInv, SoundRecord, Whole, OnTarget, Deployed, Pending, Degraded,
             RevertSteps
<1>2. CASE Plan
  <2>1. PICK unloaded \in SUBSET Weighed :
          /\ run' = [run EXCEPT !.stacks = ChangedStacks(unloaded),
                                !.todo = ChangedStacks(unloaded),
                                !.vanished = run.previous \ StacksAt(head),
                                !.undecided = unloaded # {}]
          /\ pc' = IF ChangedStacks(unloaded) = {} THEN "sweep" ELSE "prepare"
    BY <1>2 DEF Plan, Goto
  <2>2. run.pending \in {{}, Stacks} BY <1>2 DEF Plan, TargetInv
  <2>3. FilterChanged(run.old, run.new, Stacks, unloaded) = Stacks
    BY DEF FilterChanged, TouchedStacks
  <2>4. RestrictToNames(Stacks, run.pending) = Stacks BY <2>2 DEF RestrictToNames
  <2>5. ChangedStacks(unloaded) = Stacks BY <1>d, <2>3, <2>4 DEF ChangedStacks
  <2>6. run'.stacks = Stacks /\ run'.todo = Stacks /\ run'.vanished = {}
    BY <1>0, <1>d, <2>1, <2>5 DEF Run
  <2>7. UNCHANGED <<disk, st, dock>> BY <1>2 DEF Plan
  <2> QED BY <2>1, <2>5, <2>6, <2>7 DEF TargetInv, SoundRecord, Whole, OnTarget, Deployed, Pending,
             Degraded, RevertSteps
<1>3. CASE Sweep
  <2>1. Stacks = {} /\ run.stacks = Stacks /\ run.vanished = {} BY <1>3 DEF Sweep, TargetInv
  <2>2. Deployed(disk, dock') BY <2>1 DEF Deployed
  <2>3. CASE run.undecided BY <1>0, <1>3, <2>2, <2>3, ReturnTarget DEF Sweep
  <2>4. CASE ~run.undecided
    <3>1. pc' = "promote" /\ UNCHANGED <<disk, st, run>> BY <1>3, <2>4 DEF Sweep, Goto
    <3> QED BY <2>1, <3>1 DEF TargetInv, SoundRecord, Whole, OnTarget, Deployed, Pending, Degraded,
               RevertSteps
  <2> QED BY <2>3, <2>4
<1>4. CASE TeardownFails
  BY <1>4 DEF TeardownFails, TargetInv
<1>5. CASE Prepare
  <2>1. pc = "prepare" /\ pc' = "pend" /\ UNCHANGED <<disk, st, run, dock>> BY <1>5 DEF Prepare, Goto
  <2> QED BY <2>1 DEF TargetInv, SoundRecord, Whole, OnTarget, Deployed, Pending, Degraded,
             RevertSteps
<1> DEFINE next == WithPending(st, run.new, Stacks)
<1>m. SoundRecord(next) /\ Pending(next) BY <1>0, <1>c, SoundUpdates
<1>n. \A running : Deployed(next, running) BY <1>m DEF Deployed
<1> HIDE DEF next
<1>6. CASE SavePending
  <2>1. run.stacks = Stacks /\ run.todo = Stacks BY <1>6 DEF SavePending, TargetInv
  <2>2. pc' = "up" /\ disk' = next /\ st' = next /\ UNCHANGED <<run, dock>>
    BY <1>6, <2>1 DEF SavePending, SaveAndGoto, Goto, next
  <2>3. run.vanished = {} BY <1>6 DEF SavePending, TargetInv
  <2> QED BY <1>m, <1>n, <2>1, <2>2, <2>3 DEF TargetInv, SoundRecord, Whole, OnTarget, Deployed,
             Pending, Degraded, RevertSteps
<1>7. CASE SavePendingFails
  <2>1. run.stacks = Stacks /\ dock' = dock BY <1>7 DEF SavePendingFails, TargetInv
  <2>2. PICK left \in {disk, next} : AbortBeforeUp(st, left, 1)
    BY <1>7, <2>1 DEF SavePendingFails, next
  <2> QED BY <1>0, <1>g, <1>m, <1>n, <2>1, <2>2, AbortTarget
<1>8. ASSUME NEW s \in Stacks, Up(s) PROVE TargetInv'
  <2>1. /\ pc = "up" /\ s \in run.todo /\ UNCHANGED <<disk, st>>
        /\ dock' = [dock EXCEPT ![s] = run.new]
        /\ pc' = IF run.todo = {s} THEN "watch" ELSE "up"
    BY <1>8 DEF Up, Goto
  <2>2. /\ run'.todo = run.todo \ {s} /\ run'.new = run.new
        /\ run'.stacks = run.stacks /\ run'.vanished = run.vanished
    BY <1>0, <1>8 DEF Up, Run
  <2>3. /\ run.stacks = Stacks /\ run.vanished = {}
        /\ \A x \in Stacks \ run.todo : dock[x] = run.new
    BY <2>1 DEF TargetInv
  <2>4. \A x \in Stacks \ run'.todo : dock'[x] = run'.new BY <1>0, <2>1, <2>2, <2>3
  <2>5. pc' = "watch" => \A x \in Stacks : dock'[x] = run'.new BY <2>1, <2>2, <2>4
  <2>6. Deployed(disk', dock') BY <1>e, <2>1 DEF Deployed
  <2>7. SoundRecord(disk') /\ SoundRecord(st') BY <1>0, <2>1
  <2> QED BY <2>1, <2>2, <2>3, <2>4, <2>5, <2>6, <2>7 DEF TargetInv, SoundRecord, Whole, OnTarget,
             Deployed, Pending, Degraded, RevertSteps
<1>9. CASE WatchUnhealthy \/ WatchFails \/ \E s \in Stacks : UpFails(s)
  BY <1>9, <1>k, <1>l DEF WatchUnhealthy, WatchFails, UpFails
<1>10. CASE WatchHealthy
  <2>1. pc = "watch" /\ pc' = "teardown" /\ UNCHANGED <<disk, st, run, dock>>
    BY <1>10 DEF WatchHealthy, Goto
  <2> QED BY <2>1 DEF TargetInv, SoundRecord, Whole, OnTarget, Deployed, Pending, Degraded,
             RevertSteps
<1>11. CASE Teardown
  <2>1. pc = "teardown" /\ pc' = "promote" /\ UNCHANGED <<disk, st, run>> BY <1>11 DEF Teardown, Goto
  <2>2. run.vanished = {} BY <2>1 DEF TargetInv
  <2>3. \A s \in Stacks : dock'[s] = dock[s] BY <1>11, <2>2 DEF Teardown, TornDown
  <2> QED BY <2>1, <2>3 DEF TargetInv, SoundRecord, Whole, OnTarget, Deployed, Pending, Degraded,
             RevertSteps
<1>12. CASE PlanFails \/ PrepareFails
  BY <1>12, <1>j DEF PlanFails, PrepareFails
<1>13. CASE CheckoutFails
  BY <1>0, <1>13, <1>g, AbortTarget DEF CheckoutFails
<1>14. CASE PromoteHealthy
  <2> DEFINE promoted == Promoted(st, run.new, Stacks)
  <2>1. SaveAndReturn(promoted, 0) /\ dock' = dock BY <1>14, <1>d DEF PromoteHealthy
  <2>2. SoundRecord(promoted) /\ promoted.lastHealthyCommit = run.new
    BY <1>0, <1>c, SoundUpdates
  <2> HIDE DEF promoted
  <2>3. \A s \in Stacks : dock[s] = run.new BY <1>14 DEF PromoteHealthy, TargetInv
  <2>4. Deployed(promoted, dock) BY <2>2, <2>3 DEF Deployed
  <2> QED BY <1>0, <2>1, <2>2, <2>4, SaveAndReturnTarget
<1> QED BY <1>1, <1>2, <1>3, <1>4, <1>5, <1>6, <1>7, <1>8, <1>9, <1>10, <1>11, <1>12, <1>13, <1>14
        DEF ApplyStep

\* doRevert puts every stack back to the target.
LEMMA RevertTargetStep ==
    ASSUME SingleFile, TypeOK, DaemonInv, LifecycleInv, TargetInv, RevertStep
    PROVE  TargetInv'
<1>0. /\ st \in State /\ disk \in State /\ run \in Run /\ head \in Commits
      /\ dock \in [Stacks -> CommitOrNone \cup {Torn}] /\ run.failed \in CommitOrNone
      /\ SoundRecord(st) /\ SoundRecord(disk) /\ Deployed(disk, dock)
      /\ st.lastHealthyCommit = disk.lastHealthyCommit
  BY DEF TypeOK, TargetInv, Run, LifecycleInv
<1>a. pc \in RevertSteps
  BY DEF RevertStep, RevertNoTarget, RevertCheckout, RevertCheckoutFails, RevertClear,
         RevertClearFails, RevertLoad, RevertLoadFails, RevertUp, RevertUpFails,
         RevertWatchHealthy, RevertWatchUnhealthy, RevertWatchFails, RevertSettle, RevertSteps
<1>b. ~Degraded(disk) /\ ~Degraded(st) BY <1>a DEF DaemonInv, RevertSteps
<1>c. (pc = "revert" => RevertTarget # None) => st.lastHealthyCommit # None
  BY <1>a DEF LifecycleInv, RevertTarget
<1>d. st.lastHealthyCommit # None => run.stacks = Stacks BY <1>a DEF TargetInv
<1>e. StacksAt(head) = Stacks BY <1>0, OneFileStacks
<1>f. /\ SoundRecord(GivenUp(st, run.failed)) /\ SoundRecord(Reverted(st, run.failed))
      /\ SoundRecord(Interrupted(st, run.failed, Stacks))
      /\ \A running : Deployed(GivenUp(st, run.failed), running)
      /\ \A running : Deployed(Interrupted(st, run.failed, Stacks), running)
      /\ Reverted(st, run.failed).lastHealthyCommit = st.lastHealthyCommit
  BY <1>0, SoundUpdates DEF Deployed
<1>g. ASSUME NEW k, RevertFailed(k) \/ RevertInterrupted(k), Deployed(disk, dock'),
             st.lastHealthyCommit # None
      PROVE  TargetInv'
  BY <1>d, <1>f, <1>g, SaveAndReturnTarget DEF RevertFailed, RevertInterrupted
<1>1. CASE RevertNoTarget \/ RevertWatchUnhealthy
  BY <1>0, <1>1, <1>f, SaveAndReturnTarget DEF RevertNoTarget, RevertWatchUnhealthy
<1>2. CASE RevertSettle
  <2>1. SaveAndReturn(Reverted(st, run.failed), 0) /\ dock' = dock /\ pc = "settle"
    BY <1>2 DEF RevertSettle
  <2>2. Deployed(Reverted(st, run.failed), dock) BY <1>f, <2>1 DEF TargetInv, Deployed
  <2> QED BY <1>0, <1>f, <2>1, <2>2, SaveAndReturnTarget
<1>3. CASE RevertCheckoutFails \/ RevertLoadFails \/ RevertWatchFails
  BY <1>0, <1>3, <1>c, <1>g DEF RevertCheckoutFails, RevertLoadFails, RevertWatchFails
<1>4. CASE RevertCheckout
  <2>1. /\ st' = [st EXCEPT !.lastCheckoutCommit = st.lastHealthyCommit]
        /\ UNCHANGED <<disk, dock, run>> /\ pc' = "clear" /\ st.lastHealthyCommit # None
    BY <1>4 DEF RevertCheckout, Goto, RevertTarget
  <2>2. /\ st'.lastHealthyCommit = st.lastHealthyCommit
        /\ st'.lastHealthyStacks = st.lastHealthyStacks
        /\ st'.pendingCommit = st.pendingCommit
        /\ st'.pendingRevert = st.pendingRevert
        /\ st'.pendingStacks = st.pendingStacks
        /\ st'.lastCheckoutCommit = st.lastHealthyCommit
    BY <1>0, <2>1 DEF State
  <2>3. SoundRecord(st') BY <1>0, <2>2 DEF SoundRecord, Whole, OnTarget, Pending
  <2> QED BY <1>0, <1>d, <2>1, <2>2, <2>3 DEF TargetInv, SoundRecord, Whole, OnTarget, Deployed,
             Pending, Degraded, RevertSteps
<1>5. CASE RevertClearFails
  <2>1. run.stacks = Stacks /\ st.lastHealthyCommit # None BY <1>5, <1>c, <1>d DEF RevertClearFails
  <2>2. \A s \in Stacks : dock'[s] = dock[s] BY <1>5, <1>e, <2>1 DEF RevertClearFails, TornDown
  <2>3. Deployed(disk, dock') BY <1>0, <2>2 DEF Deployed
  <2> QED BY <1>5, <1>g, <2>1, <2>3 DEF RevertClearFails
<1>6. ASSUME NEW s \in Stacks, RevertUpFails(s) PROVE TargetInv'
  <2>1. \A x \in Stacks : dock'[x] \in {dock[x], Torn} BY <1>0, <1>6 DEF RevertUpFails
  <2>2. Deployed(disk, dock') BY <1>0, <2>1 DEF Deployed
  <2> QED BY <1>6, <1>c, <1>g, <2>2 DEF RevertUpFails
<1>7. CASE RevertClear
  <2>1. pc' = "load" /\ UNCHANGED <<disk, st>> BY <1>7 DEF RevertClear, Goto
  <2>2. run.stacks = Stacks BY <1>7, <1>c, <1>d DEF RevertClear
  <2>3. run'.stacks = Stacks BY <1>0, <1>7, <1>e, <2>2 DEF RevertClear, Run
  <2>4. \A s \in Stacks : dock'[s] = dock[s] BY <1>7, <1>e, <2>2 DEF RevertClear, TornDown
  <2> QED BY <1>0, <2>1, <2>3, <2>4 DEF TargetInv, SoundRecord, Whole, OnTarget, Deployed, Pending,
             Degraded, RevertSteps
<1>8. CASE RevertLoad
  <2>1. /\ pc' = IF run.stacks = {} THEN "rewatch" ELSE "reup"
        /\ UNCHANGED <<disk, st, dock>>
    BY <1>8 DEF RevertLoad, Goto
  <2>2. run.stacks = Stacks BY <1>8, <1>c, <1>d DEF RevertLoad
  <2>3. run'.stacks = Stacks /\ run'.todo = Stacks BY <1>0, <1>8, <2>2 DEF RevertLoad, Run
  <2> QED BY <1>0, <2>1, <2>2, <2>3 DEF TargetInv, SoundRecord, Whole, OnTarget, Deployed, Pending,
             Degraded, RevertSteps
<1>9. ASSUME NEW s \in Stacks, RevertUp(s) PROVE TargetInv'
  <2>1. /\ pc = "reup" /\ s \in run.todo /\ UNCHANGED <<disk, st>>
        /\ dock' = [dock EXCEPT ![s] = st.lastHealthyCommit]
        /\ pc' = IF run.todo = {s} THEN "rewatch" ELSE "reup"
    BY <1>9 DEF RevertUp, Goto, RevertTarget
  <2>2. run'.todo = run.todo \ {s} /\ run'.stacks = run.stacks BY <1>0, <1>9 DEF RevertUp, Run
  <2>3. \A x \in Stacks \ run.todo : dock[x] = st.lastHealthyCommit BY <2>1 DEF TargetInv
  <2>4. run.stacks = Stacks BY <1>c, <1>d, <2>1
  <2>5. \A x \in Stacks \ run'.todo : dock'[x] = st'.lastHealthyCommit BY <1>0, <2>1, <2>2, <2>3
  <2>6. pc' = "rewatch" => \A x \in Stacks : dock'[x] = st'.lastHealthyCommit
    BY <2>1, <2>2, <2>5
  <2>7. \A x \in Stacks : dock'[x] \in {dock[x], disk.lastHealthyCommit} BY <1>0, <2>1
  <2>8. Deployed(disk', dock') BY <1>0, <2>1, <2>7 DEF Deployed
  <2>9. SoundRecord(disk') /\ SoundRecord(st') BY <1>0, <2>1
  <2> QED BY <2>1, <2>2, <2>4, <2>5, <2>6, <2>8, <2>9 DEF TargetInv, SoundRecord, Whole, OnTarget,
             Deployed, Pending, Degraded, RevertSteps
<1>10. CASE RevertWatchHealthy
  <2>1. pc = "rewatch" /\ pc' = "settle" /\ UNCHANGED <<disk, st, run, dock>>
    BY <1>10 DEF RevertWatchHealthy, Goto
  <2> QED BY <2>1 DEF TargetInv, SoundRecord, Whole, OnTarget, Deployed, Pending, Degraded,
             RevertSteps
<1> QED BY <1>1, <1>2, <1>3, <1>4, <1>5, <1>6, <1>7, <1>8, <1>9, <1>10 DEF RevertStep

\* TargetInv holds throughout a compose_file deployment that nobody forces.
LEMMA TargetInvariant == ASSUME SingleFile, Unforced PROVE Spec => []TargetInv
<1>1. Init => TargetInv
  <2>1. New.lastHealthyCommit = None /\ New.pendingCommit = None /\ ~New.pendingRevert
    BY DEF New
  <2>2. Init => pc = "idle" /\ st = New /\ disk = New BY DEF Init
  <2> QED BY <2>1, <2>2 DEF TargetInv, SoundRecord, Whole, OnTarget, Deployed, Pending, RevertSteps
<1>2. TypeOK /\ CommitKnown /\ DaemonInv /\ LifecycleInv /\ TargetInv /\ [Next]_vars => TargetInv'
  <2> SUFFICES ASSUME TypeOK, CommitKnown, DaemonInv, LifecycleInv, TargetInv, [Next]_vars
               PROVE  TargetInv'
    OBVIOUS
  <2>1. CASE Next
    BY <2>1, EnvironmentTarget, NormalTarget, RecoveryTarget, ApplyTarget, RevertTargetStep,
       BeginTarget DEF Next, CodeStep
  <2>2. CASE UNCHANGED vars
    <3>1. UNCHANGED <<disk, st, run, pc, dock>> BY <2>2 DEF vars
    <3> QED BY <3>1 DEF TargetInv, SoundRecord, Whole, OnTarget, Deployed, Pending, Degraded,
               RevertSteps
  <2> QED BY <2>1, <2>2
<1> QED BY <1>1, <1>2, TypesAndCommits, DaemonInvariant, LifecycleInvariant, PTL DEF Spec

\* Between the runs of a daemon in compose_file mode, with nothing pending and
\* not DEGRADED, Docker runs the rollback target but for a torn stack, and the
\* checkout the record expects is that target where every commit matters.
THEOREM TargetDeployed == ASSUME Unforced PROVE Spec => []TargetIsDeployed
<1>1. CASE ~SingleFile
  <2>1. TargetIsDeployed BY <1>1 DEF TargetIsDeployed
  <2> QED BY <2>1, PTL
<1>2. CASE SingleFile
  <2>1. TargetInv => TargetIsDeployed
    <3> SUFFICES ASSUME TargetInv, Resting, disk.lastHealthyCommit # None
                 PROVE  /\ \A s \in Stacks : dock[s] \in {disk.lastHealthyCommit, Torn}
                        /\ EveryCommitMatters => ExpectedCheckout(disk) = disk.lastHealthyCommit
      BY DEF TargetIsDeployed
    <3>1. ~Pending(disk) /\ ~Degraded(disk) BY DEF Resting
    <3>2. \A s \in Stacks : dock[s] \in {disk.lastHealthyCommit, Torn}
      BY <3>1 DEF TargetInv, Deployed
    <3>3. EveryCommitMatters => ExpectedCheckout(disk) = disk.lastHealthyCommit
      BY <3>1 DEF TargetInv, SoundRecord, OnTarget, ExpectedCheckout
    <3> QED BY <3>2, <3>3
  <2> QED BY <1>2, <2>1, TargetInvariant, PTL
<1> QED BY <1>1, <1>2

-----------------------------------------------------------------------------
(* What runs without ever having become a rollback target. The pending record *)
(* names every such stack from before it is put up until it is promoted or    *)
(* taken back; in between the stacks of the cycle hold all of them, although  *)
(* recovery chooses that cycle anew from the record and the branch.           *)

Unproven == {s \in Stacks : dock[s] \notin proven \cup {None, Torn}}

\* Record s accounts for the stacks u, with the commits p promoted so far.
Covers(s, u, p) ==
    /\ u \subseteq s.pendingStacks
    /\ ~Pending(s) => s.pendingStacks = {}
    /\ s.pendingCommit # None /\ ~RevertInProgress(s) => u \subseteq StacksAt(s.pendingCommit)
    /\ s.lastHealthyCommit \in p \cup {None}

\* Commit r has all stacks of commit x.
KeptBy(x, r) == x # None => StacksAt(x) \subseteq StacksAt(r)

\* How far a run at step at, with the variables v, has come with the stacks u.
Progress(at, u, v, running) ==
    /\ at \in {"fetch", "gate", "advance", "record", "sweep", "rewatch", "settle"} => u = {}
    /\ at \in {"recover", "resolve"} => ~v.diff
    /\ at = "recover" => v.new = None
    /\ at \in {"resolve", "checkout", "plan"} /\ v.new # None => u \subseteq StacksAt(v.new)
    /\ at \in {"checkout", "plan"} =>
         u = {} \/ (~v.diff /\ (v.pending = {} \/ u \subseteq v.pending))
    /\ at \in {"prepare", "pend", "up", "watch", "teardown", "revert", "clear", "load", "reup"} =>
         u \subseteq v.stacks
    /\ at \in {"prepare", "pend"} => v.todo = v.stacks
    /\ at \in {"pend", "up", "watch", "teardown"} => v.stacks \subseteq StacksAt(v.new)
    /\ at \in {"up", "reup"} => v.todo \subseteq v.stacks
    /\ at = "reup" => u \subseteq v.todo
    /\ at = "up" => \A s \in u : s \in v.todo \/ running[s] = v.new
    /\ at \in {"watch", "teardown", "promote"} => \A s \in u : running[s] = v.new

AccountInv ==
    ~Degraded(disk) =>
        /\ Covers(disk, Unproven, proven) /\ Covers(st, Unproven, proven)
        /\ KeptBy(disk.pendingCommit, remote) /\ KeptBy(run.new, remote)
        /\ pc = "up" => run.stacks \subseteq st.pendingStacks
        /\ Progress(pc, Unproven, run, dock)

\* The part of the record that decides whether it accounts for something.
Claims(s) == <<s.lastHealthyCommit, s.lastFailedCommit, s.pendingCommit, s.pendingRevert,
               s.pendingStacks>>

LEMMA ClaimsDecide ==
    ASSUME NEW s, NEW t, Claims(t) = Claims(s), NEW u, NEW p, Covers(s, u, p)
    PROVE  Covers(t, u, p) /\ t.pendingCommit = s.pendingCommit
<1>1. /\ t.lastHealthyCommit = s.lastHealthyCommit /\ t.lastFailedCommit = s.lastFailedCommit
      /\ t.pendingCommit = s.pendingCommit /\ t.pendingRevert = s.pendingRevert
      /\ t.pendingStacks = s.pendingStacks
  BY DEF Claims
<1> QED BY <1>1 DEF Covers, Pending, RevertInProgress

LEMMA ClaimsKept ==
    ASSUME NEW s \in State
    PROVE  /\ \A r : Claims(WithOutcome(s, r)) = Claims(s)
           /\ \A c : Claims(WithCheckout(s, c)) = Claims(s)
           /\ Claims(WithAttempt(s)) = Claims(s)
           /\ \A n : Claims([s EXCEPT !.preflightBlocks = n]) = Claims(s)
           /\ \A b : Claims([s EXCEPT !.paused = b]) = Claims(s)
           /\ \A c : Claims([s EXCEPT !.lastCheckoutCommit = c]) = Claims(s)
BY DEF Claims, WithOutcome, WithCheckout, WithAttempt, State

\* Fewer stacks and more promoted commits are accounted for as well.
LEMMA CoversLess ==
    ASSUME NEW s, NEW u, NEW p, NEW v \in SUBSET u, NEW q, p \subseteq q, Covers(s, u, p)
    PROVE  Covers(s, v, q)
BY DEF Covers

\* The updates that change a claim.
LEMMA CoversFailed ==
    ASSUME NEW s \in State, NEW c \in CommitOrNone
    PROVE  /\ MarkFailed(s, c).pendingCommit = s.pendingCommit
           /\ MarkFailed(s, c).pendingStacks = s.pendingStacks
           /\ MarkFailed(s, c).lastHealthyCommit = s.lastHealthyCommit
           /\ \A u, p : Covers(s, u, p) /\ c # None /\ ~RevertInProgress(s)
                          => Covers(MarkFailed(s, c), u, p)
<1>1. /\ MarkFailed(s, c).pendingCommit = s.pendingCommit
      /\ MarkFailed(s, c).pendingRevert = s.pendingRevert
      /\ MarkFailed(s, c).pendingStacks = s.pendingStacks
      /\ MarkFailed(s, c).lastHealthyCommit = s.lastHealthyCommit
  BY DEF MarkFailed, State
<1> QED BY <1>1 DEF Covers, Pending, RevertInProgress

LEMMA CoversPending ==
    ASSUME NEW s \in State, NEW u, NEW p, Covers(s, u, p), NEW c \in CommitOrNone, c # None,
           NEW stacks, u \subseteq stacks, stacks \subseteq StacksAt(c)
    PROVE  /\ Covers(WithPending(s, c, stacks), u, p)
           /\ WithPending(s, c, stacks).pendingStacks = stacks
           /\ WithPending(s, c, stacks).pendingCommit = c
<1>1. /\ WithPending(s, c, stacks).pendingStacks = stacks
      /\ WithPending(s, c, stacks).pendingCommit = c
      /\ WithPending(s, c, stacks).lastHealthyCommit = s.lastHealthyCommit
  BY DEF WithPending, State
<1> QED BY <1>1 DEF Covers, Pending

LEMMA CoversInterrupted ==
    ASSUME NEW s \in State, NEW u, NEW p, Covers(s, u, p), NEW c \in CommitOrNone,
           NEW stacks, u \subseteq stacks
    PROVE  Covers(Interrupted(s, c, stacks), u, p) /\ Interrupted(s, c, stacks).pendingCommit = c
<1> DEFINE failed == IF c = None THEN s ELSE MarkFailed(s, c)
<1>1. failed \in State BY MarkFailedType
<1>2. /\ failed.pendingStacks = s.pendingStacks /\ failed.lastHealthyCommit = s.lastHealthyCommit
  BY CoversFailed
<1>3. Interrupted(s, c, stacks) =
        [failed EXCEPT !.pendingRevert = TRUE, !.pendingCommit = c,
                       !.pendingStacks = IF stacks # {} THEN stacks ELSE @,
                       !.pendingSince  = TRUE, !.lastResult    = "failed_apply"]
  BY DEF Interrupted
<1> HIDE DEF failed
<1>4. /\ Interrupted(s, c, stacks).pendingCommit = c
      /\ Interrupted(s, c, stacks).pendingRevert
      /\ Interrupted(s, c, stacks).pendingStacks = (IF stacks # {} THEN stacks ELSE s.pendingStacks)
      /\ Interrupted(s, c, stacks).lastHealthyCommit = s.lastHealthyCommit
  BY <1>1, <1>2, <1>3 DEF State
<1> QED BY <1>4 DEF Covers, Pending, RevertInProgress

LEMMA CoversReverted ==
    ASSUME NEW s \in State, NEW p, Covers(s, {}, p), NEW c \in CommitOrNone
    PROVE  Covers(Reverted(s, c), {}, p) /\ Reverted(s, c).pendingCommit = None
<1>1. /\ Reverted(s, c).pendingCommit = None /\ Reverted(s, c).pendingStacks = {}
      /\ Reverted(s, c).lastHealthyCommit = s.lastHealthyCommit
  BY DEF Reverted, ClearPending, State
<1> QED BY <1>1 DEF Covers

LEMMA CoversPromoted ==
    ASSUME NEW s \in State, NEW p, NEW c \in CommitOrNone, NEW stacks
    PROVE  /\ Covers(Promoted(s, c, stacks), {}, p \cup {c})
           /\ Promoted(s, c, stacks).pendingCommit = None
<1>1. /\ Promoted(s, c, stacks).pendingCommit = None /\ Promoted(s, c, stacks).pendingStacks = {}
      /\ Promoted(s, c, stacks).lastHealthyCommit = c
  BY DEF Promoted, ClearPending, State
<1> QED BY <1>1 DEF Covers

LEMMA GivenUpDegraded ==
    ASSUME NEW s \in State, NEW c \in CommitOrNone PROVE Degraded(GivenUp(s, c))
<1> DEFINE failed == IF c = None THEN s ELSE MarkFailed(s, c)
<1>1. failed \in State BY MarkFailedType
<1>2. ClearPending(failed) \in State BY <1>1, UpdateTypes
<1>3. GivenUp(s, c) = [ClearPending(failed) EXCEPT !.lastResult = "degraded"] BY DEF GivenUp
<1> HIDE DEF failed
<1> QED BY <1>2, <1>3 DEF Degraded, State

\* Taking stacks down, tearing them and going back to the target prove nothing
\* new, and leave nothing unproven behind.
LEMMA UnprovenShrinks ==
    ASSUME proven \subseteq proven',
           \A s \in Stacks : dock'[s] \in {dock[s], None, Torn}
    PROVE  Unproven' \subseteq Unproven
BY DEF Unproven

LEMMA UnprovenSame ==
    ASSUME UNCHANGED <<dock, proven>> PROVE Unproven' = Unproven
BY DEF Unproven

\* What the invariants say of a run in progress, with the types.
LEMMA AccountFacts ==
    ASSUME TypeOK, DaemonInv, LifecycleInv, AccountInv, pc # "idle"
    PROVE  /\ st \in State /\ disk \in State /\ run \in Run /\ remote \in Commits
           /\ run.new \in CommitOrNone /\ run.failed \in CommitOrNone
           /\ st.pendingCommit \in CommitOrNone
           /\ ~run.force /\ ~Degraded(disk) /\ st.pendingCommit = disk.pendingCommit
           /\ Covers(disk, Unproven, proven) /\ Covers(st, Unproven, proven)
           /\ KeptBy(disk.pendingCommit, remote) /\ KeptBy(st.pendingCommit, remote)
           /\ KeptBy(run.new, remote)
           /\ Progress(pc, Unproven, run, dock)
<1>1. /\ st \in State /\ disk \in State /\ run \in Run /\ remote \in Commits
      /\ run.new \in CommitOrNone /\ run.failed \in CommitOrNone
      /\ st.pendingCommit \in CommitOrNone
  BY DEF TypeOK, State, Run
<1>2. ~run.force /\ ~Degraded(disk) /\ st.pendingCommit = disk.pendingCommit
  BY DEF DaemonInv, LifecycleInv
<1> QED BY <1>1, <1>2 DEF AccountInv

\* A step after which the records account for what is left.
LEMMA GoOnAccount ==
    ASSUME Covers(disk', Unproven', proven'), Covers(st', Unproven', proven'),
           KeptBy(disk'.pendingCommit, remote'), KeptBy(run'.new, remote'),
           pc' = "up" => run'.stacks \subseteq st'.pendingStacks,
           Progress(pc', Unproven', run', dock')
    PROVE  AccountInv'
BY DEF AccountInv

\* A run returns with the work accounted for, or having given up.
LEMMA ReturnAccount ==
    ASSUME NEW k, Return(k),
           \/ Degraded(disk')
           \/ Covers(disk', Unproven', proven') /\ KeptBy(disk'.pendingCommit, remote')
    PROVE  AccountInv'
<1>1. pc' = "idle" /\ run' = NoRun /\ st' = disk' /\ run'.new = None BY DEF Return, NoRun
<1>2. Progress(pc', Unproven', run', dock') BY <1>1 DEF Progress
<1>3. KeptBy(run'.new, remote') BY <1>1 DEF KeptBy
<1>4. CASE Degraded(disk') BY <1>4 DEF AccountInv, Degraded
<1>5. CASE Covers(disk', Unproven', proven') /\ KeptBy(disk'.pendingCommit, remote')
  BY <1>1, <1>2, <1>3, <1>5, GoOnAccount
<1> QED BY <1>4, <1>5

LEMMA ReturnUnsavedAccount ==
    ASSUME TypeOK, DaemonInv, LifecycleInv, AccountInv, pc # "idle",
           NEW k, disk' = disk, Return(k), Unproven' \subseteq Unproven,
           proven \subseteq proven', remote' = remote
    PROVE  AccountInv'
<1>1. Covers(disk, Unproven', proven') BY AccountFacts, CoversLess
<1> QED BY <1>1, AccountFacts, ReturnAccount

LEMMA SaveAndReturnAccount ==
    ASSUME TypeOK, DaemonInv, LifecycleInv, AccountInv, pc # "idle",
           NEW k, NEW next, SaveAndReturn(next, k), Unproven' \subseteq Unproven,
           UNCHANGED <<proven, remote>>,
           \/ Degraded(next)
           \/ Covers(next, Unproven, proven) /\ KeptBy(next.pendingCommit, remote)
    PROVE  AccountInv'
<1>1. CASE disk' = disk BY <1>1, ReturnUnsavedAccount DEF SaveAndReturn
<1>2. CASE disk' = next /\ Return(k)
  <2>1. Degraded(next) \/ Covers(next, Unproven', proven') BY CoversLess
  <2> QED BY <1>2, <2>1, ReturnAccount
<1> QED BY <1>1, <1>2 DEF SaveAndReturn

LEMMA AbortAccount ==
    ASSUME TypeOK, DaemonInv, LifecycleInv, AccountInv, pc # "idle",
           NEW k, NEW s \in State, NEW left, AbortBeforeUp(s, left, k),
           UNCHANGED <<dock, proven, remote>>,
           Covers(s, Unproven, proven), KeptBy(s.pendingCommit, remote),
           Covers(left, Unproven, proven), KeptBy(left.pendingCommit, remote)
    PROVE  AccountInv'
<1>1. /\ Covers(WithOutcome(s, "failed_apply"), Unproven, proven)
      /\ WithOutcome(s, "failed_apply").pendingCommit = s.pendingCommit
  BY ClaimsKept, ClaimsDecide
<1>2. Unproven' = Unproven BY UnprovenSame
<1>3. Covers(disk', Unproven', proven') /\ KeptBy(disk'.pendingCommit, remote')
  BY <1>1, <1>2 DEF AbortBeforeUp
<1> QED BY <1>3, ReturnAccount DEF AbortBeforeUp

LEMMA EnvironmentAccount ==
    ASSUME Growing, TypeOK, DaemonInv, LifecycleInv, AccountInv, Environment PROVE AccountInv'
<1>1. CASE Push
  <2>1. remote' \in PushTo[remote] /\ UNCHANGED <<disk, st, run, pc, dock, proven>>
    BY <1>1 DEF Push
  <2>2. StacksAt(remote) \subseteq StacksAt(remote') BY <2>1 DEF Growing, TypeOK
  <2>3. \A x : KeptBy(x, remote) => KeptBy(x, remote') BY <2>2 DEF KeptBy
  <2>4. Unproven' = Unproven BY <2>1, UnprovenSame
  <2>5. Degraded(disk') <=> Degraded(disk) BY <2>1
  <2>6. CASE Degraded(disk) BY <2>5, <2>6 DEF AccountInv, Degraded
  <2>7. CASE ~Degraded(disk) BY <2>1, <2>3, <2>4, <2>7, GoOnAccount DEF AccountInv
  <2> QED BY <2>6, <2>7
<1>2. CASE Pause \/ Resume
  <2>1. PICK b \in BOOLEAN : /\ disk' = [disk EXCEPT !.paused = b] /\ st' = disk'
                             /\ UNCHANGED <<remote, run, pc, dock, proven>> /\ pc = "idle"
    BY <1>2 DEF Pause, Resume
  <2>2. Unproven' = Unproven BY <2>1, UnprovenSame
  <2>3. Claims(disk') = Claims(disk) /\ disk \in State BY <2>1, ClaimsKept DEF TypeOK
  <2>4. Degraded(disk') <=> Degraded(disk) BY <2>1, <2>3 DEF Degraded, State
  <2>5. CASE Degraded(disk) BY <2>4, <2>5 DEF AccountInv, Degraded
  <2>6. CASE ~Degraded(disk)
    <3>1. Covers(disk', Unproven, proven) /\ disk'.pendingCommit = disk.pendingCommit
      BY <2>3, <2>6, ClaimsDecide DEF AccountInv
    <3> QED BY <2>1, <2>2, <2>6, <3>1, GoOnAccount DEF AccountInv
  <2> QED BY <2>5, <2>6
<1>3. CASE Shutdown
  <2>1. UNCHANGED <<remote, disk, st, run, pc, dock, proven>> BY <1>3 DEF Shutdown
  <2>2. Unproven' = Unproven BY <2>1, UnprovenSame
  <2> QED BY <2>1, <2>2 DEF AccountInv, Degraded
<1>4. CASE Crash
  <2>1. \A s \in Stacks : dock'[s] \in {dock[s], None, Torn} BY <1>4 DEF Crash
  <2>2. UNCHANGED <<remote, proven>> /\ disk' = disk /\ Return(1) /\ pc # "idle" BY <1>4 DEF Crash
  <2>3. Unproven' \subseteq Unproven BY <2>1, <2>2, UnprovenShrinks
  <2> QED BY <2>2, <2>3, ReturnUnsavedAccount
<1> QED BY <1>1, <1>2, <1>3, <1>4 DEF Environment

LEMMA BeginAccount ==
    ASSUME Unforced, TypeOK, DaemonInv, LifecycleInv, AccountInv, NEW mode \in Modes, Begin(mode)
    PROVE  AccountInv'
<1>1. /\ st' = disk /\ disk' = disk /\ UNCHANGED <<remote, dock, proven>>
      /\ run'.new = None /\ ~run'.diff /\ ~Degraded(disk)
      /\ pc' = IF Pending(disk) THEN "recover" ELSE "fetch"
  BY DEF Begin, NoRun, Goto, Unforced
<1>2. Unproven' = Unproven BY <1>1, UnprovenSame
<1>3. Covers(disk, Unproven, proven) /\ KeptBy(disk.pendingCommit, remote)
  BY <1>1 DEF AccountInv
<1>4. ~Pending(disk) => Unproven = {} BY <1>3 DEF Covers
<1>5. Progress(pc', Unproven', run', dock') BY <1>1, <1>2, <1>4 DEF Progress
<1>6. KeptBy(run'.new, remote) BY <1>1 DEF KeptBy
<1> QED BY <1>1, <1>2, <1>3, <1>5, <1>6, GoOnAccount

\* runNormal starts with nothing unproven.
LEMMA NormalAccount ==
    ASSUME TypeOK, DaemonInv, LifecycleInv, AccountInv, NormalStep PROVE AccountInv'
<1>a. pc \in {"fetch", "advance", "record", "gate"} /\ UNCHANGED <<remote, dock, proven>>
  BY DEF NormalStep, FetchFails, NothingToDo, SkipKnownBad, SkipOutsideWindow, ReapplyDrifted,
     SkipIrrelevant, ConsiderChange, AdvanceCheckout, AdvanceFails, RecordCheckout, GateFails,
     DryRunReports, GatePasses, GateBlocks, GateGivesUp, Eligible, Fetched
<1>b. pc # "idle" BY <1>a
<1>c. Unproven = {} BY <1>a, <1>b, AccountFacts DEF Progress
<1>d. Unproven' = Unproven /\ Unproven' \subseteq Unproven BY <1>a, UnprovenSame
<1>e. /\ \A r : /\ Covers(WithOutcome(st, r), Unproven, proven)
                /\ WithOutcome(st, r).pendingCommit = st.pendingCommit
      /\ \A c : /\ Covers(WithCheckout(st, c), Unproven, proven)
                /\ WithCheckout(st, c).pendingCommit = st.pendingCommit
      /\ \A n : /\ Covers([st EXCEPT !.preflightBlocks = n], Unproven, proven)
                /\ [st EXCEPT !.preflightBlocks = n].pendingCommit = st.pendingCommit
  BY <1>b, AccountFacts, ClaimsKept, ClaimsDecide
<1>1. CASE NothingToDo \/ SkipOutsideWindow \/ DryRunReports
  BY <1>a, <1>b, <1>d, <1>1, ReturnUnsavedAccount DEF NothingToDo, SkipOutsideWindow, DryRunReports
<1>2. CASE FetchFails \/ GateFails \/ SkipKnownBad \/ RecordCheckout
  BY <1>a, <1>b, <1>d, <1>e, <1>2, AccountFacts, ReturnUnsavedAccount, SaveAndReturnAccount
  DEF FetchFails, GateFails, SkipKnownBad, RecordCheckout
<1>3. CASE ReapplyDrifted \/ SkipIrrelevant \/ ConsiderChange
  <2>1. UNCHANGED <<disk, st>> /\ run'.new = remote /\ pc' \in {"gate", "advance"}
    BY <1>3, <1>b, AccountFacts DEF ReapplyDrifted, SkipIrrelevant, ConsiderChange, Goto, Run
  <2>2. KeptBy(remote, remote) BY DEF KeptBy
  <2>3. Progress(pc', Unproven', run', dock') BY <1>c, <1>d, <2>1 DEF Progress
  <2> QED BY <1>a, <1>b, <1>d, <2>1, <2>2, <2>3, AccountFacts, GoOnAccount
<1>4. CASE AdvanceCheckout
  <2>1. UNCHANGED <<disk, st, run>> /\ pc' = "record" BY <1>4 DEF AdvanceCheckout, Goto
  <2>2. Progress(pc', Unproven', run', dock') BY <1>c, <1>d, <2>1 DEF Progress
  <2> QED BY <1>a, <1>b, <1>d, <2>1, <2>2, AccountFacts, GoOnAccount
<1>5. CASE AdvanceFails
  BY <1>a, <1>b, <1>5, AccountFacts, AbortAccount DEF AdvanceFails
<1>6. CASE GatePasses
  <2>1. /\ run'.new = run.new /\ pc' = "checkout"
        /\ st' \in {st, [st EXCEPT !.preflightBlocks = 0]}
        /\ disk' \in {disk, [st EXCEPT !.preflightBlocks = 0]}
    BY <1>6, <1>b, AccountFacts DEF GatePasses, SaveAndGoto, Goto, Run
  <2>2. Progress(pc', Unproven', run', dock') BY <1>c, <1>d, <2>1 DEF Progress
  <2> QED BY <1>a, <1>b, <1>d, <1>e, <2>1, <2>2, AccountFacts, GoOnAccount
<1>7. CASE GateBlocks
  <2>1. PICK n, m : /\ st' = [st EXCEPT !.preflightBlocks = n]
                    /\ disk' \in {disk, [st EXCEPT !.preflightBlocks = m]}
    BY <1>7 DEF GateBlocks, SaveAndGoto
  <2>2. run'.new = run.new /\ pc' = "revert"
    BY <1>7, <1>b, AccountFacts DEF GateBlocks, SaveAndGoto, Goto, Run
  <2>3. Progress(pc', Unproven', run', dock') BY <1>c, <1>d, <2>2 DEF Progress
  <2> QED BY <1>a, <1>b, <1>d, <1>e, <2>1, <2>2, <2>3, AccountFacts, GoOnAccount
<1>8. CASE GateGivesUp
  <2>1. Degraded(GivenUp(st, None)) BY <1>b, AccountFacts, GivenUpDegraded DEF CommitOrNone
  <2> QED BY <1>a, <1>b, <1>d, <1>8, <2>1, SaveAndReturnAccount DEF GateGivesUp
<1> QED BY <1>1, <1>2, <1>3, <1>4, <1>5, <1>6, <1>7, <1>8 DEF NormalStep

\* recoverFromCrash takes up all that the record names, or a commit that has it.
LEMMA RecoveryAccount ==
    ASSUME TypeOK, CommitKnown, DaemonInv, LifecycleInv, AccountInv, RecoveryStep PROVE AccountInv'
<1>a. pc \in {"recover", "resolve"} /\ UNCHANGED <<remote, dock, proven>>
  BY DEF RecoveryStep, RecoverFetch, RecoverGivesUp, RecoverFails, RecoverResumesRevert,
     RecoverUnhealthy, RecoverReapplies
<1>b. pc # "idle" BY <1>a
<1>d. Unproven' = Unproven /\ Unproven' \subseteq Unproven BY <1>a, UnprovenSame
<1>e. Covers(WithAttempt(st), Unproven, proven) /\ WithAttempt(st).pendingCommit = st.pendingCommit
  BY <1>b, AccountFacts, ClaimsKept, ClaimsDecide
<1>f. ~run.diff BY <1>a, <1>b, AccountFacts DEF Progress
<1>g. ~RevertInProgress(st) => /\ st.pendingCommit # None
                               /\ Unproven \subseteq StacksAt(st.pendingCommit)
                               /\ Unproven \subseteq StacksAt(remote)
  <2> SUFFICES ASSUME ~RevertInProgress(st)
               PROVE  /\ st.pendingCommit # None
                      /\ Unproven \subseteq StacksAt(st.pendingCommit)
                      /\ Unproven \subseteq StacksAt(remote)
    OBVIOUS
  <2>1. Pending(st) BY <1>a DEF CommitKnown
  <2>2. st.pendingCommit # None BY <2>1 DEF Pending, RevertInProgress
  <2>3. Unproven \subseteq StacksAt(st.pendingCommit) BY <1>b, <2>2, AccountFacts DEF Covers
  <2> QED BY <1>b, <2>2, <2>3, AccountFacts DEF KeptBy
<1>1. CASE RecoverFetch
  <2>1. /\ st' = st /\ disk' = disk /\ pc' = "resolve" /\ ~run'.diff
        /\ \/ run'.new = None
           \/ ~RevertInProgress(st) /\ run'.new = remote
    <3>1. run.new = None BY <1>1, <1>b, AccountFacts DEF RecoverFetch, Progress
    <3> QED BY <1>1, <1>b, <1>f, <3>1, AccountFacts DEF RecoverFetch, Goto, Superseding, Run
  <2>2. Progress(pc', Unproven', run', dock') BY <1>d, <1>g, <2>1 DEF Progress
  <2>3. KeptBy(run'.new, remote) BY <2>1 DEF KeptBy
  <2> QED BY <1>a, <1>b, <1>d, <2>1, <2>2, <2>3, AccountFacts, GoOnAccount
<1>2. CASE RecoverGivesUp
  <2>1. Degraded(GivenUp(st, st.pendingCommit)) BY <1>b, AccountFacts, GivenUpDegraded
  <2> QED BY <1>a, <1>b, <1>d, <1>2, <2>1, SaveAndReturnAccount DEF RecoverGivesUp
<1>3. CASE RecoverFails
  <2>1. disk' \in {disk, WithAttempt(st)} /\ \E k : Return(k) BY <1>3 DEF RecoverFails
  <2>2. Covers(disk', Unproven', proven') /\ KeptBy(disk'.pendingCommit, remote')
    BY <1>a, <1>b, <1>d, <1>e, <2>1, AccountFacts
  <2> QED BY <2>1, <2>2, ReturnAccount
<1>4. CASE RecoverResumesRevert \/ RecoverUnhealthy
  <2>1. /\ st' = WithAttempt(st) /\ disk' = WithAttempt(st) /\ pc' = "revert"
        /\ run'.new = st.pendingCommit
        /\ run'.stacks = RestrictToNames(StacksAt(head), st.pendingStacks)
    BY <1>4, <1>b, AccountFacts
    DEF RecoverResumesRevert, RecoverUnhealthy, RevertPending, SaveAndGoto, Goto, Run
  <2>2. Unproven \subseteq run'.stacks
    BY <1>b, <2>1, AccountFacts DEF Covers, RestrictToNames
  <2>3. Progress(pc', Unproven', run', dock') BY <1>d, <2>1, <2>2 DEF Progress
  <2> QED BY <1>a, <1>b, <1>d, <1>e, <2>1, <2>3, AccountFacts, GoOnAccount
<1>5. CASE RecoverReapplies
  <2>1. /\ st' = WithAttempt(st) /\ disk' = WithAttempt(st) /\ pc' = "checkout"
        /\ pc = "resolve" /\ ~RevertInProgress(st) /\ ~run'.diff
        /\ \/ run'.new = st.pendingCommit /\ run'.pending = st.pendingStacks
           \/ run.new # None /\ run'.new = run.new /\ run'.pending = {}
    BY <1>5, <1>b, <1>f, AccountFacts DEF RecoverReapplies, SaveAndGoto, Goto, Run
  <2>2. Unproven \subseteq st.pendingStacks BY <1>b, AccountFacts DEF Covers
  <2>3. run.new # None => Unproven \subseteq StacksAt(run.new)
    BY <1>b, <2>1, AccountFacts DEF Progress
  <2>4. Progress(pc', Unproven', run', dock')
    BY <1>d, <1>g, <2>1, <2>2, <2>3 DEF Progress
  <2>5. KeptBy(run'.new, remote) BY <1>b, <2>1, AccountFacts
  <2> QED BY <1>a, <1>b, <1>d, <1>e, <2>1, <2>4, <2>5, AccountFacts, GoOnAccount
<1> QED BY <1>1, <1>2, <1>3, <1>4, <1>5 DEF RecoveryStep

\* applyAndWatch touches only stacks it has named, and promotes all of them.
LEMMA ApplyAccount ==
    ASSUME TypeOK, CommitKnown, WriteAheadInv, DaemonInv, LifecycleInv, AccountInv, ApplyStep
    PROVE  AccountInv'
<1>a. pc \in ApplySteps /\ remote' = remote
  BY DEF ApplySteps, ApplyStep, Checkout, CheckoutFails, Plan, PlanFails, Sweep, TeardownFails,
     Prepare, PrepareFails, SavePending, SavePendingFails, Up, UpFails, WatchHealthy,
     WatchUnhealthy, WatchFails, Teardown, PromoteHealthy
<1>b. pc # "idle" BY <1>a DEF ApplySteps
<1>c. run.new \in Commits /\ run.new \in CommitOrNone /\ run.new # None
  BY <1>a, StateAssumption DEF CommitKnown, CommitOrNone
<1>d. ~RevertInProgress(st) BY <1>a DEF DaemonInv, Forward
<1>e. UNCHANGED <<dock, proven>> => Unproven' = Unproven BY UnprovenSame
<1>f. \A r : /\ Covers(WithOutcome(st, r), Unproven, proven)
             /\ WithOutcome(st, r).pendingCommit = st.pendingCommit
  BY <1>b, AccountFacts, ClaimsKept, ClaimsDecide
<1>g. /\ MarkFailed(st, run.new) \in State
      /\ Covers(MarkFailed(st, run.new), Unproven, proven)
      /\ MarkFailed(st, run.new).pendingCommit = st.pendingCommit
  <2>1. st \in State /\ Covers(st, Unproven, proven) BY <1>b, AccountFacts
  <2> HIDE DEF Unproven
  <2>2. MarkFailed(st, run.new) \in State BY <1>c, <2>1, MarkFailedType
  <2>3. /\ Covers(MarkFailed(st, run.new), Unproven, proven)
        /\ MarkFailed(st, run.new).pendingCommit = st.pendingCommit
    BY <1>c, <1>d, <2>1, CoversFailed
  <2> QED BY <2>2, <2>3
<1>h. \A r : /\ Covers(WithOutcome(MarkFailed(st, run.new), r), Unproven, proven)
             /\ WithOutcome(MarkFailed(st, run.new), r).pendingCommit = st.pendingCommit
  BY <1>g, ClaimsKept, ClaimsDecide
<1>1. CASE Checkout
  <2>1. UNCHANGED <<disk, st, run, dock, proven>> /\ pc = "checkout" /\ pc' = "plan"
    BY <1>1 DEF Checkout, Goto
  <2>2. Progress(pc, Unproven, run, dock) BY <1>b, AccountFacts
  <2>3. Progress(pc', Unproven', run', dock') BY <1>e, <2>1, <2>2 DEF Progress
  <2> QED BY <1>a, <1>b, <1>e, <2>1, <2>3, AccountFacts, GoOnAccount
<1>2. CASE Plan
  <2>1. PICK unloaded \in SUBSET Weighed :
          /\ run' = [run EXCEPT !.stacks = ChangedStacks(unloaded),
                                !.todo = ChangedStacks(unloaded),
                                !.vanished = run.previous \ StacksAt(head),
                                !.undecided = unloaded # {}]
          /\ pc' = IF ChangedStacks(unloaded) = {} THEN "sweep" ELSE "prepare"
    BY <1>2 DEF Plan, Goto
  <2>2. UNCHANGED <<disk, st, dock, proven>> /\ pc = "plan" BY <1>2 DEF Plan
  <2>3. /\ run'.new = run.new /\ run'.stacks = ChangedStacks(unloaded)
        /\ run'.todo = ChangedStacks(unloaded)
    BY <1>b, <2>1, AccountFacts DEF Run
  <2>4. Unproven \subseteq StacksAt(head)
    BY <1>b, <1>c, <2>2, AccountFacts DEF Progress, WriteAheadInv
  <2>5. Unproven = {} \/ (~run.diff /\ (run.pending = {} \/ Unproven \subseteq run.pending))
    BY <1>b, <2>2, AccountFacts DEF Progress
  <2>6. Unproven \subseteq ChangedStacks(unloaded)
    BY <2>4, <2>5 DEF ChangedStacks, RestrictToNames
  <2>7. Unproven' = Unproven BY <1>e, <2>2
  <2> HIDE DEF ChangedStacks
  <2>8. Progress(pc', Unproven', run', dock')
    BY <2>1, <2>3, <2>6, <2>7 DEF Progress
  <2>9. pc' # "up" BY <2>1
  <2> QED BY <1>a, <1>b, <2>2, <2>3, <2>7, <2>8, <2>9, AccountFacts, GoOnAccount
<1>3. CASE Prepare
  <2>1. /\ UNCHANGED <<disk, st, run, dock, proven>> /\ pc = "prepare" /\ pc' = "pend"
        /\ run.stacks \subseteq StacksAt(run.new)
    BY <1>3 DEF Prepare, Goto, WriteAheadInv
  <2>2. Progress(pc, Unproven, run, dock) BY <1>b, AccountFacts
  <2>3. Progress(pc', Unproven', run', dock') BY <1>e, <2>1, <2>2 DEF Progress
  <2> QED BY <1>a, <1>b, <1>e, <2>1, <2>3, AccountFacts, GoOnAccount
<1>4. ASSUME NEW k, AbortApply(k), UNCHANGED <<dock, proven>> PROVE AccountInv'
  BY <1>a, <1>b, <1>g, <1>4, AccountFacts, AbortAccount DEF AbortApply
<1>5. CASE CheckoutFails \/ PlanFails \/ PrepareFails
  BY <1>a, <1>b, <1>4, <1>5, AccountFacts, AbortAccount DEF CheckoutFails, PlanFails, PrepareFails
<1>6. CASE SavePending \/ SavePendingFails
  <2>1. /\ pc = "pend" /\ UNCHANGED <<dock, proven>> BY <1>6 DEF SavePending, SavePendingFails
  <2>2. /\ Unproven \subseteq run.stacks /\ run.stacks \subseteq StacksAt(run.new)
        /\ run.todo = run.stacks
    BY <1>b, <2>1, AccountFacts DEF Progress
  <2> DEFINE next == WithPending(st, run.new, run.stacks)
  <2>3. /\ Covers(next, Unproven, proven) /\ next.pendingStacks = run.stacks
        /\ next.pendingCommit = run.new
    <3>1. st \in State /\ Covers(st, Unproven, proven) BY <1>b, AccountFacts
    <3> QED BY <1>c, <2>2, <3>1, CoversPending
  <2>4. KeptBy(next.pendingCommit, remote) BY <1>b, <2>3, AccountFacts
  <2>5. CASE SavePending
    <3>1. disk' = next /\ st' = next /\ run' = run /\ pc' = "up"
      BY <2>5 DEF SavePending, SaveAndGoto, Goto
    <3> HIDE DEF next
    <3>2. Progress(pc', Unproven', run', dock') BY <1>e, <2>1, <2>2, <3>1 DEF Progress
    <3> QED BY <1>a, <1>b, <1>e, <2>1, <2>3, <2>4, <3>1, <3>2, AccountFacts, GoOnAccount
  <2>6. CASE SavePendingFails
    <3>1. PICK left \in {disk, next} : AbortBeforeUp(st, left, 1) BY <2>6 DEF SavePendingFails
    <3> HIDE DEF next
    <3> QED BY <1>a, <1>b, <2>1, <2>3, <2>4, <3>1, AccountFacts, AbortAccount
  <2> QED BY <1>6, <2>5, <2>6
<1>7. ASSUME NEW s \in Stacks, Up(s) PROVE AccountInv'
  <2>1. /\ pc = "up" /\ s \in run.todo /\ dock' = [dock EXCEPT ![s] = run.new]
        /\ pc' = (IF run.todo = {s} THEN "watch" ELSE "up") /\ UNCHANGED <<disk, st, proven>>
    BY <1>7 DEF Up, Goto
  <2>2. /\ run'.new = run.new /\ run'.stacks = run.stacks /\ run'.todo = run.todo \ {s}
    BY <1>b, <1>7, AccountFacts DEF Up, Run
  <2>3. /\ Unproven \subseteq run.stacks /\ run.stacks \subseteq StacksAt(run.new)
        /\ run.todo \subseteq run.stacks
        /\ \A x \in Unproven : x \in run.todo \/ dock[x] = run.new
    BY <1>b, <2>1, AccountFacts DEF Progress
  <2>4. dock'[s] = run.new /\ \A x \in Stacks \ {s} : dock'[x] = dock[x]
    BY <2>1 DEF TypeOK
  <2>5. Unproven' \subseteq Unproven \cup {s} BY <2>1, <2>4 DEF Unproven
  <2>6. Unproven' \subseteq run.stacks BY <2>1, <2>3, <2>5
  <2>7. \A x \in Unproven' : x \in run.todo \ {s} \/ dock'[x] = run.new
    <3> TAKE x \in Unproven'
    <3>1. x \in Stacks BY DEF Unproven
    <3> QED BY <2>3, <2>4, <2>5, <3>1
  <2>8. /\ disk.pendingCommit = run.new /\ run.stacks \subseteq disk.pendingStacks
        /\ st.pendingCommit = run.new /\ run.stacks \subseteq st.pendingStacks
    BY <1>b, <2>1, AccountFacts DEF WriteAheadInv, WriteAhead, AccountInv
  <2>9. Covers(disk', Unproven', proven') /\ Covers(st', Unproven', proven')
    <3>1. Covers(disk, Unproven, proven) /\ Covers(st, Unproven, proven) BY <1>b, AccountFacts
    <3>2. Unproven' \subseteq disk.pendingStacks /\ Unproven' \subseteq st.pendingStacks
          /\ Unproven' \subseteq StacksAt(run.new)
      BY <2>3, <2>6, <2>8
    <3> HIDE DEF Unproven
    <3> QED BY <2>1, <2>8, <3>1, <3>2 DEF Covers
  <2>10. Progress(pc', Unproven', run', dock')
    <3>1. CASE pc' = "up" BY <2>2, <2>3, <2>6, <2>7, <3>1 DEF Progress
    <3>2. CASE pc' = "watch"
      <4>1. run.todo \ {s} = {} BY <2>1, <3>2
      <4> QED BY <2>2, <2>3, <2>6, <2>7, <3>2, <4>1 DEF Progress
    <3> QED BY <2>1, <3>1, <3>2
  <2> QED BY <1>a, <1>b, <2>1, <2>2, <2>8, <2>9, <2>10, AccountFacts, GoOnAccount
<1>8. ASSUME NEW k, ApplyIncomplete(k), Unproven' \subseteq Unproven, proven' = proven
      PROVE  AccountInv'
  BY <1>a, <1>b, <1>f, <1>8, AccountFacts, ReturnUnsavedAccount, SaveAndReturnAccount
  DEF ApplyIncomplete
<1>9. ASSUME NEW k, FailAndRevert(k), Unproven' \subseteq Unproven, proven' = proven,
             pc \in {"up", "watch"}
      PROVE  AccountInv'
  <2>1. /\ st' = WithOutcome(MarkFailed(st, run.new), "failed_apply") /\ disk' \in {st', disk}
        /\ run'.new = run.new /\ run'.stacks = run.stacks /\ pc' = "revert"
    BY <1>b, <1>9, AccountFacts DEF FailAndRevert, Goto, Run
  <2>2. Covers(st', Unproven', proven') /\ Covers(disk', Unproven', proven')
    BY <1>b, <1>h, <1>9, <2>1, AccountFacts, CoversLess
  <2>3. Unproven \subseteq run.stacks BY <1>b, <1>9, AccountFacts DEF Progress
  <2>4. Progress(pc', Unproven', run', dock') BY <1>9, <2>1, <2>3 DEF Progress
  <2>5. KeptBy(disk'.pendingCommit, remote') BY <1>a, <1>b, <1>h, <2>1, AccountFacts
  <2> QED BY <1>a, <1>b, <2>1, <2>2, <2>4, <2>5, AccountFacts, GoOnAccount
<1>10. ASSUME NEW s \in Stacks, UpFails(s) PROVE AccountInv'
  <2>1. pc = "up" /\ dock' \in {dock, [dock EXCEPT ![s] = Torn]} /\ proven' = proven
    BY <1>10 DEF UpFails
  <2>2. \A x \in Stacks : dock'[x] \in {dock[x], None, Torn} BY <2>1 DEF TypeOK
  <2>3. Unproven' \subseteq Unproven BY <2>1, <2>2, UnprovenShrinks
  <2> QED BY <1>8, <1>9, <1>10, <2>1, <2>3 DEF UpFails
<1>11. CASE WatchUnhealthy \/ WatchFails
  <2>1. pc = "watch" /\ UNCHANGED <<dock, proven>> BY <1>11 DEF WatchUnhealthy, WatchFails
  <2> QED BY <1>e, <1>8, <1>9, <1>11, <2>1 DEF WatchUnhealthy, WatchFails
<1>12. CASE TeardownFails
  <2>1. proven' = proven /\ \A x \in Stacks : dock'[x] \in {dock[x], None, Torn}
    BY <1>12 DEF TeardownFails, TornDown
  <2>2. Unproven' \subseteq Unproven BY <2>1, UnprovenShrinks
  <2> QED BY <1>8, <1>12, <2>1, <2>2 DEF TeardownFails
<1>13. CASE WatchHealthy
  <2>1. UNCHANGED <<disk, st, run, dock, proven>> /\ pc = "watch" /\ pc' = "teardown"
    BY <1>13 DEF WatchHealthy, Goto
  <2>2. Progress(pc, Unproven, run, dock) BY <1>b, AccountFacts
  <2>3. Progress(pc', Unproven', run', dock') BY <1>e, <2>1, <2>2 DEF Progress
  <2> QED BY <1>a, <1>b, <1>e, <2>1, <2>3, AccountFacts, GoOnAccount
<1>14. CASE Sweep \/ Teardown
  <2>1. /\ pc \in {"sweep", "teardown"} /\ proven' = proven /\ dock' = TornDown(run.vanished)
    BY <1>14 DEF Sweep, Teardown
  <2>2. \A x \in Stacks : dock'[x] \in {dock[x], None} BY <2>1 DEF TornDown
  <2>3. Unproven' \subseteq Unproven BY <2>1, <2>2, UnprovenShrinks
  <2>4. CASE run.undecided /\ Sweep
    BY <1>a, <1>b, <2>1, <2>3, <2>4, ReturnUnsavedAccount DEF Sweep
  <2>5. CASE ~(run.undecided /\ Sweep)
    <3>1. UNCHANGED <<disk, st, run>> /\ pc' = "promote" BY <1>14, <2>5 DEF Sweep, Teardown, Goto
    <3>2. \A x \in Unproven : dock[x] = run.new BY <1>b, <2>1, AccountFacts DEF Progress
    <3>3. \A x \in Unproven' : dock'[x] = run.new
      <4> TAKE x \in Unproven'
      <4>1. x \in Stacks /\ dock'[x] # None /\ x \in Unproven BY <2>3 DEF Unproven
      <4> QED BY <2>2, <3>2, <4>1
    <3>4. Progress(pc', Unproven', run', dock') BY <3>1, <3>3 DEF Progress
    <3>5. Covers(disk, Unproven', proven') /\ Covers(st, Unproven', proven')
      BY <1>b, <2>1, <2>3, AccountFacts, CoversLess
    <3> QED BY <1>a, <1>b, <3>1, <3>4, <3>5, AccountFacts, GoOnAccount
  <2> QED BY <2>4, <2>5
<1>15. CASE PromoteHealthy
  <2>1. /\ pc = "promote" /\ dock' = dock
        /\ SaveAndReturn(Promoted(st, run.new, StacksAt(head)), 0)
    BY <1>15 DEF PromoteHealthy
  <2>2. \A x \in Unproven : dock[x] = run.new BY <1>b, <2>1, AccountFacts DEF Progress
  <2>4. CASE disk' # Promoted(st, run.new, StacksAt(head))
    <3>1. proven' = proven BY <1>15, <2>4 DEF PromoteHealthy
    <3>2. Unproven' = Unproven BY <2>1, <3>1, UnprovenSame
    <3> QED BY <1>a, <1>b, <2>1, <2>4, <3>1, <3>2, ReturnUnsavedAccount DEF SaveAndReturn
  <2>5. CASE disk' = Promoted(st, run.new, StacksAt(head))
    <3>0. proven' = proven \cup {run.new} BY <1>15, <2>5 DEF PromoteHealthy
    <3>5. \A x \in Stacks : x \notin Unproven' BY <2>1, <2>2, <3>0 DEF Unproven
    <3>6. Unproven' = {} BY <3>5 DEF Unproven
    <3>7. PICK k : Return(k) BY <2>1 DEF SaveAndReturn
    <3>1. st \in State BY DEF TypeOK
    <3>2. /\ Covers(Promoted(st, run.new, StacksAt(head)), {}, proven \cup {run.new})
          /\ Promoted(st, run.new, StacksAt(head)).pendingCommit = None
      BY <1>c, <3>1, CoversPromoted
    <3>4. Covers(disk', {}, proven') /\ disk'.pendingCommit = None BY <2>5, <3>0, <3>2
    <3>3. KeptBy(disk'.pendingCommit, remote') BY <3>4 DEF KeptBy
    <3> QED BY <3>3, <3>4, <3>6, <3>7, ReturnAccount
  <2> QED BY <2>4, <2>5
<1> QED BY <1>1, <1>2, <1>3, <1>5, <1>6, <1>7, <1>10, <1>11, <1>12, <1>13, <1>14, <1>15
        DEF ApplyStep

\* doRevert takes back every stack of its cycle, or says which are left.
LEMMA RevertAccount ==
    ASSUME TypeOK, DaemonInv, LifecycleInv, AccountInv, RevertStep PROVE AccountInv'
<1>a. pc \in RevertSteps /\ UNCHANGED <<remote, proven>>
  BY DEF RevertSteps, RevertStep, RevertNoTarget, RevertCheckout, RevertCheckoutFails, RevertClear,
     RevertClearFails, RevertLoad, RevertLoadFails, RevertUp, RevertUpFails, RevertWatchHealthy,
     RevertWatchUnhealthy, RevertWatchFails, RevertSettle
<1>b. pc # "idle" BY <1>a DEF RevertSteps
<1>c. Unproven \subseteq run.stacks BY <1>a, <1>b, AccountFacts DEF Progress, RevertSteps
<1>d. run.failed = disk.pendingCommit BY <1>a DEF LifecycleInv
<1>e. dock' = dock => Unproven' = Unproven BY <1>a, UnprovenSame
<1>f. (\A x \in Stacks : dock'[x] \in {dock[x], None, Torn}) => Unproven' \subseteq Unproven
  BY <1>a, UnprovenShrinks
<1>g. /\ Degraded(GivenUp(st, run.failed))
      /\ Covers(Interrupted(st, run.failed, run.stacks), Unproven, proven)
      /\ Interrupted(st, run.failed, run.stacks).pendingCommit = run.failed
  <2>1. st \in State /\ run.failed \in CommitOrNone /\ Covers(st, Unproven, proven)
    BY <1>b, AccountFacts
  <2> QED BY <1>c, <2>1, CoversInterrupted, GivenUpDegraded
<1>1. CASE RevertNoTarget \/ RevertWatchUnhealthy
  BY <1>a, <1>b, <1>e, <1>g, <1>1, SaveAndReturnAccount DEF RevertNoTarget, RevertWatchUnhealthy
<1>2. ASSUME NEW k, RevertInterrupted(k) \/ RevertFailed(k), Unproven' \subseteq Unproven
      PROVE  AccountInv'
  <2>1. KeptBy(run.failed, remote) BY <1>b, <1>d, AccountFacts
  <2> QED BY <1>a, <1>b, <1>g, <1>2, <2>1, SaveAndReturnAccount DEF RevertInterrupted, RevertFailed
<1>3. CASE RevertCheckoutFails \/ RevertLoadFails \/ RevertWatchFails
  BY <1>e, <1>2, <1>3 DEF RevertCheckoutFails, RevertLoadFails, RevertWatchFails
<1>4. CASE RevertClearFails
  <2>1. \A x \in Stacks : dock'[x] \in {dock[x], None, Torn} BY <1>4 DEF RevertClearFails, TornDown
  <2> QED BY <1>f, <1>2, <1>4, <2>1 DEF RevertClearFails
<1>5. ASSUME NEW s \in Stacks, RevertUpFails(s) PROVE AccountInv'
  <2>1. \A x \in Stacks : dock'[x] \in {dock[x], None, Torn} BY <1>5 DEF RevertUpFails, TypeOK
  <2> QED BY <1>f, <1>2, <1>5, <2>1 DEF RevertUpFails
<1>6. CASE RevertCheckout
  <2>1. /\ st' = [st EXCEPT !.lastCheckoutCommit = RevertTarget] /\ pc' = "clear"
        /\ UNCHANGED <<disk, run, dock>>
    BY <1>6 DEF RevertCheckout, Goto
  <2>2. Covers(st', Unproven, proven) BY <1>b, <2>1, AccountFacts, ClaimsKept, ClaimsDecide
  <2>3. Progress(pc', Unproven', run', dock') BY <1>c, <1>e, <2>1 DEF Progress
  <2> QED BY <1>a, <1>b, <1>e, <2>1, <2>2, <2>3, AccountFacts, GoOnAccount
<1>7. CASE RevertClear
  <2>1. /\ dock' = TornDown(run.stacks \ StacksAt(head)) /\ pc' = "load" /\ UNCHANGED <<disk, st>>
        /\ run'.new = run.new /\ run'.stacks = run.stacks \cap StacksAt(head)
    BY <1>b, <1>7, AccountFacts DEF RevertClear, Goto, Run
  <2>2. \A x \in Stacks : dock'[x] \in {dock[x], None, Torn} BY <2>1 DEF TornDown
  <2>3. Unproven' \subseteq run'.stacks
    <3> SUFFICES ASSUME NEW x \in Unproven' PROVE x \in run'.stacks OBVIOUS
    <3>1. x \in Stacks /\ dock'[x] # None /\ x \in Unproven BY <1>f, <2>2 DEF Unproven
    <3> QED BY <1>c, <2>1, <3>1 DEF TornDown
  <2>4. Progress(pc', Unproven', run', dock') BY <2>1, <2>3 DEF Progress
  <2>5. Covers(disk, Unproven', proven') /\ Covers(st, Unproven', proven')
    BY <1>a, <1>b, <1>f, <2>2, AccountFacts, CoversLess
  <2> QED BY <1>a, <1>b, <2>1, <2>4, <2>5, AccountFacts, GoOnAccount
<1>8. CASE RevertLoad
  <2>1. /\ pc' = (IF run.stacks = {} THEN "rewatch" ELSE "reup") /\ UNCHANGED <<disk, st, dock>>
        /\ run'.new = run.new /\ run'.stacks = run.stacks /\ run'.todo = run.stacks
    BY <1>b, <1>8, AccountFacts DEF RevertLoad, Goto, Run
  <2>2. Progress(pc', Unproven', run', dock') BY <1>c, <1>e, <2>1 DEF Progress
  <2> QED BY <1>a, <1>b, <1>e, <2>1, <2>2, AccountFacts, GoOnAccount
<1>9. ASSUME NEW s \in Stacks, RevertUp(s) PROVE AccountInv'
  <2>1. /\ pc = "reup" /\ s \in run.todo /\ dock' = [dock EXCEPT ![s] = st.lastHealthyCommit]
        /\ pc' = (IF run.todo = {s} THEN "rewatch" ELSE "reup") /\ UNCHANGED <<disk, st>>
    BY <1>9 DEF RevertUp, RevertTarget, Goto
  <2>2. run'.new = run.new /\ run'.stacks = run.stacks /\ run'.todo = run.todo \ {s}
    BY <1>b, <1>9, AccountFacts DEF RevertUp, Run
  <2>3. Unproven \subseteq run.todo /\ run.todo \subseteq run.stacks
    BY <1>b, <2>1, AccountFacts DEF Progress
  <2>4. st.lastHealthyCommit \in proven \cup {None} BY <1>b, AccountFacts DEF Covers
  <2>5. dock'[s] = st.lastHealthyCommit /\ \A x \in Stacks \ {s} : dock'[x] = dock[x]
    BY <2>1 DEF TypeOK
  <2>6. Unproven' \subseteq Unproven \ {s} BY <1>a, <2>4, <2>5 DEF Unproven
  <2>7. Progress(pc', Unproven', run', dock')
    BY <2>1, <2>2, <2>3, <2>6 DEF Progress
  <2>8. Covers(disk, Unproven', proven') /\ Covers(st, Unproven', proven')
    BY <1>a, <1>b, <2>6, AccountFacts, CoversLess
  <2> QED BY <1>a, <1>b, <2>1, <2>2, <2>7, <2>8, AccountFacts, GoOnAccount
<1>10. CASE RevertWatchHealthy
  <2>1. pc = "rewatch" /\ pc' = "settle" /\ UNCHANGED <<disk, st, run, dock>>
    BY <1>10 DEF RevertWatchHealthy, Goto
  <2>2. Unproven = {} BY <1>b, <2>1, AccountFacts DEF Progress
  <2>3. Progress(pc', Unproven', run', dock') BY <1>e, <2>1, <2>2 DEF Progress
  <2> QED BY <1>a, <1>b, <1>e, <2>1, <2>3, AccountFacts, GoOnAccount
<1>11. CASE RevertSettle
  <2>1. /\ pc = "settle" /\ dock' = dock /\ SaveAndReturn(Reverted(st, run.failed), 0)
    BY <1>11 DEF RevertSettle
  <2>2. Unproven = {} BY <1>b, <2>1, AccountFacts DEF Progress
  <2>3. /\ Covers(Reverted(st, run.failed), Unproven, proven)
        /\ Reverted(st, run.failed).pendingCommit = None
    <3>1. st \in State /\ run.failed \in CommitOrNone /\ Covers(st, Unproven, proven)
      BY <1>b, AccountFacts
    <3> QED BY <2>2, <3>1, CoversReverted
  <2>4. KeptBy(None, remote) BY DEF KeptBy
  <2> QED BY <1>a, <1>b, <1>e, <2>1, <2>3, <2>4, SaveAndReturnAccount
<1> QED BY <1>1, <1>3, <1>4, <1>5, <1>6, <1>7, <1>8, <1>9, <1>10, <1>11 DEF RevertStep

\* AccountInv holds throughout when no run is forced and no push drops a stack.
LEMMA AccountInvariant == ASSUME Growing, Unforced PROVE Spec => []AccountInv
<1>1. Init => AccountInv
  <2> SUFFICES ASSUME Init PROVE AccountInv OBVIOUS
  <2>1. /\ pc = "idle" /\ st = New /\ disk = New /\ run.new = None
        /\ \A s \in Stacks : dock[s] = None
    BY DEF Init, NoRun
  <2>2. Unproven = {} BY <2>1 DEF Unproven
  <2>3. New.pendingCommit = None /\ New.pendingStacks = {} /\ New.lastHealthyCommit = None
    BY DEF New
  <2> QED BY <2>1, <2>2, <2>3 DEF AccountInv, Covers, KeptBy, Progress
<1>2. TypeOK /\ CommitKnown /\ WriteAheadInv /\ DaemonInv /\ LifecycleInv /\ AccountInv
        /\ [Next]_vars => AccountInv'
  <2> SUFFICES ASSUME TypeOK, CommitKnown, WriteAheadInv, DaemonInv, LifecycleInv, AccountInv,
                      [Next]_vars
               PROVE  AccountInv'
    OBVIOUS
  <2>1. CASE Next
    BY <2>1, EnvironmentAccount, BeginAccount, NormalAccount, RecoveryAccount, ApplyAccount,
       RevertAccount DEF Next, CodeStep
  <2>2. CASE UNCHANGED vars
    <3>1. UNCHANGED <<remote, disk, st, run, pc, dock, proven>> BY <2>2 DEF vars
    <3>2. Unproven' = Unproven BY <3>1, UnprovenSame
    <3> QED BY <3>1, <3>2 DEF AccountInv, Degraded
  <2> QED BY <2>1, <2>2
<1> QED BY <1>1, <1>2, TypesAndCommits, WriteAheadInvariant, DaemonInvariant, LifecycleInvariant,
        PTL DEF Spec

\* Between the runs of a daemon whose pushes drop no stack, with nothing pending
\* and not DEGRADED, every stack of the checkout that is up runs a commit that
\* once was the rollback target, or is torn: for every tree, every subset of
\* stacks a cycle touches, and every way recovery takes a cycle up again.
THEOREM UnprovenAccountedFor == ASSUME Unforced PROVE Spec => []UnprovenIsAccountedFor
<1>1. CASE ~Growing
  <2>1. UnprovenIsAccountedFor BY <1>1 DEF UnprovenIsAccountedFor
  <2> QED BY <2>1, PTL
<1>2. CASE Growing
  <2>1. AccountInv => UnprovenIsAccountedFor
    <3> SUFFICES ASSUME AccountInv, Resting, NEW s \in StacksAt(head)
                 PROVE  dock[s] \in proven \cup {None, Torn}
      BY DEF UnprovenIsAccountedFor
    <3>1. Unproven = {} BY DEF AccountInv, Resting, Covers
    <3>2. s \in Stacks BY DEF StacksAt
    <3> QED BY <3>1, <3>2 DEF Unproven
  <2> QED BY <1>2, <2>1, AccountInvariant, PTL
<1> QED BY <1>1, <1>2
=============================================================================
