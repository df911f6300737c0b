------------------------------ MODULE Reconcile ------------------------------
(***************************************************************************)
(* One ComposeLock deployment: the branch it follows, its Git checkout, its*)
(* state file, the stacks Docker runs for it, and the reconcile runs that  *)
(* move them (internal/reconcile/{reconcile,apply,revert,recovery}.go).    *)
(*                                                                         *)
(* The single-flight mutex and the lock on the state file let one run at a *)
(* time in, so a run is a sequence of steps of one process. pc names the   *)
(* step the run is at. A step ends where the process can be killed with a  *)
(* visible effect behind it: a moved checkout, a saved record, a stack put *)
(* up or taken down. Each step has an outcome for every way the call it    *)
(* makes can end: it succeeds, fails through the infrastructure, fails     *)
(* through the commit's own fault, or is cut short by a shutdown.          *)
(*                                                                         *)
(* Every unfavourable outcome the environment chooses (an error, an        *)
(* unhealthy verdict, a crash, a shutdown, a closed deploy window, a late  *)
(* recovery) is paid for from a budget of MaxFaults.                       *)
(***************************************************************************)
EXTENDS DeployState, FiniteSets

CONSTANTS
    Torn,        \* a stack that a failed compose up left half-applied
    Dir,         \* Dir[c][s]: version of stack s's own directory at commit c;
                 \* 0 when the commit has no such stack
    Input,       \* Input[c][s]: version of the files outside that directory
                 \* which the project of s reads
    Misc,        \* Misc[c]: version of the files of compose_dir in no stack
    Opaque,      \* stacks whose inputs cannot be listed statically
    SingleFile,  \* compose_file mode: one stack, without a directory
    PushTo,      \* PushTo[c]: the commits the branch can move to from c
    FirstCommit, \* the commit the operator cloned
    Modes,       \* the options runs are started with
    MaxFaults

ASSUME ReconcileAssumption ==
    /\ Torn \notin CommitOrNone
    /\ Dir \in [Commits -> [Stacks -> Nat]]
    /\ Input \in [Commits -> [Stacks -> Nat]]
    /\ Misc \in [Commits -> Nat]
    /\ Opaque \subseteq Stacks
    /\ SingleFile \in BOOLEAN
    /\ SingleFile => \A c \in Commits, s \in Stacks : Dir[c][s] # 0
    /\ PushTo \in [Commits -> SUBSET Commits]
    /\ FirstCommit \in Commits
    /\ Modes \subseteq [force : BOOLEAN, dry : BOOLEAN]
    /\ MaxFaults \in Nat

VARIABLES
    remote,     \* the branch head in the upstream repository
    head,       \* HEAD of the local checkout
    disk,       \* the record in the state file
    dock,       \* dock[s]: the commit stack s was last put up from, Torn, or
                \* None when it is down
    pc,         \* the step the current run is at, "idle" between runs
    st,         \* the run's copy of the record (equal to disk between runs)
    run,        \* the run's options and local variables
    cancelled,  \* the run's context has been cancelled
    faults,     \* unfavourable outcomes so far
    proven      \* history: the commits promoted to rollback target so far

vars == <<remote, head, disk, dock, pc, st, run, cancelled, faults, proven>>

Steps == {"idle", "fetch", "gate", "advance", "record",
          "recover", "resolve",
          "checkout", "plan", "sweep", "prepare", "pend", "up", "watch",
          "teardown", "promote",
          "revert", "clear", "load", "reup", "rewatch", "settle"}

Run == [force     : BOOLEAN,
        dry       : BOOLEAN,
        old       : CommitOrNone,    \* Result.OldCommit
        new       : CommitOrNone,    \* Result.NewCommit
        diff      : BOOLEAN,         \* ChangedFiles is the old..new diff, not nil
        previous  : SUBSET Stacks,   \* previousStacks
        pending   : SUBSET Stacks,   \* pendingStacks
        stacks    : SUBSET Stacks,   \* changedStacks, then the stacks to revert
        todo      : SUBSET Stacks,   \* those compose up has not been run for
        vanished  : SUBSET Stacks,
        undecided : BOOLEAN,         \* filterChanged's undetermined
        failed    : CommitOrNone]    \* doRevert's failedCommit

NoRun == [force |-> FALSE, dry |-> FALSE, old |-> None, new |-> None,
          diff |-> FALSE, previous |-> {}, pending |-> {}, stacks |-> {},
          todo |-> {}, vanished |-> {}, undecided |-> FALSE, failed |-> None]

TypeOK ==
    /\ remote \in Commits
    /\ head \in Commits
    /\ disk \in State
    /\ dock \in [Stacks -> CommitOrNone \cup {Torn}]
    /\ pc \in Steps
    /\ st \in State
    /\ run \in Run
    /\ cancelled \in BOOLEAN
    /\ faults \in Nat
    /\ proven \subseteq Commits

Init ==
    /\ remote = FirstCommit
    /\ head = FirstCommit
    /\ disk = New
    /\ dock = [s \in Stacks |-> None]
    /\ pc = "idle"
    /\ st = New
    /\ run = NoRun
    /\ cancelled = FALSE
    /\ faults = 0
    /\ proven = {}

-----------------------------------------------------------------------------
(* The tree of a commit, as far as the reconciler looks at it. *)

\* StacksFor: discovery at the checkout of c.
StacksAt(c) == {s \in Stacks : Dir[c][s] # 0}

\* deployedStacks
DeployedStacks(s, discovered) == discovered \cup s.lastHealthyStacks

\* restrictToNames: a name that is not discovered stays, as a stack without
\* files.
RestrictToNames(stacks, names) == IF names = {} THEN stacks ELSE names

\* touchedStackDirs and the first two cases of filterChanged: stacks the files
\* changed between two commits put in the cycle without loading a project.
TouchedStacks(old, new, stacks) ==
    {s \in stacks : SingleFile \/ Dir[old][s] # Dir[new][s]}

\* projectInputsRelevant, stackInputsMatch
InputsMatch(old, new, s) == s \in Opaque \/ Input[old][s] # Input[new][s]

\* filterChanged; unloaded are the stacks whose project failed to load.
FilterChanged(old, new, stacks, unloaded) ==
    LET touched == TouchedStacks(old, new, stacks)
    IN  touched \cup {s \in stacks \ (touched \cup unloaded) : InputsMatch(old, new, s)}

\* relevantChange, when every project at the checkout loads.
RelevantChange(old, new) ==
    \/ \E s \in Stacks : Dir[old][s] # Dir[new][s]
    \/ ~SingleFile /\ Misc[old] # Misc[new]
    \/ \E s \in StacksAt(old) : InputsMatch(old, new, s)

-----------------------------------------------------------------------------
(* How steps end. *)

Cost(k) == faults + k <= MaxFaults /\ faults' = faults + k

\* What a failed call costs: nothing extra once a shutdown has been paid for.
CallFailure == IF cancelled THEN 0 ELSE 1

Goto(step) == pc' = step /\ UNCHANGED cancelled

\* The run returns; what is not on disk is forgotten.
Return(k) ==
    /\ pc' = "idle"
    /\ run' = NoRun
    /\ cancelled' = FALSE
    /\ st' = disk'
    /\ Cost(k)

\* Save a last record and return. Save writes a temporary file and renames it:
\* when it fails the old record is still there, unless only the final fsync
\* of the directory failed.
SaveAndReturn(next, k) ==
    \/ disk' = next /\ Return(k)
    \/ disk' = disk /\ Return(k + 1)

\* Save a record and go on with it.
SaveAndGoto(next, step, k) ==
    /\ disk' = next
    /\ st' = next
    /\ Goto(step)
    /\ Cost(k)

-----------------------------------------------------------------------------
(* The environment: the branch, the operator, crashes and shutdowns. *)

Push ==
    /\ remote' \in PushTo[remote]
    /\ UNCHANGED <<head, disk, dock, pc, st, run, cancelled, faults, proven>>

\* `composelock pause` and `resume` take the state lock, so they come between
\* runs. A timed pause that lapses looks like a resume to the next run.
Pause ==
    /\ pc = "idle"
    /\ ~disk.paused
    /\ disk' = [disk EXCEPT !.paused = TRUE]
    /\ st' = disk'
    /\ UNCHANGED <<remote, head, dock, pc, run, cancelled, faults, proven>>

Resume ==
    /\ pc = "idle"
    /\ disk.paused
    /\ disk' = [disk EXCEPT !.paused = FALSE]
    /\ st' = disk'
    /\ UNCHANGED <<remote, head, dock, pc, run, cancelled, faults, proven>>

\* SIGINT or SIGTERM cancels the context of the run in flight.
Shutdown ==
    /\ pc # "idle"
    /\ ~cancelled
    /\ cancelled' = TRUE
    /\ Cost(1)
    /\ UNCHANGED <<remote, head, disk, dock, pc, st, run, proven>>

\* Stacks a step is taking down, and the ones it may be in the middle of
\* putting up.
BeingRemoved ==
    IF pc \in {"sweep", "teardown"} THEN run.vanished
    ELSE IF pc = "clear" THEN run.stacks \ StacksAt(head) ELSE {}

BeingPutUp ==
    IF pc \in {"up", "reup"} THEN {{}} \cup {{s} : s \in run.todo} ELSE {{}}

\* The process dies. The checkout, the state file and Docker keep what they
\* have; the next run starts from them.
Crash ==
    /\ pc # "idle"
    /\ \E down \in SUBSET BeingRemoved, torn \in BeingPutUp :
         dock' = [s \in Stacks |-> IF s \in down THEN None
                                   ELSE IF s \in torn THEN Torn ELSE dock[s]]
    /\ disk' = disk
    /\ Return(1)
    /\ UNCHANGED <<remote, head, proven>>

-----------------------------------------------------------------------------
(* Reconcile and runNormal. *)

\* Reconcile, reconcileLocked. A run that finds a pause, or DEGRADED without
\* --force, returns at once, and so does a dry run that finds something
\* pending: none of them changes anything here.
Begin(mode) ==
    /\ pc = "idle"
    /\ ~disk.paused
    /\ Degraded(disk) => mode.force
    /\ Pending(disk) => ~mode.dry
    /\ st' = disk
    /\ run' = [NoRun EXCEPT !.force = mode.force, !.dry = mode.dry]
    /\ Goto(IF Pending(disk) THEN "recover" ELSE "fetch")
    /\ UNCHANGED <<remote, head, disk, dock, faults, proven>>

FetchFails ==
    /\ pc = "fetch"
    /\ IF cancelled THEN disk' = disk /\ Return(0)
                    ELSE SaveAndReturn(WithOutcome(st, "failed_git"), 1)
    /\ UNCHANGED <<remote, head, dock, proven>>

Fetched == pc = "fetch" /\ ~cancelled

NothingToDo ==
    /\ Fetched
    /\ head = remote
    /\ ~CheckoutDrifted(st, head)
    /\ disk' = disk
    /\ Return(0)
    /\ UNCHANGED <<remote, head, dock, proven>>

SomethingToDo == head # remote \/ CheckoutDrifted(st, head)

SkipKnownBad ==
    /\ Fetched
    /\ SomethingToDo
    /\ IsKnownBad(st, remote) /\ ~run.force
    /\ SaveAndReturn(WithOutcome(st, "skipped_known_bad"), 0)
    /\ UNCHANGED <<remote, head, dock, proven>>

\* Mutant: a known-bad commit is only skipped, never refused.
EligibleThoughBad == Fetched /\ SomethingToDo

Eligible == Fetched /\ SomethingToDo /\ (IsKnownBad(st, remote) => run.force)

SkipOutsideWindow ==
    /\ Eligible
    /\ head # remote
    /\ disk' = disk
    /\ Return(1)
    /\ UNCHANGED <<remote, head, dock, proven>>

\* HEAD is at the branch but is not where the record says it should be: the
\* commit is applied without a list of changed files.
ReapplyDrifted ==
    /\ Eligible
    /\ head = remote
    /\ run' = [run EXCEPT !.old = head, !.new = remote, !.diff = FALSE]
    /\ Goto("gate")
    /\ UNCHANGED <<remote, head, disk, dock, st, faults, proven>>

SkipIrrelevant ==
    /\ Eligible
    /\ head # remote
    /\ st.lastHealthyCommit # None
    /\ ~RelevantChange(head, remote)
    /\ run' = [run EXCEPT !.old = head, !.new = remote, !.diff = TRUE]
    /\ Goto("advance")
    /\ UNCHANGED <<remote, head, disk, dock, st, faults, proven>>

\* An irrelevant change is treated as relevant when a project fails to load.
\* One without any file has no ChangedFiles (splitNUL), and applies every stack.
ConsiderChange ==
    /\ Eligible
    /\ head # remote
    /\ Cost(IF st.lastHealthyCommit = None \/ RelevantChange(head, remote) THEN 0 ELSE 1)
    /\ \E diff \in BOOLEAN :
         /\ RelevantChange(head, remote) => diff
         /\ run' = [run EXCEPT !.old = head, !.new = remote, !.diff = diff]
    /\ Goto("gate")
    /\ UNCHANGED <<remote, head, disk, dock, st, proven>>

\* restoreCheckout and recordOutcome, after a failure that left Docker alone.
\* Restoring runs through a shutdown, recording does not. s is the run's copy
\* of the record, left is what the failure left on disk.
AbortBeforeUp(s, left, k) ==
    \E notRestored \in {0, 1} :
        /\ head' = IF notRestored = 1 \/ run.old = None THEN head ELSE run.old
        /\ \/ disk' = left /\ Return(k + notRestored + CallFailure)
           \/ ~cancelled /\ disk' = WithOutcome(s, "failed_apply") /\ Return(k + notRestored)

\* abortApply: an infrastructure error leaves the commit eligible.
AbortApply(k) ==
    \/ AbortBeforeUp(st, disk, k)
    \/ AbortBeforeUp(MarkFailed(st, run.new), disk, k)

AdvanceCheckout ==
    /\ pc = "advance"
    /\ ~cancelled
    /\ head' = run.new
    /\ Goto("record")
    /\ UNCHANGED <<remote, disk, dock, st, run, faults, proven>>

AdvanceFails ==
    /\ pc = "advance"
    /\ AbortBeforeUp(st, disk, CallFailure)
    /\ UNCHANGED <<remote, dock, proven>>

RecordCheckout ==
    /\ pc = "record"
    /\ SaveAndReturn(WithCheckout(st, run.new), 0)
    /\ UNCHANGED <<remote, head, dock, proven>>

\* previousStacks at the gate: what is discovered at HEAD, or the last healthy
\* set when discovery fails.
GateStacks == {<<StacksAt(head), 0>>, <<st.lastHealthyStacks, 1>>}

GateFails ==
    /\ pc = "gate"
    /\ IF cancelled THEN disk' = disk /\ Return(0)
                    ELSE SaveAndReturn(WithOutcome(st, "failed_preflight"), 1)
    /\ UNCHANGED <<remote, head, dock, proven>>

DryRunReports ==
    /\ pc = "gate"
    /\ ~cancelled
    /\ run.dry
    /\ disk' = disk
    /\ Return(0)
    /\ UNCHANGED <<remote, head, dock, proven>>

\* Mutant: a dry run goes on after the gate.
GatePassesDryRuns ==
    /\ pc = "gate"
    /\ ~cancelled
    /\ run' = [run EXCEPT !.previous = DeployedStacks(st, StacksAt(head)), !.pending = {}]
    /\ SaveAndGoto([st EXCEPT !.preflightBlocks = 0], "checkout", 0)
    /\ UNCHANGED <<remote, head, dock, proven>>

\* The counter of blocked runs is cleared on the way; failing to save that is
\* only logged.
GatePasses ==
    /\ pc = "gate"
    /\ ~cancelled
    /\ ~run.dry
    /\ \E g \in GateStacks :
         /\ run' = [run EXCEPT !.previous = DeployedStacks(st, g[1]), !.pending = {}]
         /\ LET next == [st EXCEPT !.preflightBlocks = 0]
            IN  \/ SaveAndGoto(next, "checkout", g[2])
                \/ next # st /\ disk' \in {disk, next} /\ UNCHANGED st
                   /\ Goto("checkout") /\ Cost(g[2] + 1)
    /\ UNCHANGED <<remote, head, dock, proven>>

\* --force clears the counter before it is looked at, in memory.
BlockedSoFar == IF run.force THEN 0 ELSE st.preflightBlocks

\* Mutant: off by one at the limit.
GateBlocksOnceMore ==
    /\ pc = "gate"
    /\ ~cancelled
    /\ ~run.dry
    /\ BlockedSoFar <= MaxPreflightBlocks
    /\ run' = [run EXCEPT !.stacks = StacksAt(head), !.failed = None]
    /\ SaveAndGoto([st EXCEPT !.preflightBlocks = BlockedSoFar + 1], "revert", 1)
    /\ UNCHANGED <<remote, head, dock, proven>>

\* preflightBlocked, until the limit: put the last healthy commit back up.
GateBlocks ==
    /\ pc = "gate"
    /\ ~cancelled
    /\ ~run.dry
    /\ BlockedSoFar < MaxPreflightBlocks
    /\ \E g \in GateStacks :
         /\ run' = [run EXCEPT !.stacks = g[1], !.failed = None]
         /\ LET before == [st EXCEPT !.preflightBlocks = BlockedSoFar]
                next   == [st EXCEPT !.preflightBlocks = BlockedSoFar + 1]
            IN  \/ SaveAndGoto(next, "revert", g[2] + 1)
                \/ disk' \in {disk, next} /\ st' = before
                   /\ Goto("revert") /\ Cost(g[2] + 2)
    /\ UNCHANGED <<remote, head, dock, proven>>

\* preflightBlocked, at the limit.
GateGivesUp ==
    /\ pc = "gate"
    /\ ~cancelled
    /\ ~run.dry
    /\ BlockedSoFar >= MaxPreflightBlocks
    /\ SaveAndReturn(GivenUp(st, None), 1)
    /\ UNCHANGED <<remote, head, dock, proven>>

-----------------------------------------------------------------------------
(* recoverFromCrash. *)

\* Mutant: what is known of the commit that takes over is not asked.
SupersedingUnchecked(s) == IF remote # s.pendingCommit THEN remote ELSE None

\* supersedingCommit, when the fetch succeeds.
Superseding(s) ==
    IF remote # s.pendingCommit /\ (IsKnownBad(s, remote) => run.force)
    THEN remote ELSE None

\* The limits start over under --force. A revert in progress is finished
\* whatever the branch says; otherwise a newer commit takes over. run.new
\* holds that commit until the recovery is under way.
RecoverFetch ==
    /\ pc = "recover"
    /\ LET s == IF run.force THEN [st EXCEPT !.pendingAttempts = 0, !.pendingSince = TRUE]
                             ELSE st
       IN  /\ st' = s
           /\ \/ /\ RevertInProgress(s)
                 /\ run' = run
                 /\ Cost(0)
              \/ /\ ~RevertInProgress(s) /\ ~cancelled
                 /\ run' = [run EXCEPT !.new = Superseding(s)]
                 /\ Cost(0)
              \/ /\ ~RevertInProgress(s)
                 /\ run' = run
                 /\ Cost(CallFailure)
    /\ Goto("resolve")
    /\ UNCHANGED <<remote, head, disk, dock, proven>>

AtLimit == run.new = None /\ st.pendingAttempts >= MaxRecoveryAttempts

RecoverGivesUp ==
    /\ pc = "resolve"
    /\ run.new = None
    /\ \/ AtLimit /\ SaveAndReturn(GivenUp(st, st.pendingCommit), 0)
       \/ /\ ~AtLimit /\ st.pendingSince /\ ~run.force   \* recoveryExpired
          /\ SaveAndReturn(GivenUp(st, st.pendingCommit), 1)
    /\ UNCHANGED <<remote, head, dock, proven>>

\* Discovery, the snapshot or counting the attempt fails: the run ends with
\* the work still pending.
RecoverFails ==
    /\ pc = "resolve"
    /\ ~AtLimit
    /\ \/ disk' = disk /\ Return(IF RevertInProgress(st) THEN 1 ELSE CallFailure)
       \/ /\ RevertInProgress(st) \/ ~cancelled
          /\ disk' = WithAttempt(st)
          /\ Return(1)
    /\ UNCHANGED <<remote, head, dock, proven>>

RevertPending(k) ==
    /\ run' = [run EXCEPT !.stacks = RestrictToNames(StacksAt(head), st.pendingStacks),
                          !.failed = st.pendingCommit,
                          !.new = st.pendingCommit]
    /\ SaveAndGoto(WithAttempt(st), "revert", k)

RecoverResumesRevert ==
    /\ pc = "resolve"
    /\ ~AtLimit
    /\ RevertInProgress(st)
    /\ RevertPending(0)
    /\ UNCHANGED <<remote, head, dock, proven>>

RecoverUnhealthy ==
    /\ pc = "resolve"
    /\ ~AtLimit
    /\ ~RevertInProgress(st)
    /\ ~cancelled
    /\ RevertPending(1)
    /\ UNCHANGED <<remote, head, dock, proven>>

\* Mutant: a revert in progress does not keep the pending commit from being
\* applied again.
RecoverReappliesReverting ==
    /\ pc = "resolve"
    /\ ~AtLimit
    /\ ~cancelled
    /\ run' = [run EXCEPT !.new = st.pendingCommit, !.old = st.lastHealthyCommit,
                          !.previous = DeployedStacks(st, StacksAt(head)),
                          !.pending = st.pendingStacks]
    /\ SaveAndGoto(WithAttempt(st), "checkout", 0)
    /\ UNCHANGED <<remote, head, dock, proven>>

\* Re-apply the pending commit to the stacks it was touching, or the commit
\* that supersedes it to all stacks.
RecoverReapplies ==
    /\ pc = "resolve"
    /\ ~AtLimit
    /\ ~RevertInProgress(st)
    /\ ~cancelled
    /\ run' = IF run.new = None
              THEN [run EXCEPT !.new = st.pendingCommit, !.old = st.lastHealthyCommit,
                               !.previous = DeployedStacks(st, StacksAt(head)),
                               !.pending = st.pendingStacks]
              ELSE [run EXCEPT !.old = st.pendingCommit,
                               !.previous = DeployedStacks(st, StacksAt(head)),
                               !.pending = {}]
    /\ SaveAndGoto(WithAttempt(st), "checkout", 0)
    /\ UNCHANGED <<remote, head, dock, proven>>

-----------------------------------------------------------------------------
(* applyAndWatch. *)

Checkout ==
    /\ pc = "checkout"
    /\ ~cancelled
    /\ head' = run.new
    /\ Goto("plan")
    /\ UNCHANGED <<remote, disk, dock, st, run, faults, proven>>

CheckoutFails ==
    /\ pc = "checkout"
    /\ AbortBeforeUp(st, disk, CallFailure)
    /\ UNCHANGED <<remote, dock, proven>>

\* The stacks of this cycle. unloaded are the ones no changed file belongs to
\* and whose project fails to load when its inputs are wanted.
ChangedStacks(unloaded) ==
    LET stacks == StacksAt(head)
    IN  IF st.lastHealthyCommit = None THEN stacks
        ELSE IF run.diff THEN FilterChanged(run.old, run.new, stacks, unloaded)
        ELSE RestrictToNames(stacks, run.pending)

Weighed == IF st.lastHealthyCommit # None /\ run.diff
           THEN StacksAt(head) \ TouchedStacks(run.old, run.new, StacksAt(head))
           ELSE {}

Plan ==
    /\ pc = "plan"
    /\ \E unloaded \in SUBSET Weighed :
         /\ run' = [run EXCEPT !.stacks = ChangedStacks(unloaded),
                               !.todo = ChangedStacks(unloaded),
                               !.vanished = run.previous \ StacksAt(head),
                               !.undecided = unloaded # {}]
         /\ Cost(IF unloaded = {} THEN 0 ELSE 1)
         /\ Goto(IF ChangedStacks(unloaded) = {} THEN "sweep" ELSE "prepare")
    /\ UNCHANGED <<remote, head, disk, dock, st, proven>>

PlanFails ==
    /\ pc = "plan"
    /\ AbortApply(1)
    /\ UNCHANGED <<remote, dock, proven>>

\* tearDownStacks on the vanished stacks; it ignores a shutdown.
TornDown(down) == [s \in Stacks |-> IF s \in down THEN None ELSE dock[s]]

\* No stack changed: take down what vanished, then promote, unless a stack
\* could not be weighed.
Sweep ==
    /\ pc = "sweep"
    /\ dock' = TornDown(run.vanished)
    /\ IF run.undecided
       THEN disk' = disk /\ Return(0)
       ELSE Goto("promote") /\ UNCHANGED <<disk, st, run, faults>>
    /\ UNCHANGED <<remote, head, proven>>

\* Mutant: an apply cut short is not left pending.
ApplyIncompleteForgets(k) ==
    SaveAndReturn(ClearPending(WithOutcome(st, "failed_apply")), k)

\* applyIncomplete
ApplyIncomplete(k) ==
    IF cancelled THEN disk' = disk /\ Return(k)
                 ELSE SaveAndReturn(WithOutcome(st, "failed_apply"), k)

TeardownFails ==
    /\ pc \in {"sweep", "teardown"}
    /\ \E down \in SUBSET run.vanished : down # run.vanished /\ dock' = TornDown(down)
    /\ ApplyIncomplete(1)
    /\ UNCHANGED <<remote, head, proven>>

\* Load every project, check its env files, pull its images. A pending stack
\* the commit does not have has no files to load.
Prepare ==
    /\ pc = "prepare"
    /\ ~cancelled
    /\ run.stacks \subseteq StacksAt(head)
    /\ Goto("pend")
    /\ UNCHANGED <<remote, head, disk, dock, st, run, faults, proven>>

PrepareFails ==
    /\ pc = "prepare"
    /\ AbortApply(IF run.stacks \subseteq StacksAt(head) THEN CallFailure ELSE 0)
    /\ UNCHANGED <<remote, dock, proven>>

\* Mutant: a failed save is logged and the run goes on.
SavePendingBestEffort ==
    /\ pc = "pend"
    /\ st' = WithPending(st, run.new, run.stacks)
    /\ \/ disk' = st' /\ Cost(0)
       \/ disk' = disk /\ Cost(1)
    /\ Goto("up")
    /\ UNCHANGED <<remote, head, dock, run, proven>>

\* The record that makes a crash from here on recoverable.
SavePending ==
    /\ pc = "pend"
    /\ SaveAndGoto(WithPending(st, run.new, run.stacks), "up", 0)
    /\ UNCHANGED <<remote, head, dock, run, proven>>

\* When saving fails the run aborts, and records that from its old copy.
SavePendingFails ==
    /\ pc = "pend"
    /\ \E left \in {disk, WithPending(st, run.new, run.stacks)} :
         AbortBeforeUp(st, left, 1)
    /\ UNCHANGED <<remote, dock, proven>>

Up(s) ==
    /\ pc = "up"
    /\ ~cancelled
    /\ s \in run.todo
    /\ dock' = [dock EXCEPT ![s] = run.new]
    /\ run' = [run EXCEPT !.todo = @ \ {s}]
    /\ Goto(IF run.todo = {s} THEN "watch" ELSE "up")
    /\ UNCHANGED <<remote, head, disk, st, faults, proven>>

\* failAndRevert: the commit is marked in memory even if saving that fails.
FailAndRevert(k) ==
    LET next == WithOutcome(MarkFailed(st, run.new), "failed_apply")
    IN  /\ st' = next
        /\ run' = [run EXCEPT !.failed = run.new]
        /\ Goto("revert")
        /\ \/ disk' = next /\ Cost(k)
           \/ disk' = disk /\ Cost(k + 1)

UpFails(s) ==
    /\ pc = "up"
    /\ s \in run.todo
    /\ dock' \in {dock, [dock EXCEPT ![s] = Torn]}
    /\ \/ ApplyIncomplete(CallFailure)      \* shutdown, applyInterrupted
       \/ ~cancelled /\ FailAndRevert(1)
    /\ UNCHANGED <<remote, head, proven>>

WatchHealthy ==
    /\ pc = "watch"
    /\ ~cancelled
    /\ Goto("teardown")
    /\ UNCHANGED <<remote, head, disk, dock, st, run, faults, proven>>

WatchUnhealthy ==
    /\ pc = "watch"
    /\ ~cancelled
    /\ FailAndRevert(1)
    /\ UNCHANGED <<remote, head, dock, proven>>

WatchFails ==
    /\ pc = "watch"
    /\ ApplyIncomplete(CallFailure)
    /\ UNCHANGED <<remote, head, dock, proven>>

Teardown ==
    /\ pc = "teardown"
    /\ dock' = TornDown(run.vanished)
    /\ Goto("promote")
    /\ UNCHANGED <<remote, head, disk, st, run, faults, proven>>

PromoteHealthy ==
    /\ pc = "promote"
    /\ SaveAndReturn(Promoted(st, run.new, StacksAt(head)), 0)
    /\ proven' = IF disk' = Promoted(st, run.new, StacksAt(head))
                 THEN proven \cup {run.new} ELSE proven
    /\ UNCHANGED <<remote, head, dock>>

-----------------------------------------------------------------------------
(* doRevert. *)

RevertTarget == st.lastHealthyCommit

RevertNoTarget ==
    /\ pc = "revert"
    /\ RevertTarget = None
    /\ SaveAndReturn(GivenUp(st, run.failed), 0)
    /\ UNCHANGED <<remote, head, dock, proven>>

\* Mutant: reverting does not ask whether there is a commit to go back to.
RevertCheckoutUnguarded ==
    /\ pc = "revert"
    /\ ~cancelled
    /\ head' = RevertTarget
    /\ st' = [st EXCEPT !.lastCheckoutCommit = RevertTarget]
    /\ Goto("clear")
    /\ UNCHANGED <<remote, disk, dock, run, faults, proven>>

RevertCheckout ==
    /\ pc = "revert"
    /\ RevertTarget # None
    /\ ~cancelled
    /\ head' = RevertTarget
    /\ st' = [st EXCEPT !.lastCheckoutCommit = RevertTarget]
    /\ Goto("clear")
    /\ UNCHANGED <<remote, disk, dock, run, faults, proven>>

\* revertInterrupted
RevertInterrupted(k) == SaveAndReturn(Interrupted(st, run.failed, run.stacks), k)

\* revertFailed: a shutdown or an infrastructure error interrupts the revert,
\* anything else is the end of the road.
RevertFailed(k) ==
    \/ RevertInterrupted(k)
    \/ ~cancelled /\ SaveAndReturn(GivenUp(st, run.failed), k)

RevertCheckoutFails ==
    /\ pc = "revert"
    /\ RevertTarget # None
    /\ RevertFailed(CallFailure)
    /\ UNCHANGED <<remote, head, dock, proven>>

\* Take down the stacks of the cycle the target does not have.
RevertClear ==
    /\ pc = "clear"
    /\ dock' = TornDown(run.stacks \ StacksAt(head))
    /\ run' = [run EXCEPT !.stacks = @ \cap StacksAt(head)]
    /\ Goto("load")
    /\ UNCHANGED <<remote, head, disk, st, faults, proven>>

\* Discovering the target's stacks or one of the teardowns fails.
RevertClearFails ==
    /\ pc = "clear"
    /\ \E down \in SUBSET (run.stacks \ StacksAt(head)) : dock' = TornDown(down)
    /\ RevertFailed(1)
    /\ UNCHANGED <<remote, head, proven>>

RevertLoad ==
    /\ pc = "load"
    /\ run' = [run EXCEPT !.todo = run.stacks]
    /\ Goto(IF run.stacks = {} THEN "rewatch" ELSE "reup")
    /\ UNCHANGED <<remote, head, disk, dock, st, faults, proven>>

RevertLoadFails ==
    /\ pc = "load"
    /\ run.stacks # {}
    /\ RevertFailed(CallFailure)
    /\ UNCHANGED <<remote, head, dock, proven>>

\* Mutant: the stacks are put up from the files of the failed commit.
RevertUpFailedCommit(s) ==
    /\ pc = "reup"
    /\ ~cancelled
    /\ s \in run.todo
    /\ dock' = [dock EXCEPT ![s] = run.new]
    /\ run' = [run EXCEPT !.todo = @ \ {s}]
    /\ Goto(IF run.todo = {s} THEN "rewatch" ELSE "reup")
    /\ UNCHANGED <<remote, head, disk, st, faults, proven>>

RevertUp(s) ==
    /\ pc = "reup"
    /\ ~cancelled
    /\ s \in run.todo
    /\ dock' = [dock EXCEPT ![s] = RevertTarget]
    /\ run' = [run EXCEPT !.todo = @ \ {s}]
    /\ Goto(IF run.todo = {s} THEN "rewatch" ELSE "reup")
    /\ UNCHANGED <<remote, head, disk, st, faults, proven>>

RevertUpFails(s) ==
    /\ pc = "reup"
    /\ s \in run.todo
    /\ dock' \in {dock, [dock EXCEPT ![s] = Torn]}
    /\ RevertFailed(CallFailure)
    /\ UNCHANGED <<remote, head, proven>>

RevertWatchHealthy ==
    /\ pc = "rewatch"
    /\ run.stacks = {} \/ ~cancelled
    /\ Goto("settle")
    /\ UNCHANGED <<remote, head, disk, dock, st, run, faults, proven>>

RevertWatchUnhealthy ==
    /\ pc = "rewatch"
    /\ run.stacks # {}
    /\ ~cancelled
    /\ SaveAndReturn(GivenUp(st, run.failed), 1)
    /\ UNCHANGED <<remote, head, dock, proven>>

RevertWatchFails ==
    /\ pc = "rewatch"
    /\ run.stacks # {}
    /\ RevertInterrupted(CallFailure)
    /\ UNCHANGED <<remote, head, dock, proven>>

RevertSettle ==
    /\ pc = "settle"
    /\ SaveAndReturn(Reverted(st, run.failed), 0)
    /\ UNCHANGED <<remote, head, dock, proven>>

-----------------------------------------------------------------------------

Environment == Push \/ Pause \/ Resume \/ Shutdown \/ Crash

NormalStep ==
    \/ FetchFails \/ NothingToDo \/ SkipKnownBad \/ SkipOutsideWindow
    \/ ReapplyDrifted \/ SkipIrrelevant \/ ConsiderChange
    \/ AdvanceCheckout \/ AdvanceFails \/ RecordCheckout
    \/ GateFails \/ DryRunReports \/ GatePasses \/ GateBlocks \/ GateGivesUp

RecoveryStep ==
    \/ RecoverFetch \/ RecoverGivesUp \/ RecoverFails
    \/ RecoverResumesRevert \/ RecoverUnhealthy \/ RecoverReapplies

ApplyStep ==
    \/ Checkout \/ CheckoutFails \/ Plan \/ PlanFails
    \/ Sweep \/ TeardownFails \/ Prepare \/ PrepareFails
    \/ SavePending \/ SavePendingFails
    \/ \E s \in Stacks : Up(s) \/ UpFails(s)
    \/ WatchHealthy \/ WatchUnhealthy \/ WatchFails
    \/ Teardown \/ PromoteHealthy

RevertStep ==
    \/ RevertNoTarget \/ RevertCheckout \/ RevertCheckoutFails
    \/ RevertClear \/ RevertClearFails \/ RevertLoad \/ RevertLoadFails
    \/ \E s \in Stacks : RevertUp(s) \/ RevertUpFails(s)
    \/ RevertWatchHealthy \/ RevertWatchUnhealthy \/ RevertWatchFails
    \/ RevertSettle

CodeStep == NormalStep \/ RecoveryStep \/ ApplyStep \/ RevertStep

Next == Environment \/ CodeStep \/ \E mode \in Modes : Begin(mode)

Spec == Init /\ [][Next]_vars

-----------------------------------------------------------------------------
(* Fairness: a started run is carried on, and poll or cron starts another. *)

Fairness ==
    /\ WF_vars(CodeStep)
    /\ WF_vars(\E mode \in Modes : ~mode.force /\ ~mode.dry /\ Begin(mode))

FairSpec == Spec /\ Fairness

-----------------------------------------------------------------------------
(* Invariants. *)

\* Nothing is in flight as far as the state file can tell.
Resting == pc = "idle" /\ ~Pending(disk) /\ ~Degraded(disk)

\* ... and the checkout is where the record says it is.
Settled == Resting /\ head = ExpectedCheckout(disk)

\* Putting stack s up from commit c or from commit d gives the same containers.
SameStack(c, d, s) == Dir[c][s] = Dir[d][s] /\ Input[c][s] = Input[d][s]

ApplySteps == {"checkout", "plan", "sweep", "prepare", "pend", "up", "watch",
               "teardown", "promote"}

\* Write-ahead: from the first compose up of a commit until the run leaves
\* applyAndWatch, the state file names that commit and every stack being
\* touched as pending, and HEAD is at it, so that recoverFromCrash finds them
\* whenever the process dies (apply.go:271).
WriteAhead ==
    pc \in {"up", "watch", "teardown"} =>
        /\ disk.pendingCommit = run.new
        /\ run.stacks \subseteq disk.pendingStacks
        /\ head = run.new

\* DEGRADED is final: no work is left pending behind it, so that the forced
\* run that ends it decides afresh instead of resuming (degrade).
DegradedNotPending == Degraded(disk) => ~Pending(disk)

\* doRevert never falls back to a commit the deployment knows to be bad, while
\* the branch only moves forward.
RollbackTargetNotKnownBad == ~IsKnownBad(disk, disk.lastHealthyCommit)

\* Without --force no compose up, watch or promotion is ever for a commit
\* recorded as failed: not through the branch (runNormal), not through a
\* pending record and not through a superseding commit (recoverFromCrash).
KnownBadNotApplied ==
    pc \in ApplySteps => ~IsKnownBad(disk, run.new)

\* A revert the state file knows of is finished before anything is applied
\* again, whatever has been pushed meanwhile (recoverFromCrash).
RevertFinishesFirst == pc \in ApplySteps => ~RevertInProgress(disk)

\* No push takes a stack away.
Growing == \A c \in Commits : \A d \in PushTo[c] : StacksAt(c) \subseteq StacksAt(d)

\* A stack of the checkout that runs a commit which never became a rollback
\* target is accounted for: between runs the state file says that something is
\* pending, or that the deployment is DEGRADED. A commit that supersedes a
\* pending one and drops a stack is the exception, since its own pending record
\* takes the place of the one that named the stack (applyAndWatch).
UnprovenIsAccountedFor ==
    Growing /\ Resting =>
        \A s \in StacksAt(head) : dock[s] \in proven \cup {None, Torn}

\* The streak of blocked runs ends in DEGRADED at the limit (preflightBlocked).
PreflightBlocksBounded == disk.preflightBlocks <= MaxPreflightBlocks

\* No commit is irrelevant to another.
EveryCommitMatters == \A c, d \in Commits : c # d => RelevantChange(c, d)

\* compose_file mode, without --force: whenever nothing is in flight Docker runs
\* the rollback target, because every apply ends in a promotion, a finished
\* revert, a pending record or DEGRADED; only a pre-flight restore killed
\* half-way can leave a torn stack. The expected checkout is that target too,
\* unless a run took an irrelevant commit for the next one (runNormal).
TargetIsDeployed ==
    SingleFile /\ Resting /\ disk.lastHealthyCommit # None =>
        /\ \A s \in Stacks : dock[s] \in {disk.lastHealthyCommit, Torn}
        /\ EveryCommitMatters => ExpectedCheckout(disk) = disk.lastHealthyCommit

-----------------------------------------------------------------------------
(* Action properties. *)

\* A dry run (`composelock check`) never puts a stack up or takes one down.
DryRunNeverTouchesCompose == [][run.dry => UNCHANGED dock]_vars

-----------------------------------------------------------------------------
(* Liveness. *)

\* Once faults and pushes have stopped and unless it stays paused, the
\* deployment follows the branch head, has given up as DEGRADED, or is refusing
\* a commit known to be bad. This is what settle() of invariant_test.go tests.
Converges ==
    <>[]~disk.paused =>
        <>[](\/ Degraded(disk)
             \/ IsKnownBad(disk, remote)
             \/ /\ head = remote
                /\ ExpectedCheckout(disk) = remote
                /\ ~Pending(disk))
=============================================================================
