# ComposeLock in TLA+

A model of [ComposeLock](../src/README.md), the daemon that keeps Docker Compose
deployments at the head of a Git branch and rolls back what turns out unhealthy.
TLC checks the modules on small instances, TLAPS proves the central safety
properties for all of them.

    tlc -workers 2 -config Daemon.cfg MCReconcile     # any run below
    tlapm ReconcileProofs.tla                         # any *Proofs module

## 1. The system

| Component | State it keeps | Operations | What makes it correct |
| --- | --- | --- | --- |
| Deployment record (`internal/state`) | the state file: rollback target and its stacks, failed commits, pending commit, stacks, attempts and revert flag, expected checkout, blocked-run streak, last result, pause | load, atomic save, mark a commit failed, clear pending, pause, resume | the file alone says what the next run must do |
| Reconcile runs (`internal/reconcile`) | HEAD, the record in memory and on disk, the running stacks | `Reconcile`, `runNormal`, `recoverFromCrash`, `applyAndWatch`, `doRevert` | write-ahead, no known-bad commit applied, reverts finished first, convergence, a decided DEGRADED |
| Change attribution (`filterChanged`, `relevantChange`) | none | from a diff to the stacks of a cycle | no change is lost, none is invented |
| Health watch (`internal/health`) | baseline, streaks, deadline | `Watch`, `evaluate` | healthy is sound, unhealthy has a cause, it ends |
| Concurrent stack watch (`watch.go`) | goroutines, semaphore, early stop | `watchStacks` | healthy only if unanimous, a failure is not taken for a cancellation |
| Pause and resume | a field of the record | `pause`, `resume` | no run while paused |
| Git checkout (`internal/git`) | HEAD, the remote-tracking branch | fetch, forced checkout, diff | HEAD moves whole or not at all |
| Single flight and state lock (`cmd`, `internal/reconcile`) | mutex, activity counter, lock file in exclusive or shared mode | lock, shared lock | a sync is alone; what several checks do at once harms nothing |
| Webhook server | one-slot trigger queue, worker | deliver, drain | a delivery leads to a run that sees its push, shutdown ends |
| Poll loop | a timer | poll | a run per interval |
| Deploy window (`internal/config`) | next opening | `Open`, `NextOpening` | no deploy outside, one soon after opening |
| Stack discovery (`internal/compose/discover.go`) | one cached answer under a fingerprint | `Discover` | a run is told the stacks of its checkout |
| Compose inputs (`internal/compose/inputs.go`) | none | `ProjectInputs` | no file a stack reads is missing from a list called complete |
| Health monitor (`monitor.go`) | memory and incident per stack | `Check` | no judgement of what a run was doing; one alert per incident, and one |
| Notifier (`internal/notify`, `commands.go`) | claims per sink and key | `SendThrottled`, drain | silence for an hour after a delivery, never without one |
| Heartbeat (`internal/heartbeat`) | none | ping after a run or a check | silent when a run hangs, and only then |
| Notification content (`discord.go`) | none | formatting | |
| Compose and Docker (`internal/compose`) | containers | up, down, load, pull, snapshot | |
| Configuration and command line | none | parse, validate | |

How they interact: a trigger (webhook delivery, poll, cron, `sync`, `check`)
calls `Reconcile` under a process mutex and a lock on the state file. A run
reads the record; if something is pending it recovers, otherwise it fetches and
decides whether the branch is to be applied. Applying is checkout, selecting the
stacks, pulling, saving a pending record, `compose up` stack by stack, watching
all stacks concurrently, removing the stacks that are gone, and promoting the
commit to rollback target. A commit that fails is recorded and its stacks are
put back to the rollback target and watched again; when that fails too, the
deployment is DEGRADED and waits for `sync --force`. Between runs the health
monitor looks at the same containers and reads the same record; it stays out of
a run's way by an activity counter, not by a lock. Both send notifications
through one throttle, and heartbeats when they are through. Checks (`check`)
share the lock with each other and the checkout with everyone.

What is hard: four kinds of state (HEAD, file, memory, Docker) change one at a
time and the process may die between any two changes; a shutdown and an
infrastructure error end a step differently from a commit's own fault; the
branch moves meanwhile; a save may fail with or without having replaced the
file; concurrent watches cancel each other; the monitor, the notifier and
several checks work without a lock on what they read. `PROJECT.json` lists each hazard at
its line.

## 2. Modules

| Module | Models | Variables |
| --- | --- | --- |
| `DeployState` | `state.State` and every update of it the reconciler makes, as operators on a record | none |
| `Reconcile` | `reconcile.go`, `apply.go`, `revert.go`, `recovery.go` | `remote` branch head, `head`, `disk` the state file, `dock` what each stack runs, `pc`, `st` the record in memory, `run` the run's locals, `cancelled` its context; `faults` and `proven` are book-keeping |
| `DocClaims` | statements of docs and tests that the code does not keep | those of `Reconcile` |
| `Lifecycle` | what the state file of an unforced deployment promises, without runs, stacks or faults | rollback target, commit on trial, phase, known-bad commits |
| `LifecycleMap` | how `Reconcile` implements `Lifecycle` | those of `Reconcile` |
| `HealthWatch` | `health.Watch` | the watched stack, options, phase, clock, deadline, baseline, polls, two streak counters, outcome |
| `WatchStacks` | `watchStacks` | phase, next stack, one outcome per watch, stop and shutdown flags, combined outcome, verdict |
| `Triggers` | `webhook/server.go`, the state lock, `config/window.go`, `windowTimer` | clock, newest push, newest accepted delivery, queue, server and worker phases, one run per process, readers of the lock, timer, what was taken on, held or missed |
| `StateLock` | what processes that share a checkout and a state file do between two git commands or two accesses to the file | branch, tracking branch, HEAD, record, lock holders, one run per process |
| `Monitor` | `monitor.go`, the activity counter, the heartbeats of runs and checks | containers, record, counter, own run, lock, the check's place and snapshots, memory, claims on incidents; `overlap` and `alerted` are book-keeping |
| `Notifier` | `notifier.go`, `rateLimitDelay`, `asyncNotifier` | process phase, age of each claim, one call per sender; whose claim it is, what was heard and told, what was freed are book-keeping |
| `Discovery` | `discover.go` | run under way, checkout on disk and the one being written, one call and one answer per caller, cache, failures |
| `Inputs` | `inputs.go`, `stackInputsMatch` | the checkout, calls of `visit`, `walkInclude` and `walkExtends` to be made, the walker's fields |
| `MCReconcile`, `MCHealthWatch`, `MCStateLock`, `MCDiscovery`, `MCInputs` | small instances for TLC | |
| `ReconcileProofs`, `ComposeProofs` (of `Discovery` and `Inputs`), `HealthWatchProofs`, `WatchStacksProofs`, `TriggersProofs`, `StateLockProofs`, `MonitorProofs`, `NotifierProofs` | theorems and proofs | |

**Reconcile.** `pc` names the call the run is at, and every call that leaves
something visible behind (moved HEAD, saved record, a stack up or down) is an
action. For each call there is an action per way it can end: `Up` and `UpFails`,
`WatchHealthy`, `WatchUnhealthy`, `WatchFails`, and so on; a shutdown turns the
next failing call into the branch the code takes for `ctx.Err()`. `Crash` may
happen at every step; it may leave a stack half up (`Torn`) or some of the
removed ones down. `SaveAndReturn` and `SavePendingFails` have the case in which
`Save` reports an error though its rename took effect. What the code does after
a step without another visible effect is in the same action: `Promoted`,
`GivenUp`, `Interrupted`, `Reverted` are whole records, as the code saves them.

Grouped as in the code: `NormalStep` is `runNormal` with its gate,
`RecoveryStep` is `recoverFromCrash`, `ApplyStep` is `applyAndWatch`,
`RevertStep` is `doRevert`; `Begin(mode)` is `Reconcile` up to the choice
between the first two, and `Environment` is pushes, pause, resume, shutdown and
crash.

Commits are trees reduced to versions: `Dir[c][s]` of a stack's own directory
(0: no such stack), `Input[c][s]` of files outside it that its project reads,
`Misc[c]` of files of `compose_dir` in no stack. A diff compares versions, which
is all that `filterChanged` and `relevantChange` look at. `PushTo` says how the
branch can move, so that a force-push is a choice of constants.

Left out of this module: wording, logging, notifications and history (no
decision reads them); `last_attempt_commit` and time stamps beyond being set;
Git retries and timeouts, folded into one failed call. One run is under way at
a time, as mutex and lock have it for everything but checks (see
`StateLock`). The pause expiry time is a `Resume` at any moment.

**Lifecycle.** A state file is settled, trying a commit, reverting or degraded: a
commit is tried, becomes the target, or is condemned and undone; the target is
restored; the deployment is given up. `LifecycleMap` reads the phase off `disk`
alone, so a save that fails, a record in memory that never reaches the disk, and a crash are steps in which
nothing happens, and a save that carries two changes at once has to be one
lifecycle step. `Settle` and `GiveUp` may learn the trial's commit as they go,
because `doRevert` saves what an earlier failed save did not.

**HealthWatch.** `Stacks` holds the instances to be watched: containers, what
they may report, how often they restart. A snapshot is a function from the
containers present to state, health and restart count. States the code does not tell apart are one value.
Docker chooses the next snapshot freely, except that the restart count of a
container does not fall. `Stall` is a host that sleeps or a slow call.

**WatchStacks.** What one watch does is a choice of outcome. A watch sees
`canceled` only after the early stop or a shutdown, and the two look the same to
it, as `context.Canceled` does in the code.

**Triggers.** A delivery is any request that passes `handleWebhook`'s tests, for
any push so far, at any time, so that losing, repeating and reordering need no
actions of their own. `select` chooses freely between a done context and a
trigger, as Go's does. A run is reduced to taking the lock or being turned away,
fetching, and deciding: fail, nothing new, outside the window, or take the push
on, which stands for everything `Reconcile` does with it. The clock is read twice,
by the window check and by `schedule`, and a minute may pass between the two.
A day has few minutes; timers count down, so that time needs no bound. A process
that ends forgets its queue and its timer, and a restarted one waits for a
trigger, as `cmdWebhook` does.

**StateLock.** `Reconcile` has one run at a time; here several processes hold
the lock in shared mode. A run is cut at each `git` command and at each access
to the file. A `check` goes through `runNormal` as far as line 119, which
includes three ways to save the record it loaded and one to move HEAD. Applying
is one step, since only the exclusive holder does it. A commit has one
`Content`: what `relevantChange` compares.

**Monitor.** A check is cut at the reads of the counter, the record and each
snapshot, and at each judgement. Runs of this process move the counter, those of
another process only hold the lock. The counter counts modulo parity above what
the check has read. The containers of a stack are the services that have one,
whether `EvaluatePreflight` objects, and one identity and restart count for all.
An alert is one step: nobody else uses its key, and module `Notifier` has the
steps in between.

**Notifier.** A claim's age, saturated at the interval, stands for its time.
The sinks' answers are free: accepted, refused, rate limited with any of
`RetryAfter`. A value too large for a `time.Duration` becomes negative or large,
as the platforms differ. `Exit` may lose what `asyncNotifier` was still sending;
it waits for the monitor.

**Discovery.** A directory is read in one step, and `git` writes one directory
per step. A file is one of four kinds: what `checkComposeFile` makes of it.
Fingerprints are the files' names and contents themselves, so that SHA-256 does
not collide.

**Inputs.** The recursion of `visit`, `walkInclude` and `walkExtends` is a stack of
pending calls, the deepest on top, in the order the code makes them. What Compose
reads is defined apart from the walk, as a reachability relation over files and
the directories they are resolved against, without `seen`, depth or order.

## 3. Runs

Bounds. Every unfavourable outcome (error, unhealthy verdict, crash, shutdown,
closed window, late recovery) costs one of `MaxFaults`. The failures that need a
history (a failed apply, the interruption of its revert, a failure of the
recovery, and one more while it is being resumed) need four, which `Daemon`
has. Two stacks are enough to have one changed and one not, one up and
one not yet, one present and one gone; four commits allow a good, a bad, a
superseding and an irrelevant one. `AttemptCap`, one above the limit, is where
the attempt counter stops counting. The limits themselves are smaller than the
code's (3 attempts, 3 blocked runs) in some runs, so that reaching them is
affordable, and the list of failed commits is cut at 2 instead of 16, so that
cutting it happens.

| Run | Distinct states | Question and result |
| --- | --- | --- |
| `Daemon` | 597 000 | Polls and webhooks on a deployment that grows a stack; four faults. `WriteAhead`: what is being applied is on record with its stacks, HEAD agrees. `DegradedNotPending`. `KnownBadNotApplied`: no way into `applyAndWatch` is open to a failed commit. `RevertFinishesFirst`. `UnprovenIsAccountedFor`: a stack on a commit that was never promoted means something is pending or DEGRADED (where pushes drop no stack; `NarrowedRevert` is the exception). `PreflightBlocksBounded`. `ImplementsLifecycle`, the refinement. All hold. |
| `Operator` | 525 000 | `--force` and dry runs as well, on a deployment that drops a stack: `RollbackTargetNotKnownBad` and `DryRunNeverTouchesCompose` still hold. The others are about runs without `--force`. |
| `SingleFile` | 80 000 | `TargetIsDeployed`: in `compose_file` mode every stack runs the rollback target once the deployment is settled, a stack torn by a crash in the gate's restore excepted; and the expected checkout is that target, where no commit is irrelevant to another (`LostChange` has what happens otherwise). `Converges`: once faults and pushes stop and no pause remains, the deployment follows the branch, refuses a bad commit, or is DEGRADED. |
| `Watch` | 307 000 | One container with every report, restart count and stall, and two containers whose streaks and identities could be mixed up, with and without expected containers: `HealthyIsSound` and `UnhealthyIsJustified`, stated over the whole history of polls rather than over the streak counters, and `Terminates`. |
| `Stacks` | 2 933 | Four stacks, two slots: `HealthyIsUnanimous`, `FailureIsReported`, `Returns` (nothing deadlocks). |
| `Triggers` | 101 000 | Two pushes, a cron `sync`, a `status`, a window across midnight on a day of four minutes. `DeliveryIsHeeded`: one slot is enough, an accepted delivery is never left behind the fetch of the last run. `NoRunIsLeftBehind`: an ended process holds no lock. `DeliveryIsAnswered`, `Stops`. The runs that the lock turns away are counted as missed: nothing repeats them. |
| `Notifier` | 178 000 | Two senders, one of which a shutdown cancels, two sinks, one key and the empty one. `SilenceIsEarned`: a key is silent only after a delivery or during its claimant's post. `AcceptedStaysSilent`: a delivery silences until a reset, or until a release that a reset has overtaken. `SendersReturn`. |
| `Monitor` | 275 000 | One stack, two sinks either of which may refuse, two checks of trouble to an alert. `JudgesQuietTimesOnly`: the two reads of the counter are enough for runs of the same process. `ToldBeforeSilent`: the monitor falls silent about an incident only when each sink was told of this very incident, also across resets, expired claims and failed sends. `BrokenIsAlerted`, sink by sink: one that fails does not keep the other from being told. `HungRunGoesSilent`, `AliveIsHeard`. |
| `Discovery` | 14 800 | Eighteen checkouts of three directories, two of which share a project name; two reads that fail. `DiscoverIsCurrent`: a run's answer is what its checkout holds, cached or not, errors included. |
| `Inputs` | 5 700 | A compose file and four fragments, 825 projects. `NoInputIsMissed`, `NothingElseMatches`: the list is complete or says that it is not, through cycles and past the depth limit, for projects in which each file is reached under one directory. |
| `StateLock` | 464 000 | Two processes, three commits, a branch that moves anywhere. `ChecksKeepContent`: checks move HEAD past each other, never over a change a sync has not dealt with. `OnlySyncsJudge`: the records they write back overwrite no outcome of a sync. |

`Convergence.cfg` (21 000 states, not a listed run) checks `Converges` for two
stacks in `compose_dir` mode as well.

Bounds of the others. `Notifier`: `Interval` 2 and `MaxFlight` 1 let a claim age
during a post, expire, and be released late; the code's are an hour and about
35 seconds. A second sender is enough to overtake a first. `Monitor`: a stack
has no containers, good ones or bad ones; restart counts and container identities
have one value here, two restart counts in `RepeatedAlert`, and any number in
`MonitorProofs` (trouble that is over by the next check is what a restart adds,
and a bad container that recovers is such trouble too). The streak stops at its
limit, where the code counts on: it is only compared with 0 and with the limit. Several stacks are independent but for the shared counter, and `MonitorProofs` covers any
number. `Discovery`: among the checkouts are two that differ only in what a file
holds, some without a stack, with one project for two directories, and with a
broken file. `Inputs`: `MaxIncludeDepth` 3 instead of 16, so that a chain passes
it. `StateLock`: two commits alike and one different are what the properties
tell apart; `StateLockProofs` covers any number of processes.

Fairness. `WF(CodeStep)`: every call of a run returns, since Git, Docker and
watch calls all have timeouts or deadlines. `WF` of an unforced, not dry
`Begin`: the poll loop or cron starts runs for ever. No fairness is assumed of
pushes, operators, or of favourable outcomes: it is the exhaustion of
`MaxFaults` that says that faults stop. In `HealthWatch` and `WatchStacks` the
loop and the goroutines go on, the stall and the shutdown need not happen. In
`Triggers` the worker, due timers and the server's shutdown go on; other
processes may hang with the lock, and neither time nor deliveries are fair. In
`Notifier` each sender goes on, because client and contexts have timeouts, and
so does the exit of a draining process. In `Monitor` the ticker and the steps of
a check go on; runs may begin or not, and may hang.

### Disagreements between code and docs or tests

Each is a claim of a doc or a test that TLC refutes with the configuration of
its name. `LostChange` is among the listed runs.

| Configuration | Claim | What the trace shows |
| --- | --- | --- |
| `LostChange` (`MCReconcile`) | compose-dir.md:36, drift makes the next run weigh the stack again | The run dies after the checkout and before its pending record; a push before the next run makes the diff start at the unapplied commit, and a stack changed only by it is never put up. |
| `DryRunWrites` (`MCReconcile`) | README.md:117, `check` writes no state | A dry run that finds an irrelevant push takes the early exit that moves HEAD and saves the record; no fault needed. |
| `DegradedPending` (`MCReconcile`) | invariant_test.go:275, never DEGRADED and pending | A forced run writes its pending record with the result still `degraded` and dies. |
| `HeldPush` (`Triggers`) | running.md:65, a held push is reconciled the moment the window opens | The run reads the clock a minute before the opening, `windowTimer.schedule` reads it again after; the timer is set for the next day. |
| `StaleStacks` (`MCDiscovery`) | cache_test.go:47, a new subdirectory must invalidate the cache | The monitor takes its fingerprint before a checkout and walks after it, and the new stacks are kept under the old fingerprint. A run that goes back to the old checkout, as a revert does, is told of the new stacks. It needs a record that names no stacks. |
| `MissedInput` (`MCInputs`) | how-it-works.md:11, every input reachable counts, nested includes too | A fragment included twice under two project directories is walked once (`seen`, inputs.go:111), so what its relative paths mean under the second is missing from a list called complete. |
| `RepeatedAlert` (`Monitor`) | notifications.md:25 and :113, one alert per incident, and no duplicates where the other sink failed | Of two sinks one accepts the alert and the other does not; a successful run resets the throttle, or the hour is over, and the next check tells both. With one sink it cannot happen (`OneAlert`). |
| `HalfMovedHead` (`MCStateLock`) | README.md:117, the shared lock keeps `check` from reading a HEAD that moves | Another check moves HEAD between the two queries of `Preview` and the use of their answers. `ChecksKeepContent` is why no harm comes of it. |

Two more need no file of their own. `RepeatsAreSuppressed` in `Notifier.cfg`
(notifications.md:5, "suppressed for an hour per key"): a sender whose claim a
reset has removed fails and releases the claim another sender has made since.
`SilenceIsEarned` with `RetryAfter = {200}`, beyond `MaxDuration`: on some
platforms the delay becomes negative, and `deliver` takes the refusal for a
delivery (discord.go:342, notifier.go:141).

Eight more configurations refute claims of `DocClaims` in the same way
(`tlc -config X.cfg MCReconcile`): `NarrowedRevert` (a superseding commit's
pending record replaces the interrupted one's stacks; when it fails, a stack it
has dropped stays on the interrupted commit, though a revert should end "as the
rollback target describes it", compose-dir.md:38), `Undecided` (a cycle that
could not weigh one stack becomes the rollback target once another stack
changed, compose-dir.md:36), `RewoundTarget` (after a force-push back, a
rollback target can be known-bad, invariant_test.go:279), `LostRemoved` (a crash
during the teardown of removed stacks, followed by a revert, leaves them down,
compose-dir.md:38), `LeakedStack` (a recovery dies after its checkout; the next
one looks for stacks to remove at the new HEAD only and leaves one up,
compose-dir.md:38), `EndlessRecovery` (the attempt limit is not compared when
the branch has moved past the pending commit, how-it-works.md:57),
`ForcedNoOp` (`sync --force` on a DEGRADED deployment with HEAD at the branch
does nothing, how-it-works.md:57) and `GateRevertCrash` (the restore the
pre-flight gate starts has no pending record, how-it-works.md:55).

## 4. Proofs

All theorems hold for every value of the constants (any sets of commits, stacks,
processes, senders; any trees, branch history and fault budget) that satisfies
the assumptions named in the modules: types, and positive limits.

`ReconcileProofs`, whatever the options
- `TypeCorrect`: `Spec => []TypeOK`. `TypeOK` is not inductive: `RevertCheckout`
  and `Checkout` move HEAD to a commit that the record or the run must name.
  `CommitKnown` adds that the run has a commit wherever it goes forward, and
  that a recovery has a pending one.
- `WriteAheadHolds`: `Spec => []WriteAhead`. `WriteAheadInv` also follows HEAD
  from the checkout on (steps `Recorded`), because `SavePending` itself does not
  look at it.
- `BlocksBounded`: `Spec => []PreflightBlocksBounded`, from the same bound on the
  copy in memory, which a failed save leaves apart from the one on disk.
- `DryRunIsDry`: `Spec => DryRunNeverTouchesCompose`. A dry run never gets past
  the gate: an invariant lists the steps it can be at, and none of them touches
  `dock`.
- `TargetNotBad`: `Spec => []RollbackTargetNotKnownBad` for a branch that only
  moves forward (`OnlyForward`: some numbering of the commits grows along every
  push), `--force` and dry runs included. `OrderInv` puts what is pending, and what a
  run applies or undoes, strictly after the target, HEAD and the expected
  checkout not before it, and all of them up to the branch head. A commit is
  marked failed only when it is one of the former, and a promotion moves the
  target to the run's commit and leaves nothing pending.
  `RewoundTarget` is why the hypothesis is there.

`ReconcileProofs`, for deployments run without `--force` (`Unforced`, the options
of polls and webhooks)
- `DegradedIsFinal`, `KnownBadStaysOut`, `RevertComesFirst`. The three are
  proved together, from `DaemonInv`: both copies of the record keep the `Ledger`
  (a known-bad pending commit is being reverted; DEGRADED has nothing pending),
  they agree on failed commits except while a revert is under way, a run's
  commit is not known bad from the moment it is chosen, no revert is in progress
  on the way forward, and the pending commit is the run's own while it is put
  up. The key lemma, `MarkFailedBook`, is about the bounded list: marking a
  commit makes it known bad and makes no other commit so.

  The assumption is needed: with `--force` TLC refutes `DegradedNotPending`
  (`DegradedPending`), and applying a known-bad commit is what `--force` is for.
- `LifecycleImplemented`: `Spec => ImplementsLifecycle`. Init maps to Init, and
  every step of `Reconcile` to a lifecycle step or a stutter. `LifecycleInv`
  compares disk and memory: they agree on the target and on what is pending, and
  on the failed commits except that memory may know one more, the commit being
  reverted. One lemma per whole record the code saves (given up, interrupted,
  reverted, promoted) says which lifecycle step it is.
- `TargetDeployed`: `Spec => []TargetIsDeployed`. In `compose_file` mode every
  cycle has every stack; the invariant says at each step which stacks already run
  the run's commit, which the target, and which may be torn. The property used to
  say that the checkout is what runs. The proof showed that this needs every
  commit to matter: a run that takes an irrelevant commit for the next one moves
  the expected checkout and no stack (`runNormal`).
- `UnprovenAccountedFor`: `Spec => []UnprovenIsAccountedFor`, where pushes drop no
  stack (`Growing`, part of the property). `AccountInv` follows the stacks that
  run a commit never promoted: both records name them, the pending commit has
  them, each step of a run says how far it has come with them (`Progress`), and
  the branch has every stack of the pending commit and of the run's
  (`KeptBy`), so that a superseding commit takes them over.

`HealthWatchProofs`
- `HealthySound`, `UnhealthyJustified`, `WatchTypes`, for any containers, options,
  restarts and histories of any length. The verdicts come from two counters per
  container, the properties speak of the whole history. `WatchInv` ties them: a
  counter is at least the length of the run of bad polls that ends now, no run has
  reached the limit, and a counter is at most the number of bad polls since the
  last good one.

`ComposeProofs`
- `DiscoveryCurrent`: `Spec => []DiscoverIsCurrent` when the run is the only
  caller (`Alone`), for any checkouts, numbers of directories and files, and
  failed reads. `DiscoverInv` says that the checkout stands still during a call,
  how far the fingerprint and the list of stacks have come (`Printed`, `Walked`),
  and that what is kept describes a checkout with the fingerprint it is kept
  under. A fingerprint has one checkout (`FingerprintTells`), so a hit is right
  whatever happened since. The lists are sorted by `SortFunc`, the listing of a
  set in a strict order; that there is one (`SortExists`) is an induction on the
  size of the set, with a set of sizes in place of a predicate (`SetInduction`).
  `StaleStacks` is why the hypothesis is there.
- `NoneMissed`, `NothingElse`, `WalkTypes`: `NoInputIsMissed` and
  `NothingElseMatches` for any finite sets of directories and paths, any entries
  in the files, cycles included, and any `MaxIncludeDepth`. What Compose reads
  (`ReadIn`) is a recursion up to a bound; `ReadClosed` shows that nothing new is
  found past it (every step before it that finds a file adds to a set that has
  at most `Longest` members), `ReadLeast` that nothing else is in it. Neither
  property is inductive. `InputsInv` adds that a call to be made is for something
  that is read (`Leads`), that everything listed is read, and, as long as the
  list has no gap, that each reference, entry and file met was dealt with or has
  a call to be made (`Thorough`). When no call is left, `AllWalked` turns this
  into "every file read was looked into", by `ReadLeast`. It needs `Unambiguous`,
  that a file is read under one directory, which `NoInputIsMissed` asks for;
  `MissedInput` shows what happens without. `NothingElse` does not need it.

`WatchStacksProofs`
- `Unanimous`, `FailureShows`, `WatchTypes`, for any number of stacks and slots. `WatchInv`
  says who may have caused a cancellation, that combining starts only when all
  have returned, and what the combined outcome says of the stacks already
  combined.

`TriggersProofs`
- `NoDeliveryForgotten`, `DrainWaits`, `TriggerTypes`, for any pushes, processes and window.
  `DeliveryIsHeeded` is not inductive: `TriggersInv` adds that the worker waits
  for its run, that one run holds the lock, and that what a fetch saw is no older
  than anything accepted, taken on or held before it. Without the lock the last
  part fails: a run could put back what a later fetch has taken on.

`StateLockProofs`
- `LockTypeOK`, `ContentKept`, `JudgementsKept`, from `LockInv`. The properties
  are not inductive: a check acts on a HEAD and a record it read before others
  changed them. `Fresh` and `Steady` say in what they still agree: what is
  healthy and bad, and the content of the commits seen.

`MonitorProofs`
- `MonitorTypes`, which the others rest on; `QuietTimes`, because a run that was
  active since the first read of the counter has left its mark in it (`Marked`).
- `SilentOnceTold`, for any number of sinks. `ToldBeforeSilent` is not inductive:
  a check counts the sinks it passes over as told. `Claimed` adds that a claim on
  the key of the current incident was left by a sink that was told of it.
- `OneAlert`, for one sink, because an incident that was told of is remembered as
  such (`Told`). With two sinks it is false, as shown above.

`NotifierProofs`
- `NotifierTypes`, `SilenceEarned`, `AcceptedSilences`, assuming `InRange`: no
  sink asks for a delay a `Duration` cannot hold. `NotifierInv` adds that the
  owner of a claim knows its age and that nothing was told under the claim yet
  (`OwnersKnow`); that is what makes a late release harmless to a message that
  was delivered, unless it takes away somebody else's claim.

Only model-checked: liveness (`Converges`, `Terminates`, `Returns`,
`DeliveryIsAnswered`, `Stops`, `SendersReturn`, `BrokenIsAlerted`,
`HungRunGoesSilent`, `AliveIsHeard`), which needs fairness and ENABLED. Every
safety invariant a passing run checks is proved.

## 5. Not modelled, and the plan

Next, in this order:
1. `WatchStacks` composed with `HealthWatch` through an abstract watch.
2. The time budget of a recovery (`recoveryExpired`) against a clock; it is a
   free choice of `RecoverGivesUp` now.

Partly modelled: Git's retries and error classes are one outcome; the expiry of
a timed pause is a `Resume` at any moment; the poll interval is the freedom of a
run to begin at any time, with fairness; of Compose and Docker there is what
their calls can do and how they fail; of the heartbeat, when it is sent.

Left out for good: the text of notifications (`discord.go`, `commitcontext.go`),
parsing and validation of configuration and command line, `pprof`, the SDK and
HTTP calls, and the printing of `status`. They are formatting or I/O, and no
decision of the modelled parts depends on more of them than the constants and
outcomes above.
