------------------------------ MODULE DocClaims ------------------------------
(***************************************************************************)
(* What the docs and tests say of module Reconcile and the code does not   *)
(* do. TLC refutes each of these under a configuration of its own.         *)
(***************************************************************************)
EXTENDS Reconcile

\* README.md:117, "`check` writes no state": neither the state file nor HEAD
\* moves in a dry run.
DryRunWritesNothing == [][run.dry => UNCHANGED <<disk, head>>]_vars

\* docs/how-it-works.md:57, "`composelock sync --force` resets the counter and
\* takes the branch as it stands now": a run let in to a DEGRADED deployment
\* does not return with nothing done.
ForcedRunTakesTheBranch == [][NothingToDo => ~Degraded(disk)]_vars

\* internal/reconcile/invariant_test.go:275, "DEGRADED while still pending ...:
\* --force would resume instead of re-deciding": never so between two runs.
DegradedIsDecided == pc = "idle" => DegradedNotPending

\* docs/how-it-works.md:57, "Recovery gives up and goes DEGRADED rather than
\* looping, after three attempts".
RecoveryAttemptsBounded == disk.pendingAttempts <= MaxRecoveryAttempts

\* docs/compose-dir.md:36, "A cycle left undecided that way neither becomes the
\* rollback target nor records its checkout": the run of such a cycle leaves
\* the rollback target alone.
UndecidedNotPromoted ==
    [][run.undecided => disk'.lastHealthyCommit = disk.lastHealthyCommit]_vars

\* docs/compose-dir.md:36, "leaving last_checkout_commit behind is what makes
\* the next run see the drift and weigh the stack again": a change is not lost
\* when its run dies between the checkout and the pending record.
NoChangeLost ==
    Settled /\ disk.lastHealthyCommit # None =>
        \A s \in StacksAt(head) :
            dock[s] = Torn \/ (dock[s] \in Commits /\ SameStack(dock[s], head, s))

\* docs/compose-dir.md:38, "if that cycle reverts, the target still describes
\* the stack and its containers stay up".
RevertedStacksStayUp ==
    Settled /\ disk.lastResult = "reverted" =>
        \A s \in StacksAt(head) : dock[s] # None

\* docs/compose-dir.md:38, "A stack whose subdirectory was removed is torn down
\* only once the cycle removing it is known to be healthy": then it is.
RemovedStacksAreDown ==
    Settled /\ disk.lastResult = "success" =>
        \A s \in Stacks \ StacksAt(head) : dock[s] = None

\* docs/compose-dir.md:38, "so the deployment ends up as the rollback target
\* describes it".
RevertedMatchesTarget ==
    Settled /\ disk.lastResult = "reverted" =>
        \A s \in StacksAt(head) :
            dock[s] \in Commits => SameStack(dock[s], head, s)

\* docs/how-it-works.md:55, "an interrupted revert is finished": a run that dies
\* while it re-applies the rollback target leaves that pending.
InterruptedRevertIsPending ==
    pc \in {"reup", "rewatch"} => Pending(disk)
=============================================================================
