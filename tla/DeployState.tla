----------------------------- MODULE DeployState -----------------------------
(***************************************************************************)
(* The deployment record that ComposeLock keeps in its state file          *)
(* (internal/state/state.go) and the updates the reconciler makes to it.   *)
(* Everything here is a pure operator on a record; module Reconcile says   *)
(* when each update is made in memory and when it reaches the disk.        *)
(*                                                                         *)
(* Data that no decision of the reconciler reads is left out: timestamps   *)
(* (pendingSince keeps only whether it is set), last_attempt_commit, the   *)
(* pause reason and the deployment history.                                *)
(***************************************************************************)
EXTENDS Naturals, Sequences

CONSTANTS
    Commits,               \* commit ids
    Stacks,                \* compose project names
    None,                  \* the empty string where a commit id is expected
    MaxFailedCommits,      \* maxFailedCommits (16 in the code)
    MaxPreflightBlocks,    \* maxPreflightBlocks (3 in the code)
    MaxRecoveryAttempts,   \* maxRecoveryAttempts (3 in the code)
    AttemptCap             \* where the model stops counting recovery attempts

ASSUME StateAssumption ==
    /\ None \notin Commits
    /\ MaxFailedCommits \in Nat \ {0}
    /\ MaxPreflightBlocks \in Nat \ {0}
    /\ MaxRecoveryAttempts \in Nat
    /\ AttemptCap \in Nat
    \* The code only compares the counter with MaxRecoveryAttempts, so a
    \* counter that saturates above it behaves like the unbounded one.
    /\ AttemptCap > MaxRecoveryAttempts

CommitOrNone == Commits \cup {None}

Results == {"", "success", "failed_git", "failed_preflight",
            "skipped_known_bad", "failed_apply", "reverted", "degraded"}

State == [lastHealthyCommit  : CommitOrNone,
          lastHealthyStacks  : SUBSET Stacks,
          lastCheckoutCommit : CommitOrNone,
          lastFailedCommit   : CommitOrNone,
          failedCommits      : Seq(Commits),
          preflightBlocks    : Nat,
          lastResult         : Results,
          pendingCommit      : CommitOrNone,
          pendingSince       : BOOLEAN,
          pendingAttempts    : Nat,
          pendingStacks      : SUBSET Stacks,
          pendingRevert      : BOOLEAN,
          paused             : BOOLEAN]

\* state.New: what Load returns when there is no state file yet.
New == [lastHealthyCommit  |-> None,
        lastHealthyStacks  |-> {},
        lastCheckoutCommit |-> None,
        lastFailedCommit   |-> None,
        failedCommits      |-> <<>>,
        preflightBlocks    |-> 0,
        lastResult         |-> "",
        pendingCommit      |-> None,
        pendingSince       |-> FALSE,
        pendingAttempts    |-> 0,
        pendingStacks      |-> {},
        pendingRevert      |-> FALSE,
        paused             |-> FALSE]

-----------------------------------------------------------------------------
(* Questions the reconciler asks of the record. *)

Pending(s) == s.pendingCommit # None \/ s.pendingRevert

RevertInProgress(s) ==
    \/ s.pendingRevert
    \/ s.pendingCommit # None /\ s.pendingCommit = s.lastFailedCommit

Remembered(s) == {s.failedCommits[i] : i \in 1..Len(s.failedCommits)}

IsKnownBad(s, c) ==
    c # None /\ (c = s.lastFailedCommit \/ c \in Remembered(s))

ExpectedCheckout(s) ==
    IF s.lastCheckoutCommit # None THEN s.lastCheckoutCommit
                                   ELSE s.lastHealthyCommit

\* Mutant: drift is not looked for.
CheckoutNeverDrifts(s, head) == FALSE

CheckoutDrifted(s, head) == head # None /\ head # ExpectedCheckout(s)

Degraded(s) == s.lastResult = "degraded"

-----------------------------------------------------------------------------
(* Updates. *)

\* A list without its entry c. MarkFailed keeps the list free of duplicates,
\* so there is at most one entry to drop.
Without(list, c) ==
    IF \E i \in 1..Len(list) : list[i] = c
    THEN LET i == CHOOSE i \in 1..Len(list) : list[i] = c
         IN  SubSeq(list, 1, i - 1) \o SubSeq(list, i + 1, Len(list))
    ELSE list

\* The newest n entries of a list that grows at its end.
Newest(list, n) ==
    IF Len(list) > n THEN SubSeq(list, Len(list) - n + 1, Len(list)) ELSE list

\* MarkFailed: the commit becomes the last failed one and the youngest of the
\* remembered ones; the oldest is forgotten once the list is full.
MarkFailed(s, c) ==
    IF c = None
    THEN [s EXCEPT !.lastFailedCommit = None]
    ELSE [s EXCEPT !.lastFailedCommit = c,
                   !.failedCommits = Newest(Append(Without(@, c), c), MaxFailedCommits)]

ClearPending(s) == [s EXCEPT !.pendingCommit   = None,
                             !.pendingSince    = FALSE,
                             !.pendingAttempts = 0,
                             !.pendingStacks   = {},
                             !.pendingRevert   = FALSE]

\* recordOutcome
WithOutcome(s, result) == [s EXCEPT !.lastResult = result]

\* recordCheckout
WithCheckout(s, c) == [s EXCEPT !.lastCheckoutCommit = c,
                                !.lastResult = "success"]

\* The record written ahead of the first compose up. Attempts are counted per
\* commit, so another commit starts from zero; last_result is left alone.
WithPending(s, c, stacks) ==
    [s EXCEPT !.pendingAttempts = IF s.pendingCommit = c THEN @ ELSE 0,
              !.pendingSince = TRUE,
              !.pendingCommit = c,
              !.pendingStacks = stacks,
              !.lastCheckoutCommit = c]

\* countRecoveryAttempt
WithAttempt(s) ==
    [s EXCEPT !.pendingAttempts = IF @ < AttemptCap THEN @ + 1 ELSE @]

\* Mutant: a promotion does not forget the failed commits.
PromotedRemembersFailed(s, c, stacks) ==
    [ClearPending(s) EXCEPT !.lastHealthyCommit  = c,
                            !.lastHealthyStacks  = stacks,
                            !.lastCheckoutCommit = c,
                            !.preflightBlocks    = 0,
                            !.lastResult         = "success"]

\* promoteHealthy: c and its stacks become the rollback target; ForgetAllFailed
\* empties what is known about failed commits.
Promoted(s, c, stacks) ==
    [ClearPending(s) EXCEPT !.lastHealthyCommit  = c,
                            !.lastHealthyStacks  = stacks,
                            !.lastCheckoutCommit = c,
                            !.preflightBlocks    = 0,
                            !.lastFailedCommit   = None,
                            !.failedCommits      = <<>>,
                            !.lastResult         = "success"]

\* The end of doRevert: back on the rollback target after c failed, or after
\* the pre-flight gate found the live stacks unhealthy (c = None).
Reverted(s, c) ==
    [ClearPending(s) EXCEPT !.lastCheckoutCommit = s.lastHealthyCommit,
                            !.preflightBlocks = IF c = None THEN @ ELSE 0,
                            !.lastResult = "reverted"]

\* revertInterrupted: remember that the revert of c has to be finished.
Interrupted(s, c, stacks) ==
    LET failed == IF c = None THEN s ELSE MarkFailed(s, c)
    IN  [failed EXCEPT !.pendingRevert = TRUE,
                       !.pendingCommit = c,
                       !.pendingStacks = IF stacks # {} THEN stacks ELSE @,
                       !.pendingSince  = TRUE,
                       !.lastResult    = "failed_apply"]

\* Mutant: giving up leaves the work pending.
GivenUpStaysPending(s, c) ==
    [(IF c = None THEN s ELSE MarkFailed(s, c)) EXCEPT !.lastResult = "degraded"]

\* degrade: nothing is left pending and only a forced run goes on from here.
GivenUp(s, c) ==
    LET failed == IF c = None THEN s ELSE MarkFailed(s, c)
    IN  [ClearPending(failed) EXCEPT !.lastResult = "degraded"]
=============================================================================
