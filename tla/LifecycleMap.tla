----------------------------- MODULE LifecycleMap -----------------------------
(***************************************************************************)
(* Reconcile implements Lifecycle, with the state file as the whole truth: *)
(* what a run holds in memory is not part of the lifecycle until saved.    *)
(***************************************************************************)
EXTENDS Reconcile

KnownBad(s) == {c \in Commits : IsKnownBad(s, c)}

PhaseOf(s) ==
    IF Degraded(s) THEN "degraded"
    ELSE IF RevertInProgress(s) THEN "reverting"
    ELSE IF s.pendingCommit # None THEN "trying"
    ELSE "settled"

Abstract == INSTANCE Lifecycle WITH
    target <- disk.lastHealthyCommit,
    trial  <- disk.pendingCommit,
    phase  <- PhaseOf(disk),
    bad    <- KnownBad(disk)

\* As long as nobody uses --force, the record moves only as the lifecycle
\* allows, through every crash, shutdown, failed save and superseding push: a
\* revert is finished before anything is tried, what is known to be bad is
\* neither tried nor promoted, and DEGRADED is final.
ImplementsLifecycle == Abstract!LifecycleSpec
================================================================================
