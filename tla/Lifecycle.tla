------------------------------- MODULE Lifecycle -------------------------------
(***************************************************************************)
(* What ComposeLock promises of a deployment that nobody forces, as its    *)
(* state file tells it: a commit is tried, and either becomes the rollback *)
(* target or is given up for the target before anything else is tried; a   *)
(* commit that failed is not tried again until another one has succeeded;  *)
(* and a deployment that cannot be brought back stays DEGRADED.            *)
(*                                                                         *)
(* Stacks, checkouts, runs, crashes and failed saves do not occur here.    *)
(* Module LifecycleMap says how Reconcile implements this.                 *)
(***************************************************************************)
CONSTANTS Commits, None

VARIABLES
    target,  \* the commit to fall back to
    trial,   \* the commit being tried, or being undone
    phase,
    bad      \* commits known to be bad

lifecycleVars == <<target, trial, phase, bad>>

LifecycleInit ==
    /\ target = None
    /\ trial = None
    /\ phase = "settled"
    /\ bad = {}

\* A commit is found to be bad. The list is bounded, so others may be
\* forgotten for it.
Learn(c) == c \in bad' /\ bad' \subseteq bad \cup {c}

\* A commit is tried, possibly in place of one whose trial was cut short.
Try(c) ==
    /\ phase \in {"settled", "trying"}
    /\ c \notin bad
    /\ phase' = "trying"
    /\ trial' = c
    /\ UNCHANGED <<target, bad>>

\* A commit fails, on trial or before it could be tried. A failed trial has to
\* be undone.
Condemn(c) ==
    /\ \/ phase \in {"settled", "trying"}
       \/ phase = "reverting" /\ c = trial
    /\ Learn(c)
    /\ phase' = IF c = trial THEN "reverting" ELSE phase
    /\ UNCHANGED <<target, trial>>

\* The target itself has to be put back up.
Restore ==
    /\ phase = "settled"
    /\ target # None
    /\ phase' = "reverting"
    /\ UNCHANGED <<target, trial, bad>>

\* The target runs again. A trial may be undone without being held against
\* its commit.
Settle ==
    /\ phase \in {"trying", "reverting"}
    /\ target # None
    /\ phase' = "settled"
    /\ trial' = None
    /\ bad' = bad \/ Learn(trial)
    /\ UNCHANGED target

\* A commit turns out well. What was learnt before is forgotten.
Promote(c) ==
    /\ phase \in {"settled", "trying"}
    /\ c \notin bad
    /\ target' = c
    /\ trial' = None
    /\ phase' = "settled"
    /\ bad' = {}

GiveUp ==
    /\ phase # "degraded"
    /\ phase' = "degraded"
    /\ trial' = None
    /\ bad' = bad \/ Learn(trial)
    /\ UNCHANGED target

LifecycleNext ==
    \/ \E c \in Commits : Try(c) \/ Condemn(c) \/ Promote(c)
    \/ Restore \/ Settle \/ GiveUp

LifecycleSpec == LifecycleInit /\ [][LifecycleNext]_lifecycleVars
================================================================================
