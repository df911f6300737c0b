--------------------------- MODULE MCHealthWatch ---------------------------
(***************************************************************************)
(* Small instances of HealthWatch for TLC.                                 *)
(***************************************************************************)
EXTENDS HealthWatch

\* Everything the watch tells apart, with a stale probe where it must not count.
AllReports ==
    {[state |-> "running", health |-> h] : h \in Healths}
    \cup {[state |-> s, health |-> "unhealthy"] : s \in {"completed", "restarting"}}
    \cup {[state |-> s, health |-> "fine"] : s \in {"failed", "dead", "created"}}

\* What makes and breaks the streaks of two containers.
StreakReports ==
    {[state |-> "running", health |-> h] : h \in {"fine", "unhealthy"}}
    \cup {[state |-> "created", health |-> "fine"]}

\* One container of which everything is reported, and two that may take turns.
Single   == [containers |-> {"x"}, reports |-> AllReports, maxRestarts |-> 2]
Replicas == [containers |-> {"x", "y"}, reports |-> StreakReports, maxRestarts |-> 0]

SomeStacks == {Single, Replicas}
============================================================================
