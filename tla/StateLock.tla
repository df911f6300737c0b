------------------------------ MODULE StateLock ------------------------------
(***************************************************************************)
(* Processes that share one checkout and one state file. A sync (or a tick *)
(* of the daemon) takes the lock file in exclusive mode, a check in shared *)
(* mode (cmd/composelock/setup.go), and a process that does not get it     *)
(* skips its run. So several checks run at once, and a check is not as     *)
(* passive as its lock suggests: it moves HEAD over commits that do not    *)
(* concern Compose, and it saves the record it loaded, whole, when the     *)
(* fetch, the gate or that checkout fails.                                 *)
(*                                                                         *)
(* A run is cut where another process can see it: at every git command and *)
(* every access to the state file. What a sync does while it applies a     *)
(* commit is module Reconcile's; here, alone under its exclusive lock, it  *)
(* is one step.                                                            *)
(***************************************************************************)
EXTENDS Naturals, FiniteSets

CONSTANTS
    Procs,        \* processes
    Commits,      \* commit ids
    FirstCommit,  \* the commit the operator cloned
    None,         \* no commit
    Content,      \* Content[c]: what Compose would read at commit c
    PushTo        \* PushTo[c]: where the branch may move from c

ASSUME LockAssumption ==
    /\ FirstCommit \in Commits
    /\ None \notin Commits \cup Procs
    /\ PushTo \in [Commits -> SUBSET Commits]

VARIABLES
    branch,    \* the branch at the origin
    tracking,  \* refs/remotes/<remote>/<branch> of the checkout
    head,      \* HEAD of the checkout
    disk,      \* the part of the state file these runs read and write
    writer,    \* the process that holds the lock in exclusive mode, or none
    readers,   \* the processes that hold it in shared mode
    proc       \* proc[p]: where the run of p is and what it remembers

vars == <<branch, tracking, head, disk, writer, readers, proc>>

CommitOrNone == Commits \cup {None}

Record == [healthy : CommitOrNone, checkout : CommitOrNone, bad : SUBSET Commits]

Steps == {"idle", "load", "fetch", "head", "tracking", "decide", "checkout", "record"}

Proc == [pc : Steps, st : Record, old : CommitOrNone, new : CommitOrNone]

NewRecord == [healthy |-> None, checkout |-> None, bad |-> {}]

Idle == [pc |-> "idle", st |-> NewRecord, old |-> None, new |-> None]

\* Every variable has its shape; in particular HEAD is always at some commit.
TypeOK ==
    /\ {branch, tracking, head} \subseteq Commits
    /\ disk \in Record
    /\ writer \in Procs \cup {None}
    /\ readers \subseteq Procs
    /\ proc \in [Procs -> Proc]

Init ==
    /\ branch = FirstCommit
    /\ tracking = FirstCommit
    /\ head = FirstCommit
    /\ disk = NewRecord
    /\ writer = None
    /\ readers = {}
    /\ proc = [p \in Procs |-> Idle]

-----------------------------------------------------------------------------
At(p, step) == proc[p].pc = step

Goto(p, step) == proc' = [proc EXCEPT ![p].pc = step]

\* Unlock, by the process or, when it is killed, by the kernel.
Release(p) ==
    /\ proc' = [proc EXCEPT ![p] = Idle]
    /\ writer' = IF writer = p THEN None ELSE writer
    /\ readers' = readers \ {p}

\* Mutant: the check ignores who else holds the lock.
AcquireSharedAlways(p) ==
    /\ At(p, "idle")
    /\ readers' = readers \cup {p}
    /\ Goto(p, "load")
    /\ UNCHANGED <<branch, tracking, head, disk, writer>>

\* check: TryRLock.
AcquireShared(p) ==
    /\ At(p, "idle")
    /\ writer = None
    /\ readers' = readers \cup {p}
    /\ Goto(p, "load")
    /\ UNCHANGED <<branch, tracking, head, disk, writer>>

\* sync: TryLock.
AcquireExclusive(p) ==
    /\ At(p, "idle")
    /\ writer = None /\ readers = {}
    /\ writer' = p
    /\ Goto(p, "load")
    /\ UNCHANGED <<branch, tracking, head, disk, readers>>

Load(p) ==
    /\ At(p, "load")
    /\ proc' = [proc EXCEPT ![p].pc = "fetch", ![p].st = disk]
    /\ UNCHANGED <<branch, tracking, head, disk, writer, readers>>

\* The record p loaded, with a new result: result and times are not modelled, so
\* what is left of recordOutcome is that the rest of the record is written back.
RecordOutcome(p) == disk' = proc[p].st

Fetch(p) ==
    /\ At(p, "fetch")
    /\ tracking' = branch
    /\ Goto(p, "head")
    /\ UNCHANGED <<branch, head, disk, writer, readers>>

\* The fetch fails, or the queries after it.
FetchFails(p) ==
    /\ proc[p].pc \in {"fetch", "head", "tracking"}
    /\ RecordOutcome(p)
    /\ Release(p)
    /\ UNCHANGED <<branch, tracking, head>>

\* git.Preview asks for HEAD and then for the tracking branch.
PreviewHead(p) ==
    /\ At(p, "head")
    /\ proc' = [proc EXCEPT ![p].pc = "tracking", ![p].old = head]
    /\ UNCHANGED <<branch, tracking, head, disk, writer, readers>>

PreviewTracking(p) ==
    /\ At(p, "tracking")
    /\ proc' = [proc EXCEPT ![p].pc = "decide", ![p].new = tracking]
    /\ UNCHANGED <<branch, tracking, head, disk, writer, readers>>

-----------------------------------------------------------------------------
Changed(p) == proc[p].old # proc[p].new

ExpectedCheckout(st) == IF st.checkout # None THEN st.checkout ELSE st.healthy

Drifted(p) == proc[p].old # ExpectedCheckout(proc[p].st)

SomethingToDo(p) == At(p, "decide") /\ (Changed(p) \/ Drifted(p))

\* Mutant: the first commit of the branch that a sync has not seen is weighed
\* against the record, not against HEAD.
IrrelevantToRecord(p) ==
    /\ Changed(p)
    /\ proc[p].st.healthy # None
    /\ Content[proc[p].st.healthy] = Content[proc[p].new]

\* The diff from the commit p saw at HEAD to the new one touches nothing that
\* Compose reads.
Irrelevant(p) ==
    /\ Changed(p)
    /\ proc[p].st.healthy # None
    /\ Content[proc[p].old] = Content[proc[p].new]

NothingToDo(p) ==
    /\ At(p, "decide") /\ ~SomethingToDo(p)
    /\ Release(p)
    /\ UNCHANGED <<branch, tracking, head, disk>>

\* Without --force. With it every action below is open to a bad commit too.
SkipKnownBad(p) ==
    /\ SomethingToDo(p)
    /\ proc[p].new \in proc[p].st.bad
    /\ RecordOutcome(p)
    /\ Release(p)
    /\ UNCHANGED <<branch, tracking, head>>

SkipOutsideWindow(p) ==
    /\ SomethingToDo(p) /\ Changed(p)
    /\ Release(p)
    /\ UNCHANGED <<branch, tracking, head, disk>>

SkipIrrelevant(p) ==
    /\ SomethingToDo(p) /\ Irrelevant(p)
    /\ Goto(p, "checkout")
    /\ UNCHANGED <<branch, tracking, head, disk, writer, readers>>

\* The pre-flight snapshot fails.
GateFails(p) ==
    /\ SomethingToDo(p) /\ ~Irrelevant(p)
    /\ RecordOutcome(p)
    /\ Release(p)
    /\ UNCHANGED <<branch, tracking, head>>

DryRunReports(p) ==
    /\ SomethingToDo(p) /\ ~Irrelevant(p)
    /\ p \in readers
    /\ Release(p)
    /\ UNCHANGED <<branch, tracking, head, disk>>

Promoted(p) == [healthy |-> proc[p].new, checkout |-> proc[p].new, bad |-> {}]

\* Mutant: goes back to the last healthy commit before there is one.
ApplyWithoutTarget(p) ==
    /\ SomethingToDo(p) /\ ~Irrelevant(p)
    /\ p = writer
    /\ head' \in {proc[p].new, proc[p].old, proc[p].st.healthy}
    /\ disk' = [proc[p].st EXCEPT !.bad = @ \cup {proc[p].new}]
    /\ Release(p)
    /\ UNCHANGED <<branch, tracking>>

\* A sync applies the commit and it is healthy; or it is killed half way or has
\* to stop there, blames the commit or does not, and leaves HEAD at the commit,
\* at the one it came from or at the last healthy one.
Apply(p) ==
    /\ SomethingToDo(p) /\ ~Irrelevant(p)
    /\ p = writer
    /\ \/ head' = proc[p].new /\ disk' = Promoted(p)
       \/ /\ head' \in {proc[p].new, proc[p].old, proc[p].st.healthy} \ {None}
          /\ \E c \in {proc[p].st.checkout, head'}, b \in {{}, {proc[p].new}} :
                disk' = [proc[p].st EXCEPT !.checkout = c, !.bad = @ \cup b]
    /\ Release(p)
    /\ UNCHANGED <<branch, tracking>>

-----------------------------------------------------------------------------
AdvanceCheckout(p) ==
    /\ At(p, "checkout")
    /\ head' = proc[p].new
    /\ Goto(p, "record")
    /\ UNCHANGED <<branch, tracking, disk, writer, readers>>

\* The checkout fails and abortBeforeUp goes back to the commit p saw at HEAD,
\* or cannot.
AdvanceFails(p) ==
    /\ At(p, "checkout")
    /\ head' \in {head, proc[p].old}
    /\ RecordOutcome(p)
    /\ Release(p)
    /\ UNCHANGED <<branch, tracking>>

RecordCheckout(p) ==
    /\ At(p, "record")
    /\ disk' = [proc[p].st EXCEPT !.checkout = proc[p].new]
    /\ Release(p)
    /\ UNCHANGED <<branch, tracking, head>>

-----------------------------------------------------------------------------
Push ==
    /\ branch' \in PushTo[branch]
    /\ UNCHANGED <<tracking, head, disk, writer, readers, proc>>

\* The process is killed, or a save fails and the run ends without it, or the
\* record it loaded stops it: paused, DEGRADED, or a deploy still pending.
Killed(p) ==
    /\ ~At(p, "idle")
    /\ Release(p)
    /\ UNCHANGED <<branch, tracking, head, disk>>

Next ==
    \/ Push
    \/ \E p \in Procs :
        \/ AcquireShared(p) \/ AcquireExclusive(p) \/ Load(p)
        \/ Fetch(p) \/ FetchFails(p) \/ PreviewHead(p) \/ PreviewTracking(p)
        \/ NothingToDo(p) \/ SkipKnownBad(p) \/ SkipOutsideWindow(p) \/ SkipIrrelevant(p)
        \/ GateFails(p) \/ DryRunReports(p) \/ Apply(p) \/ AdvanceCheckout(p) \/ AdvanceFails(p) \/ RecordCheckout(p)
        \/ Killed(p)

Spec == Init /\ [][Next]_vars

-----------------------------------------------------------------------------
\* While the lock is not held in exclusive mode nothing changes what Compose
\* would read from the checkout: checks move HEAD past each other, from a HEAD
\* another one has moved meanwhile or back to it when their checkout fails, and
\* still never over a change that a sync has not dealt with.
ChecksKeepContent == [][writer = None => Content[head'] = Content[head]]_vars

\* Checks write back the whole record they loaded earlier, and still only the
\* holder of the exclusive lock changes what is healthy and what is bad: no
\* outcome of a sync is overwritten with what was true before it.
OnlySyncsJudge ==
    [][<<disk.healthy, disk.bad>>' # <<disk.healthy, disk.bad>> => writer # None]_vars

\* README.md:117: "`check` and `status` take the state lock in shared mode, so
\* neither reads a half-moved `HEAD` mid-checkout". Between the moment a run
\* reads HEAD and its last use of it, no other process moves HEAD.
HeadStandsStill ==
    [][\A p \in Procs :
         /\ proc[p].pc \in {"tracking", "decide", "checkout"}
         /\ proc'[p] = proc[p]
         => head' = head]_vars
=============================================================================
