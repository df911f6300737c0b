----------------------------- MODULE MCReconcile -----------------------------
(***************************************************************************)
(* Small deployments for TLC. Commits are named c1, c2, ...; c1 is the one *)
(* the operator cloned.                                                    *)
(***************************************************************************)
EXTENDS DocClaims, LifecycleMap, TLC

\* How the branch moves. It goes forward and may pass over a commit; with
\* RewindPush a force-push can also take it back.
PushOver3  == "c1" :> {"c2", "c3"} @@ "c2" :> {"c3"} @@ "c3" :> {}
PushOver4  == "c1" :> {"c2", "c4"} @@ "c2" :> {"c3", "c4"} @@ "c3" :> {"c4"} @@ "c4" :> {}
RewindPush == "c1" :> {"c2"} @@ "c2" :> {"c1"}

\* A growing deployment: c2 adds a stack and changes the other, c3 only touches
\* a file of compose_dir that is in no stack, c4 only an outside input of a.
GrowDir   == "c1" :> [a |-> 1, b |-> 0] @@ "c2" :> [a |-> 2, b |-> 1]
          @@ "c3" :> [a |-> 2, b |-> 1] @@ "c4" :> [a |-> 2, b |-> 1]
GrowInput == [c \in Commits |-> [a |-> IF c = "c4" THEN 2 ELSE 1, b |-> 1]]
GrowMisc  == [c \in Commits |-> IF c \in {"c3", "c4"} THEN 2 ELSE 1]

\* A shrinking one: c2 changes a, c3 is irrelevant to Compose, c4 drops b.
DropDir   == "c1" :> [a |-> 1, b |-> 1] @@ "c2" :> [a |-> 2, b |-> 1]
          @@ "c3" :> [a |-> 2, b |-> 1] @@ "c4" :> [a |-> 3, b |-> 0]

\* c2 changes both stacks, c3 changes a and drops b.
ShrinkDir == "c1" :> [a |-> 1, b |-> 1] @@ "c2" :> [a |-> 2, b |-> 2]
          @@ "c3" :> [a |-> 3, b |-> 0]

\* c2 changes a, c3 changes b.
SplitDir  == "c1" :> [a |-> 1, b |-> 1] @@ "c2" :> [a |-> 2, b |-> 1]
          @@ "c3" :> [a |-> 2, b |-> 2]
\* ... c3 changes b, and an outside input of a.
SplitInput == [c \in Commits |-> [a |-> IF c = "c3" THEN 2 ELSE 1, b |-> 1]]

\* compose_file mode: c2 changes the file, c3 one of its inputs.
OneDir    == "c1" :> [a |-> 1] @@ "c2" :> [a |-> 2] @@ "c3" :> [a |-> 2]
OneInput  == "c1" :> [a |-> 1] @@ "c2" :> [a |-> 1] @@ "c3" :> [a |-> 2]

\* Two commits that each change the only stack.
PairDir   == "c1" :> [a |-> 1] @@ "c2" :> [a |-> 2]

SameInput == [c \in Commits |-> [s \in Stacks |-> 1]]
SameMisc  == [c \in Commits |-> 1]

\* poll and webhook; an operator's sync with and without --force; check.
Daemon   == {[force |-> FALSE, dry |-> FALSE]}
Operator == [force : BOOLEAN, dry : {FALSE}]
Anyone   == [force : BOOLEAN, dry : BOOLEAN]
Checks   == [force : {FALSE}, dry : BOOLEAN]
=============================================================================
