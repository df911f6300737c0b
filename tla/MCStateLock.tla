---------------------------- MODULE MCStateLock ----------------------------
(***************************************************************************)
(* Three commits and a branch that moves anywhere: c2 is irrelevant to     *)
(* Compose, c3 changes a stack, and a force-push may take it back.         *)
(***************************************************************************)
EXTENDS StateLock, TLC

LastChanges == "c1" :> 1 @@ "c2" :> 1 @@ "c3" :> 2

AnyPush == [c \in Commits |-> Commits \ {c}]

\* Processes are alike.
Alike == Permutations(Procs)
=============================================================================
