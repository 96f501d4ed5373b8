---------------------------- MODULE ExclusiveRun ----------------------------
(***************************************************************************)
(* What a single-runner lock promises (internal/services/process, Runner): *)
(* whoever is at work got there when nobody was, and is gone before the    *)
(* next one begins.  ProcessLock implements it for the runners it has not  *)
(* evicted, the locks of SyncOrchestrator for every command.               *)
(***************************************************************************)
CONSTANT Actors
VARIABLE inside     \* those at work

Init == inside = {}

Enter(a) == inside = {} /\ inside' = {a}

Leave(a) == inside = {a} /\ inside' = {}

Next == \E a \in Actors : Enter(a) \/ Leave(a)

Spec == Init /\ [][Next]_inside
=============================================================================
