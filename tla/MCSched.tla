------------------------------- MODULE MCSched -------------------------------
(* Three tasks, the first user process and a slot for a child.             *)
EXTENDS Sched, TLC
MCPriority == 0 :> 1 @@ 1 :> 2 @@ 2 :> 1 @@ 3 :> 1 @@ 4 :> 1
=============================================================================
