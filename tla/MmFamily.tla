------------------------------ MODULE MmFamily ------------------------------
(***************************************************************************)
(* MM (Mm) implements Family.  A process is a zombie from the moment       *)
(* do_exit() has stored its status, whether it is left HANGING or its      *)
(* waiting parent is being told; its children belong to INIT from then on, *)
(* although do_exit() comes to them later.                                 *)
(***************************************************************************)
EXTENDS Mm

Reported(s) == mm.at \in {"cleanup", "free"} /\ mm.who = s
Exiting(p) == mm.at \in {"cleanup", "free", "reparent"} /\ mm.src = p

Life(s) ==
  IF ~Used(s) THEN "free"
  ELSE IF HANGING \in p_flags[s] \/ Reported(s) THEN "zombie" ELSE "alive"

Families == INSTANCE Family WITH
  Eldest <- INIT,
  Child  <- Slot,
  Nobody <- NO_TASK,
  life   <- [s \in Slot |-> Life(s)],
  parent <- [s \in Slot |->
               IF ~Used(s) THEN NO_TASK
               ELSE IF Exiting(p_parent[s]) THEN INIT ELSE p_parent[s]],
  status <- [s \in Slot |-> IF Life(s) = "zombie" THEN exit_status[s] ELSE 0]

(* Every run of fork(), exit() and wait() is a run of Family: no slot is   *)
(* reused before its zombie was reaped, no status changes after the exit,  *)
(* and a parent only ever changes to INIT, at the parent's own exit.       *)
ImplementsFamily == Families!Spec
=============================================================================
