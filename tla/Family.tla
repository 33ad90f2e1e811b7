------------------------------- MODULE Family -------------------------------
(***************************************************************************)
(* What fork(), exit() and wait() promise about the life of a process: it  *)
(* is born to a living parent, dies once and stays a zombie with its exit  *)
(* status until it has been reaped; orphans belong to the first process.   *)
(***************************************************************************)
CONSTANTS Eldest, Child, Status, Nobody

VARIABLES life, parent, status

vars == <<life, parent, status>>

Init ==
  /\ life = [c \in Child |-> "free"]
  /\ parent = [c \in Child |-> Nobody]
  /\ status = [c \in Child |-> 0]

Alive(p) == p = Eldest \/ (p \in Child /\ life[p] = "alive")

Fork(p, c) ==
  /\ Alive(p) /\ life[c] = "free"
  /\ life' = [life EXCEPT ![c] = "alive"]
  /\ parent' = [parent EXCEPT ![c] = p]
  /\ UNCHANGED status

Exit(c, st) ==
  /\ life[c] = "alive"
  /\ life' = [life EXCEPT ![c] = "zombie"]
  /\ parent' = [d \in Child |-> IF parent[d] = c THEN Eldest ELSE parent[d]]
  /\ status' = [status EXCEPT ![c] = st]

Reap(c) ==
  /\ life[c] = "zombie" /\ Alive(parent[c])
  /\ life' = [life EXCEPT ![c] = "free"]
  /\ parent' = [parent EXCEPT ![c] = Nobody]
  /\ status' = [status EXCEPT ![c] = 0]

Next ==
  \/ \E p \in Child \cup {Eldest}, c \in Child : Fork(p, c)
  \/ \E c \in Child, st \in Status : Exit(c, st)
  \/ \E c \in Child : Reap(c)

Spec == Init /\ [][Next]_vars
=============================================================================
