-------------------------------- MODULE Sched --------------------------------
(***************************************************************************)
(* Who runs: schedule(), clock_handler() and the entry to the kernel and   *)
(* the return from it (kernel.asm).  A system call runs with interrupts    *)
(* enabled, so the clock may strike inside it, and inside the schedule()   *)
(* that it ends in when the caller blocks; such a nested clock charges     *)
(* p_proc_ready a tick and does not reschedule.  A schedule() called by    *)
(* clock_handler() sees no clock, for its line is masked, but the disk's   *)
(* interrupts.                                                             *)
(*                                                                         *)
(* What a process does between two system calls, and for whom it blocks,   *)
(* is its own affair: here it may block, wake somebody or come back from   *)
(* any call (Ipc says when it does which).                                 *)
(***************************************************************************)
EXTENDS Naturals

CONSTANTS
  NR,          \* entries of the process table (NR_TASKS + NR_PROCS)
  User,        \* those of user processes; fork() fills the free ones
  TASK_TTY, TASK_HD, MM,
  First,       \* the user process that runs from the start
  priority     \* entry -> ticks it gets at a time

Proc == 0..(NR - 1)
FIRST_PROC == 0
LAST_PROC == NR - 1

ASSUME SchedAssumption ==
  /\ NR \in Nat /\ User \subseteq Proc /\ First \in User
  /\ {FIRST_PROC, TASK_TTY, TASK_HD, MM} \subseteq Proc \ User
  /\ priority \in [Proc -> Nat \ {0}]
  /\ \A p, q \in User : priority[p] = priority[q]

VARIABLES
  state,          \* of an entry: "ready" (p_flags = 0), "blocked" or "free"
  ticks,
  p_proc_ready,
  kernel,         \* "user", "call", "leave" or the step of schedule(): "scan", "take", "refill"
  byClock,        \* schedule() was called by clock_handler()
  p,              \* the entry that schedule() looks at
  greatest_ticks

schedvars == <<state, ticks, p_proc_ready, kernel, byClock, p, greatest_ticks>>

Ready == {q \in Proc : state[q] = "ready"}
InSchedule == kernel \in {"scan", "take", "refill"}

SchedInit ==
  /\ state = [q \in Proc |-> IF q \in User \ {First} THEN "free" ELSE "ready"]
  /\ ticks = priority
  /\ p_proc_ready = FIRST_PROC
  /\ kernel = "user" /\ byClock = FALSE
  /\ p = FIRST_PROC /\ greatest_ticks = 0

-----------------------------------------------------------------------------
(* schedule(), entry by entry.                                             *)

BeginSchedule(clock) ==
  /\ kernel' = "scan" /\ byClock' = clock
  /\ p' = FIRST_PROC /\ greatest_ticks' = 0

(* Mutant: blocked processes would be looked at, too.                      *)
CompareAny == kernel = "scan" /\ ticks[p] > greatest_ticks

Compare == kernel = "scan" /\ state[p] = "ready" /\ ticks[p] > greatest_ticks

(* To the next entry; behind the last to what follows the loop.            *)
Advance(greatest) ==
  IF p # LAST_PROC THEN p' = p + 1 /\ kernel' = "scan"
  ELSE /\ p' = FIRST_PROC
       /\ kernel' = IF greatest = 0 THEN "refill" ELSE "leave"

Skip ==
  /\ kernel = "scan" /\ ~Compare
  /\ Advance(greatest_ticks)
  /\ UNCHANGED <<state, ticks, p_proc_ready, byClock, greatest_ticks>>

Better ==
  /\ Compare
  /\ kernel' = "take"
  /\ UNCHANGED <<state, ticks, p_proc_ready, byClock, p, greatest_ticks>>

(* p->ticks is read again.                                                 *)
Take ==
  /\ kernel = "take"
  /\ greatest_ticks' = ticks[p] /\ p_proc_ready' = p
  /\ Advance(ticks[p])
  /\ UNCHANGED <<state, ticks, byClock>>

Refill ==
  /\ kernel = "refill"
  /\ ticks' = IF state[p] = "ready" THEN [ticks EXCEPT ![p] = priority[p]] ELSE ticks
  /\ IF p # LAST_PROC THEN p' = p + 1 /\ UNCHANGED kernel
     ELSE p' = FIRST_PROC /\ kernel' = "scan"
  /\ UNCHANGED <<state, p_proc_ready, byClock, greatest_ticks>>

Schedule == Skip \/ Better \/ Take \/ Refill

-----------------------------------------------------------------------------
(* System calls of the running process.                                    *)

sched == <<p, greatest_ticks, byClock>>

Call ==
  /\ kernel = "user" /\ kernel' = "call"
  /\ UNCHANGED <<state, ticks, p_proc_ready, sched>>

(* block(): the caller waits, and somebody else is looked for.             *)
Block ==
  /\ kernel = "call"
  /\ state' = [state EXCEPT ![p_proc_ready] = "blocked"]
  /\ BeginSchedule(FALSE)
  /\ UNCHANGED <<ticks, p_proc_ready>>

(* unblock(): another process is ready; it is not looked for.              *)
Unblock ==
  /\ kernel = "call"
  /\ \E q \in Proc : state[q] = "blocked" /\ state' = [state EXCEPT ![q] = "ready"]
  /\ kernel' = "leave"
  /\ UNCHANGED <<ticks, p_proc_ready, sched>>

(* restart: whoever p_proc_ready is now runs.                              *)
Restart ==
  /\ kernel \in {"call", "leave"} /\ kernel' = "user"
  /\ p' = FIRST_PROC /\ greatest_ticks' = 0 /\ byClock' = FALSE
  /\ UNCHANGED <<state, ticks, p_proc_ready>>

(* MM writes the table entries of processes that have called it: do_fork() *)
(* copies the parent's, its ticks included; WAITING and HANGING come and   *)
(* go; cleanup() frees the entry.  The caller may still be ready, on its   *)
(* way from its SEND to its RECEIVE.                                       *)
MmEdits(q) ==
  kernel = "user" /\ p_proc_ready = MM /\ q \in User /\ state[q] # "free"

Fork ==
  /\ \E q, c \in User :
        /\ MmEdits(q) /\ state[c] = "free"
        /\ state' = [state EXCEPT ![c] = state[q]]
        /\ ticks' = [ticks EXCEPT ![c] = ticks[q]]
  /\ UNCHANGED <<p_proc_ready, kernel, sched>>

Flag ==
  /\ \E q \in User :
        /\ MmEdits(q)
        /\ state' = [state EXCEPT ![q] = IF @ = "ready" THEN "blocked" ELSE "ready"]
  /\ UNCHANGED <<ticks, p_proc_ready, kernel, sched>>

Exit ==
  /\ \E c \in User \ {First} : MmEdits(c) /\ state' = [state EXCEPT ![c] = "free"]
  /\ UNCHANGED <<ticks, p_proc_ready, kernel, sched>>

-----------------------------------------------------------------------------
(* Interrupts.                                                             *)

Wakes(q) == state' = [state EXCEPT ![q] = IF @ = "blocked" THEN "ready" ELSE @]

(* hd_handler() wakes the driver, in the kernel or out of it.              *)
DiskInterrupt ==
  /\ state[TASK_HD] = "blocked" /\ Wakes(TASK_HD)
  /\ UNCHANGED <<ticks, p_proc_ready, kernel, sched>>

Charged == [ticks EXCEPT ![p_proc_ready] = IF @ > 0 THEN @ - 1 ELSE 0]

(* clock_handler(): a key may have been pressed.                           *)
InformTty == Wakes(TASK_TTY) \/ UNCHANGED state

(* Mutant: a process that has used up its ticks would go on.               *)
ClockNoSchedule ==
  /\ kernel = "user"
  /\ ticks' = Charged /\ InformTty
  /\ UNCHANGED <<p_proc_ready, kernel, sched>>

Clock ==
  /\ kernel = "user"
  /\ ticks' = Charged /\ InformTty
  /\ IF Charged[p_proc_ready] > 0 THEN UNCHANGED <<kernel, sched>> ELSE BeginSchedule(TRUE)
  /\ UNCHANGED p_proc_ready

(* The clock strikes inside a system call: k_reenter # 0.                  *)
NestedClock ==
  /\ kernel # "user" /\ ~byClock
  /\ ticks' = Charged /\ InformTty
  /\ UNCHANGED <<p_proc_ready, kernel, sched>>

-----------------------------------------------------------------------------
SchedNext ==
  \/ Schedule \/ Call \/ Block \/ Unblock \/ Restart \/ Fork \/ Flag \/ Exit
  \/ DiskInterrupt \/ Clock \/ NestedClock

SchedSpec == SchedInit /\ [][SchedNext]_schedvars

(* The kernel goes on as long as it has anything to do, and every system   *)
(* call ends one way or the other.  A call is much shorter than the time   *)
(* between two clock interrupts, so they do not all fall into calls.       *)
Fairness ==
  /\ WF_schedvars(Schedule) /\ WF_schedvars(Block \/ Unblock \/ Restart)
  /\ SF_schedvars(Clock)

SchedFairSpec == SchedSpec /\ Fairness

-----------------------------------------------------------------------------
(* Properties.                                                             *)

(* Outside of schedule() p_proc_ready can run: what schedule() leaves was  *)
(* ready when it was taken, and MM makes free only entries that wait.      *)
RunsReady == ~InSchedule => p_proc_ready \in Ready

(* A nested clock takes a tick from the entry that schedule() has chosen   *)
(* so far and may still give up for a better one.                          *)
Steal == InSchedule /\ NestedClock /\ p_proc_ready \in Ready /\ ticks' # ticks

(* A process that is ready runs some day, whatever the others do with the  *)
(* ticks they have: new ticks are given only when nobody ready has any.    *)
(* Processes made by fork() bring ticks with them, and a nested clock may  *)
(* take those of one that is still to run, so both must have an end.  With *)
(* everybody blocked schedule() loops until an interrupt wakes a task; the *)
(* machine is not lost then, for the task it wakes is ready and so runs.   *)
NobodyStarves ==
  <>[][~Steal /\ ~Fork]_schedvars =>
    \A q \in Proc :
      [](q \in Ready => <>((kernel = "user" /\ p_proc_ready = q) \/ q \notin Ready))
=============================================================================
