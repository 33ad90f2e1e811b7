----------------------------- MODULE IpcAtomic -----------------------------
(***************************************************************************)
(* When system calls are as good as atomic.  The history variable seen     *)
(* shows the process table as if the call in progress had not begun, and   *)
(* as if every interrupt had come before it.  As long as no interrupt has  *)
(* fallen into one of the three windows of IpcPreempt, seen behaves like   *)
(* Ipc: a call has, when it returns, the effect of the one step Ipc takes. *)
(***************************************************************************)
EXTENDS IpcPreempt

VARIABLES
  seen,      \* the process table as Ipc would show it
  disturbed  \* an interrupt has fallen into a window

hvars == <<pvars, seen, disturbed>>

Table == [p_flags |-> p_flags, p_recvfrom |-> p_recvfrom,
          p_sendto |-> p_sendto, p_msg |-> p_msg, q_sending |-> q_sending,
          has_int_msg |-> has_int_msg, mem |-> mem, panic |-> panic]

Nothing == [p_flags |-> {}, p_recvfrom |-> {}, p_sendto |-> {}, p_msg |-> {},
            q_sending |-> {}, has_int_msg |-> {}, mem |-> {}, panic |-> "unknown"]

AtomicInit == PreemptInit /\ seen = Table /\ disturbed = FALSE

(* The whole call shows when it returns, or when it halts the machine.     *)
ShownCall ==
  /\ CallStep
  /\ seen' = IF ~disturbed /\ (call' = NoCall \/ panic' # "no") THEN Table' ELSE seen
  /\ UNCHANGED disturbed

(* An interrupt shows at once: what inform_int() does to its task.         *)
ShownInform(t) ==
  /\ ~disturbed /\ ~InWindow(t)
  /\ \/ /\ PreemptDeliver(t)
        /\ seen' = [seen EXCEPT !.p_flags[t] = p_flags'[t],
                                !.p_recvfrom[t] = p_recvfrom'[t],
                                !.p_msg[t] = p_msg'[t],
                                !.has_int_msg[t] = has_int_msg'[t],
                                !.mem[t] = mem'[t]]
     \/ /\ PreemptPend(t)
        /\ seen' = [seen EXCEPT !.has_int_msg[t] = has_int_msg'[t]]
  /\ UNCHANGED disturbed

(* After an interrupt in a window seen shows nothing any more.             *)
DisturbingInform(t) ==
  /\ disturbed \/ InWindow(t)
  /\ PreemptInform(t)
  /\ disturbed' = TRUE
  /\ seen' = Nothing

AtomicNext == ShownCall \/ \E t \in IrqTask : ShownInform(t) \/ DisturbingInform(t)

AtomicSpec == AtomicInit /\ [][AtomicNext]_hvars

Kernel == INSTANCE Ipc WITH
            p_flags <- seen.p_flags, p_recvfrom <- seen.p_recvfrom,
            p_sendto <- seen.p_sendto, p_msg <- seen.p_msg,
            q_sending <- seen.q_sending, has_int_msg <- seen.has_int_msg,
            mem <- seen.mem, panic <- seen.panic

(* Until an interrupt falls into a window, system calls with interrupts    *)
(* inside them (kernel.asm:363) implement the atomic calls of Ipc.         *)
CallsAreAtomic ==
  Kernel!Init /\ [][disturbed' \/ Kernel!Next]_(Kernel!vars)
=============================================================================
