-------------------------------- MODULE Ipc --------------------------------
(***************************************************************************)
(* Synchronous message passing of the kernel (src/kernel/proc.c).          *)
(*                                                                         *)
(* A process calls sendrec(SEND | RECEIVE); the kernel either completes    *)
(* the rendezvous at once or blocks the caller: a sender is linked into    *)
(* the destination's queue q_sending, a receiver is marked RECEIVING.      *)
(* Interrupt handlers turn an interrupt into a message with inform_int().  *)
(*                                                                         *)
(* Here a system call is one step and interrupts arrive between system     *)
(* calls; IpcPreempt.tla opens the call up, as kernel.asm's sys_call       *)
(* enables interrupts while it runs.  Any runnable process may be the one  *)
(* that runs: which one, is schedule()'s choice (proc.c:25).               *)
(***************************************************************************)
EXTENDS Sequences, Naturals, FiniteSets

CONSTANTS
  Proc,        \* the processes that take part, a subset of proc_table
  IrqTask,     \* the tasks inform_int() is called for (TASK_TTY, TASK_HD)
  Type,        \* the message types and bodies that callers send
  ANY, INTERRUPT, NO_TASK,   \* pseudo process numbers (const.h:120-130)
  HARD_INT,                  \* the type of an interrupt's message
  EMPTY                      \* the type field of a MESSAGE not yet written

ASSUME IrqTaskAssumption == IrqTask \subseteq Proc
ASSUME PseudoProcAssumption ==
  /\ {ANY, INTERRUPT, NO_TASK} \cap Proc = {}
  /\ ANY # INTERRUPT /\ ANY # NO_TASK /\ INTERRUPT # NO_TASK
ASSUME TypeAssumption == {HARD_INT, EMPTY} \cap Type = {} /\ HARD_INT # EMPTY

VARIABLES
  p_flags,      \* SENDING, RECEIVING: why a process is blocked; {} = runnable
  p_recvfrom,   \* whom a RECEIVING process accepts
  p_sendto,     \* where a SENDING process sends
  p_msg,        \* 0, or 1: the address of the MESSAGE the caller passed
  q_sending,    \* the blocked senders of each process, oldest first
  has_int_msg,  \* 1: an interrupt came while the task could not take it
  mem,          \* the MESSAGE of each process, in its own memory
  panic         \* "no", or why the machine has been halted

vars == <<p_flags, p_recvfrom, p_sendto, p_msg, q_sending, has_int_msg,
          mem, panic>>

SENDING   == "SENDING"
RECEIVING == "RECEIVING"

Source  == Proc \cup {ANY, INTERRUPT}
Message == [source : Proc \cup {INTERRUPT, NO_TASK},
            type   : Type \cup {HARD_INT, EMPTY}]

IntMessage == [source |-> INTERRUPT, type |-> HARD_INT]

TypeOK ==
  /\ p_flags \in [Proc -> SUBSET {SENDING, RECEIVING}]
  /\ p_recvfrom \in [Proc -> Source \cup {NO_TASK}]
  /\ p_sendto \in [Proc -> Proc \cup {NO_TASK}]
  /\ p_msg \in [Proc -> {0, 1}]
  /\ q_sending \in [Proc -> Seq(Proc)]
  /\ has_int_msg \in [Proc -> {0, 1}]
  /\ mem \in [Proc -> Message]
  /\ panic \in {"no", "DEADLOCK", "ASSERT"}

(* What kernel_main() leaves in every process table entry it uses.         *)
Init ==
  /\ p_flags = [p \in Proc |-> {}]
  /\ p_recvfrom = [p \in Proc |-> NO_TASK]
  /\ p_sendto = [p \in Proc |-> NO_TASK]
  /\ p_msg = [p \in Proc |-> 0]
  /\ q_sending = [p \in Proc |-> << >>]
  /\ has_int_msg = [p \in Proc |-> 0]
  /\ mem = [p \in Proc |-> [source |-> NO_TASK, type |-> EMPTY]]
  /\ panic = "no"

-----------------------------------------------------------------------------
(* Helpers.                                                                *)

Sending(p) == SENDING \in p_flags[p]

(* Mutant: a process blocked sending could call again.                     *)
CanCallWhileSending(p) == panic = "no" /\ RECEIVING \notin p_flags[p]

(* p can make a system call: the machine is up and p is runnable.          *)
CanCall(p) == panic = "no" /\ p_flags[p] = {}

(* Mutant: any receiver would do.                                          *)
AwaitsAnyone(dest, src) == RECEIVING \in p_flags[dest]

(* dest is blocked in a RECEIVE that takes a message from src.             *)
Awaits(dest, src) ==
  /\ RECEIVING \in p_flags[dest]
  /\ p_recvfrom[dest] \in {src, ANY}

(* T is closed under the p_sendto links of its blocked senders.            *)
ChainClosed(T) == \A t \in T : Sending(t) => p_sendto[t] \in T

(* Mutant: only a circle of two would be found.                            *)
deadlockOfTwo(src, dest) == Sending(dest) /\ p_sendto[dest] = src

(* deadlock() walks the p_sendto links from dest; the processes it visits  *)
(* are the smallest closed set that holds dest.  It reports a deadlock iff *)
(* one of them is sending to src.                                          *)
deadlock(src, dest) ==
  \A T \in SUBSET Proc :
    dest \in T /\ ChainClosed(T) => {t \in T : Sending(t) /\ p_sendto[t] = src} # {}

(* The walk itself: where the loop is after i hops.  It stays with the     *)
(* first process that is not sending.                                      *)
Walk(dest) ==
  LET at[i \in Nat] ==
        IF i = 0 THEN dest
        ELSE IF Sending(at[i - 1]) THEN p_sendto[at[i - 1]] ELSE at[i - 1]
  IN  at

(* Mutants: the head would be unlinked whoever sent; the last sender would *)
(* take the place of the one unlinked.                                     *)
UnlinkHead(q, i) == Tail(q)
UnlinkSwap(q, i) == [j \in 1..(Len(q) - 1) |-> IF j = i THEN q[Len(q)] ELSE q[j]]

(* The walk over q_sending that unlinks the i-th sender.                   *)
Unlink(q, i) == [j \in 1..(Len(q) - 1) |-> IF j < i THEN q[j] ELSE q[j + 1]]

(* Mutant: a RECEIVE from one process would not look at who is sending.    *)
CopyOkAnyOnly(p, src) == src = ANY /\ q_sending[p] # << >>

(* copyok of msg_receive(): somebody p accepts is blocked sending to p.    *)
CopyOk(p, src) ==
  IF src = ANY THEN q_sending[p] # << >>
  ELSE src \in Proc /\ Sending(src) /\ p_sendto[src] = p

(* Where in p's queue the message is fetched from.                         *)
FetchIndex(p, src) ==
  IF src = ANY THEN 1
  ELSE CHOOSE i \in 1..Len(q_sending[p]) : q_sending[p][i] = src

-----------------------------------------------------------------------------
(* SEND (msg_send).  sys_sendrec() has stamped the message with its sender.*)

(* Mutant: the message would not be stamped by the kernel.                 *)
Unstamped(p, t) == [source |-> ANY, type |-> t]

Stamped(p, t) == [source |-> p, type |-> t]

(* The send would close a cycle of senders: panic(">>DEADLOCK<<").         *)
SendDeadlock(p, dest, t) ==
  /\ CanCall(p) /\ p # dest
  /\ deadlock(p, dest)
  /\ mem' = [mem EXCEPT ![p] = Stamped(p, t)]
  /\ panic' = "DEADLOCK"
  /\ UNCHANGED <<p_flags, p_recvfrom, p_sendto, p_msg, q_sending, has_int_msg>>

(* dest is waiting for the message: copy it and unblock dest.              *)
SendDeliver(p, dest, t) ==
  /\ CanCall(p) /\ p # dest
  /\ ~deadlock(p, dest)
  /\ Awaits(dest, p)
  /\ mem' = [mem EXCEPT ![p] = Stamped(p, t), ![dest] = Stamped(p, t)]
  /\ p_msg' = [p_msg EXCEPT ![dest] = 0]
  /\ p_flags' = [p_flags EXCEPT ![dest] = @ \ {RECEIVING}]
  /\ p_recvfrom' = [p_recvfrom EXCEPT ![dest] = NO_TASK]
  /\ UNCHANGED <<p_sendto, q_sending, has_int_msg, panic>>

(* dest is not: block the sender at the tail of dest's queue.              *)
SendBlock(p, dest, t) ==
  /\ CanCall(p) /\ p # dest
  /\ ~deadlock(p, dest)
  /\ ~Awaits(dest, p)
  /\ mem' = [mem EXCEPT ![p] = Stamped(p, t)]
  /\ p_flags' = [p_flags EXCEPT ![p] = @ \cup {SENDING}]
  /\ p_sendto' = [p_sendto EXCEPT ![p] = dest]
  /\ p_msg' = [p_msg EXCEPT ![p] = 1]
  /\ q_sending' = [q_sending EXCEPT ![dest] = Append(@, p)]
  /\ UNCHANGED <<p_recvfrom, has_int_msg, panic>>

-----------------------------------------------------------------------------
(* RECEIVE (msg_receive).                                                  *)

(* Mutant: a RECEIVE from ANY would not look for a pending interrupt.      *)
TakesIntOnly(p, src) == has_int_msg[p] = 1 /\ src = INTERRUPT

TakesInt(p, src) == has_int_msg[p] = 1 /\ src \in {ANY, INTERRUPT}

(* A remembered interrupt is delivered before any sender's message.        *)
ReceiveInterrupt(p, src) ==
  /\ CanCall(p)
  /\ TakesInt(p, src)
  /\ mem' = [mem EXCEPT ![p] = IntMessage]
  /\ has_int_msg' = [has_int_msg EXCEPT ![p] = 0]
  /\ UNCHANGED <<p_flags, p_recvfrom, p_sendto, p_msg, q_sending, panic>>

(* Fetch the message of a blocked sender, unlink and unblock the sender.   *)
ReceiveFetch(p, src) ==
  /\ CanCall(p) /\ p # src
  /\ ~TakesInt(p, src)
  /\ CopyOk(p, src)
  /\ LET i    == FetchIndex(p, src)
         from == q_sending[p][i]
     IN  /\ q_sending' = [q_sending EXCEPT ![p] = Unlink(@, i)]
         /\ mem' = [mem EXCEPT ![p] = mem[from]]
         /\ p_msg' = [p_msg EXCEPT ![from] = 0]
         /\ p_sendto' = [p_sendto EXCEPT ![from] = NO_TASK]
         /\ p_flags' = [p_flags EXCEPT ![from] = @ \ {SENDING}]
  /\ UNCHANGED <<p_recvfrom, has_int_msg, panic>>

(* Nobody is sending: block the receiver.  Its MESSAGE already carries its *)
(* own number as the source, put there by sys_sendrec().                   *)
ReceiveBlock(p, src) ==
  /\ CanCall(p) /\ p # src
  /\ ~TakesInt(p, src)
  /\ ~CopyOk(p, src)
  /\ mem' = [mem EXCEPT ![p].source = p]
  /\ p_flags' = [p_flags EXCEPT ![p] = @ \cup {RECEIVING}]
  /\ p_msg' = [p_msg EXCEPT ![p] = 1]
  /\ p_recvfrom' = [p_recvfrom EXCEPT ![p] = src]
  /\ UNCHANGED <<p_sendto, q_sending, has_int_msg, panic>>

(* RECEIVE from INTERRUPT reads proc_table[INTERRUPT], memory in front of  *)
(* the table.  Should that memory look like a process sending to p, the    *)
(* search of p's queue cannot find it and an assertion halts the machine.  *)
ReceiveStray(p) ==
  /\ CanCall(p)
  /\ ~TakesInt(p, INTERRUPT)
  /\ mem' = [mem EXCEPT ![p].source = p]
  /\ panic' = "ASSERT"
  /\ UNCHANGED <<p_flags, p_recvfrom, p_sendto, p_msg, q_sending, has_int_msg>>

-----------------------------------------------------------------------------
(* inform_int().                                                           *)

Informs(t) == RECEIVING \in p_flags[t] /\ p_recvfrom[t] \in {INTERRUPT, ANY}

InformDeliver(t) ==
  /\ panic = "no"
  /\ Informs(t)
  /\ mem' = [mem EXCEPT ![t] = IntMessage]
  /\ p_msg' = [p_msg EXCEPT ![t] = 0]
  /\ has_int_msg' = [has_int_msg EXCEPT ![t] = 0]
  /\ p_flags' = [p_flags EXCEPT ![t] = @ \ {RECEIVING}]
  /\ p_recvfrom' = [p_recvfrom EXCEPT ![t] = NO_TASK]
  /\ UNCHANGED <<p_sendto, q_sending, panic>>

InformPend(t) ==
  /\ panic = "no"
  /\ ~Informs(t)
  /\ has_int_msg' = [has_int_msg EXCEPT ![t] = 1]
  /\ UNCHANGED <<p_flags, p_recvfrom, p_sendto, p_msg, q_sending, mem, panic>>

-----------------------------------------------------------------------------
SendStep(p, dest, t) ==
  SendDeadlock(p, dest, t) \/ SendDeliver(p, dest, t) \/ SendBlock(p, dest, t)

ReceiveStep(p, src) ==
  ReceiveInterrupt(p, src) \/ ReceiveFetch(p, src) \/ ReceiveBlock(p, src)

InformStep(t) == InformDeliver(t) \/ InformPend(t)

Next ==
  \/ \E p, dest \in Proc, t \in Type : SendStep(p, dest, t)
  \/ \E p \in Proc, src \in Source : ReceiveStep(p, src)
  \/ \E p \in Proc : ReceiveStray(p)
  \/ \E t \in IrqTask : InformStep(t)

Spec == Init /\ [][Next]_vars

-----------------------------------------------------------------------------
(* Safety.                                                                 *)

(* The fields that describe why a process is blocked agree with each other *)
(* and with its flags, as the assertions of proc.c:304-311, 334-337,       *)
(* 388-391 and 407-415 require of every caller, sender and receiver.       *)
BlockedStateAgrees ==
  \A p \in Proc :
    /\ Sending(p) <=> p_sendto[p] # NO_TASK
    /\ RECEIVING \in p_flags[p] <=> p_recvfrom[p] # NO_TASK
    /\ p_flags[p] # {SENDING, RECEIVING}
    /\ p_msg[p] = 1 <=> p_flags[p] # {}

(* The queue of a process holds exactly the processes blocked sending to   *)
(* it, each once: unlinking a sender from the middle (proc.c:463-472)      *)
(* neither loses nor duplicates one.                                       *)
QueueExact ==
  \A d \in Proc :
    /\ \A p \in Proc : (Sending(p) /\ p_sendto[p] = d)
                         <=> \E i \in 1..Len(q_sending[d]) : q_sending[d][i] = p
    /\ \A i, j \in 1..Len(q_sending[d]) :
          q_sending[d][i] = q_sending[d][j] => i = j

(* No two processes wait for each other to complete the same rendezvous:   *)
(* a blocked sender's destination is never blocked receiving from it.      *)
NoMissedRendezvous ==
  \A p \in Proc, d \in Proc : Sending(p) /\ p_sendto[p] = d => ~Awaits(d, p)

(* A task blocked where an interrupt may wake it has no interrupt pending  *)
(* (has_int_msg is "nonzero if an INTERRUPT occurred when the task is not  *)
(* ready to deal with it", proc.h:55-58).                                  *)
NoPendingInterrupt == \A p \in Proc : has_int_msg[p] = 1 => ~Informs(p)

(* No set of processes is blocked sending into itself: the check before    *)
(* each send keeps the messaging graph free of cycles of any length.       *)
NoSendCycle ==
  \A S \in SUBSET Proc :
    S # {} => \E p \in S : ~(Sending(p) /\ p_sendto[p] \in S)

(* The loop of deadlock() ends after at most so many hops as there are     *)
(* processes, at a link to the caller if deadlock() says that the send     *)
(* would close a circle, and else at a process that is not sending; the    *)
(* processes of a chain that is printed have messages (proc.c:247).        *)
WalkAgrees ==
  \A p, dest \in Proc :
    CanCall(p) /\ p # dest =>
      \E n \in 0..Cardinality(Proc) :
        /\ \A i \in 0..(n - 1) : LET q == Walk(dest)[i] IN Sending(q) /\ p_sendto[q] # p
        /\ LET q == Walk(dest)[n] IN
           IF deadlock(p, dest)
           THEN Sending(q) /\ p_sendto[q] = p /\ \A i \in 0..n : p_msg[Walk(dest)[i]] = 1
           ELSE ~Sending(q)

-----------------------------------------------------------------------------
(* Action properties.                                                      *)

(* A blocked sender is released only by its destination taking exactly the *)
(* message it sent, and a blocked receiver only with a message from whom   *)
(* it accepts: nothing is dropped, altered or misdelivered.                *)
RendezvousStep ==
  \A p \in Proc :
    /\ Sending(p) /\ p_flags'[p] = {} =>
         mem'[p_sendto[p]] = mem[p]
    /\ RECEIVING \in p_flags[p] /\ p_flags'[p] = {} =>
         \/ mem'[p].source \in Proc /\ p_recvfrom[p] \in {ANY, mem'[p].source}
         \/ mem'[p].source = INTERRUPT /\ p_recvfrom[p] \in {ANY, INTERRUPT}
Rendezvous == [][RendezvousStep]_vars

(* Of the senders blocked on one process none overtakes another: as long   *)
(* as both stay queued, their order in the queue does not change.          *)
FifoStep ==
  \A d \in Proc :
    \A i, j \in 1..Len(q_sending[d]), k, l \in 1..Len(q_sending'[d]) :
      (/\ i < j
       /\ q_sending'[d][k] = q_sending[d][i]
       /\ q_sending'[d][l] = q_sending[d][j]) => k < l
Fifo == [][FifoStep]_vars
=============================================================================
