------------------------------ MODULE Mailbox ------------------------------
(***************************************************************************)
(* What the kernel's message passing promises its users, without flags,    *)
(* pointers or linked lists.  Every process owns a mailbox; a sender whose *)
(* message lies in a mailbox waits until it has been taken out.            *)
(***************************************************************************)
EXTENDS Sequences, Naturals, SequencesExt

CONSTANTS Proc, IrqTask, Type, ANY, INTERRUPT, NO_TASK, HARD_INT, EMPTY

VARIABLES
  box,      \* box[d]: the messages that wait for process d, oldest first
  want,     \* want[d]: whom d is waiting to hear from, or NO_TASK
  buf,      \* buf[p]: the message p last prepared or received
  pending,  \* the tasks an interrupt is remembered for
  up        \* FALSE once the machine has been halted

vars == <<box, want, buf, pending, up>>

Sources == Proc \cup {ANY, INTERRUPT}

(* a has a message waiting in b's mailbox.                                 *)
Offers(a, b) == \E i \in DOMAIN box[b] : box[b][i].source = a

Free(p) == up /\ want[p] = NO_TASK /\ \A d \in Proc : ~Offers(p, d)

(* Sending from p to d would leave a circle in which everyone waits for    *)
(* another one of the circle to take its message.                          *)
ClosesCircle(p, d) ==
  \E S \in SUBSET Proc :
    {p, d} \subseteq S /\ \A a \in S \ {p} : \E b \in S : Offers(a, b)

Init ==
  /\ box = [d \in Proc |-> << >>]
  /\ want = [d \in Proc |-> NO_TASK]
  /\ buf = [p \in Proc |-> [source |-> NO_TASK, type |-> EMPTY]]
  /\ pending = {}
  /\ up = TRUE

(* A message reaches a process that waits for it, or else its mailbox.     *)
Send(p, d, t) ==
  LET m == [source |-> p, type |-> t] IN
  /\ Free(p) /\ p # d
  /\ IF ClosesCircle(p, d)
     THEN /\ up' = FALSE
          /\ buf' = [buf EXCEPT ![p] = m]
          /\ UNCHANGED <<box, want, pending>>
     ELSE IF want[d] \in {p, ANY}
     THEN /\ want' = [want EXCEPT ![d] = NO_TASK]
          /\ buf' = [buf EXCEPT ![p] = m, ![d] = m]
          /\ UNCHANGED <<box, pending, up>>
     ELSE /\ box' = [box EXCEPT ![d] = Append(@, m)]
          /\ buf' = [buf EXCEPT ![p] = m]
          /\ UNCHANGED <<want, pending, up>>

(* The oldest message from an accepted source is taken out; its sender is  *)
(* free again because the message has left the mailbox.                    *)
Take(p, src) ==
  /\ Free(p) /\ p # src
  /\ ~(p \in pending /\ src \in {ANY, INTERRUPT})
  /\ \E i \in DOMAIN box[p] :
       /\ src \in {ANY, box[p][i].source}
       /\ \A j \in 1..(i - 1) : src \notin {ANY, box[p][j].source}
       /\ buf' = [buf EXCEPT ![p] = box[p][i]]
       /\ box' = [box EXCEPT ![p] = RemoveAt(@, i)]
  /\ UNCHANGED <<want, pending, up>>

TakeInterrupt(p, src) ==
  /\ Free(p)
  /\ p \in pending /\ src \in {ANY, INTERRUPT}
  /\ pending' = pending \ {p}
  /\ buf' = [buf EXCEPT ![p] = [source |-> INTERRUPT, type |-> HARD_INT]]
  /\ UNCHANGED <<box, want, up>>

(* With nothing acceptable in the mailbox, p waits.                        *)
Wait(p, src) ==
  /\ Free(p) /\ p # src
  /\ ~(p \in pending /\ src \in {ANY, INTERRUPT})
  /\ \A i \in DOMAIN box[p] : src \notin {ANY, box[p][i].source}
  /\ want' = [want EXCEPT ![p] = src]
  /\ buf' = [buf EXCEPT ![p].source = p]
  /\ UNCHANGED <<box, pending, up>>

(* Interrupts of one task coalesce while it does not wait for one.         *)
Interrupt(t) ==
  /\ up
  /\ IF want[t] \in {ANY, INTERRUPT}
     THEN /\ want' = [want EXCEPT ![t] = NO_TASK]
          /\ buf' = [buf EXCEPT ![t] = [source |-> INTERRUPT, type |-> HARD_INT]]
          /\ UNCHANGED pending
     ELSE /\ pending' = pending \cup {t}
          /\ UNCHANGED <<want, buf>>
  /\ UNCHANGED <<box, up>>

(* Waiting for an interrupt that is not pending may halt the machine.      *)
Stray(p) ==
  /\ Free(p) /\ p \notin pending
  /\ up' = FALSE
  /\ buf' = [buf EXCEPT ![p].source = p]
  /\ UNCHANGED <<box, want, pending>>

Next ==
  \/ \E p, d \in Proc, t \in Type : Send(p, d, t)
  \/ \E p \in Proc, src \in Sources :
        Take(p, src) \/ TakeInterrupt(p, src) \/ Wait(p, src)
  \/ \E p \in Proc : Stray(p)
  \/ \E t \in IrqTask : Interrupt(t)

Spec == Init /\ [][Next]_vars
=============================================================================
