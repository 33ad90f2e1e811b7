----------------------------- MODULE IpcMailbox -----------------------------
(***************************************************************************)
(* The message passing of proc.c (Ipc) implements mailboxes (Mailbox): the *)
(* mailbox of d holds the messages of the senders queued on d, fetched     *)
(* from the senders' own memory; d waits for p_recvfrom[d]; has_int_msg    *)
(* remembers interrupts.                                                   *)
(***************************************************************************)
EXTENDS Ipc

Contents(d) == [i \in 1..Len(q_sending[d]) |-> mem[q_sending[d][i]]]

Boxes == INSTANCE Mailbox WITH
           box     <- [d \in Proc |-> Contents(d)],
           want    <- p_recvfrom,
           buf     <- mem,
           pending <- {p \in Proc : has_int_msg[p] = 1},
           up      <- panic = "no"

(* Every run of the kernel's SEND, RECEIVE and inform_int() is a run of    *)
(* the mailboxes: messages wait in the order they came, are taken whole,   *)
(* once and by whom they are for, and the machine panics exactly when a    *)
(* circle would close.                                                     *)
ImplementsMailbox == Boxes!Spec
=============================================================================
