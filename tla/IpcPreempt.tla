----------------------------- MODULE IpcPreempt -----------------------------
(***************************************************************************)
(* Message passing with interrupts inside the system call.                 *)
(*                                                                         *)
(* sys_call executes sti (kernel.asm:363) before it calls sys_sendrec(),   *)
(* so the handlers that end in inform_int() run between any two of its     *)
(* instructions.  No second system call starts meanwhile: a handler that   *)
(* has interrupted the kernel (k_reenter # 0) does not reschedule          *)
(* (clock.c:25).  The call is therefore split where inform_int(t) reads or *)
(* writes the same fields: at the fields of a process that is or becomes   *)
(* RECEIVING.  Statements that only touch SENDING processes and queues,    *)
(* which inform_int() never does, stay together in one step.               *)
(***************************************************************************)
EXTENDS Ipc

VARIABLE call  \* the system call in progress: who, with whom, what is next

pvars == <<p_flags, p_recvfrom, p_sendto, p_msg, q_sending, has_int_msg,
           mem, panic, call>>

NoCall == [p |-> NO_TASK, peer |-> NO_TASK, pc |-> "none"]

SendPc == {"test", "assert", "copy", "unmsg", "unflag", "unfrom", "enqueue"}
ReceivePc == {"int", "intcopy", "intclear", "intassert", "look", "flag", "msg",
              "from", "block"}

PreemptInit == Init /\ call = NoCall

(* The machine is up and the call has come to the statement s.             *)
At(s) == panic = "no" /\ call.pc = s

GoTo(s) == call' = [call EXCEPT !.pc = s]
Return  == call' = NoCall

-----------------------------------------------------------------------------
(* The entry of a call: sys_sendrec() stamps the message.  deadlock()      *)
(* reads only what interrupts leave alone.                                 *)

EnterSend(p, dest, t) ==
  /\ At("none") /\ CanCall(p) /\ p # dest
  /\ mem' = [mem EXCEPT ![p] = Stamped(p, t)]
  /\ call' = [p |-> p, peer |-> dest, pc |-> "test"]
  /\ panic' = IF deadlock(p, dest) THEN "DEADLOCK" ELSE panic
  /\ UNCHANGED <<p_flags, p_recvfrom, p_sendto, p_msg, q_sending, has_int_msg>>

EnterReceive(p, src) ==
  /\ At("none") /\ CanCall(p) /\ p # src
  /\ mem' = [mem EXCEPT ![p].source = p]
  /\ call' = [p |-> p, peer |-> src, pc |-> "int"]
  /\ UNCHANGED <<p_flags, p_recvfrom, p_sendto, p_msg, q_sending, has_int_msg,
                 panic>>

-----------------------------------------------------------------------------
(* msg_send().                                                             *)

(* Lines 290-292.                                                          *)
SendTest ==
  /\ At("test")
  /\ GoTo(IF Awaits(call.peer, call.p) THEN "assert" ELSE "enqueue")
  /\ UNCHANGED vars

(* Line 293: assert(p_dest->p_msg).                                        *)
SendAssert ==
  /\ At("assert")
  /\ IF p_msg[call.peer] = 0
     THEN panic' = "ASSERT" /\ UNCHANGED call
     ELSE GoTo("copy") /\ UNCHANGED panic
  /\ UNCHANGED <<p_flags, p_recvfrom, p_sendto, p_msg, q_sending, has_int_msg,
                 mem>>

(* Line 296.  A null p_msg sends the message to dest's address 0.          *)
SendCopy ==
  /\ At("copy")
  /\ mem' = IF p_msg[call.peer] = 0 THEN mem
            ELSE [mem EXCEPT ![call.peer] = mem[call.p]]
  /\ GoTo("unmsg")
  /\ UNCHANGED <<p_flags, p_recvfrom, p_sendto, p_msg, q_sending, has_int_msg,
                 panic>>

(* Mutant: line 299 would be missing.                                      *)
SendKeepMsg ==
  /\ At("unmsg")
  /\ GoTo("unflag")
  /\ UNCHANGED vars

(* Lines 299, 300 and 301.                                                 *)
SendClearMsg ==
  /\ At("unmsg")
  /\ p_msg' = [p_msg EXCEPT ![call.peer] = 0]
  /\ GoTo("unflag")
  /\ UNCHANGED <<p_flags, p_recvfrom, p_sendto, q_sending, has_int_msg, mem,
                 panic>>

SendClearFlag ==
  /\ At("unflag")
  /\ p_flags' = [p_flags EXCEPT ![call.peer] = @ \ {RECEIVING}]
  /\ GoTo("unfrom")
  /\ UNCHANGED <<p_recvfrom, p_sendto, p_msg, q_sending, has_int_msg, mem,
                 panic>>

SendClearFrom ==
  /\ At("unfrom")
  /\ p_recvfrom' = [p_recvfrom EXCEPT ![call.peer] = NO_TASK]
  /\ Return
  /\ UNCHANGED <<p_flags, p_sendto, p_msg, q_sending, has_int_msg, mem, panic>>

(* Mutant: lines 318-331 would be missing, the queue left alone.           *)
SendNoQueue ==
  /\ At("enqueue")
  /\ p_flags' = [p_flags EXCEPT ![call.p] = @ \cup {SENDING}]
  /\ p_sendto' = [p_sendto EXCEPT ![call.p] = call.peer]
  /\ p_msg' = [p_msg EXCEPT ![call.p] = 1]
  /\ Return
  /\ UNCHANGED <<p_recvfrom, q_sending, has_int_msg, mem, panic>>

(* Lines 314-332.                                                          *)
SendEnqueue ==
  /\ At("enqueue")
  /\ p_flags' = [p_flags EXCEPT ![call.p] = @ \cup {SENDING}]
  /\ p_sendto' = [p_sendto EXCEPT ![call.p] = call.peer]
  /\ p_msg' = [p_msg EXCEPT ![call.p] = 1]
  /\ q_sending' = [q_sending EXCEPT ![call.peer] = Append(@, call.p)]
  /\ Return
  /\ UNCHANGED <<p_recvfrom, has_int_msg, mem, panic>>

-----------------------------------------------------------------------------
(* msg_receive().                                                          *)

(* Lines 372-373.                                                          *)
ReceiveTestInt ==
  /\ At("int")
  /\ GoTo(IF TakesInt(call.p, call.peer) THEN "intcopy" ELSE "look")
  /\ UNCHANGED vars

(* Lines 378-384 and 386.                                                  *)
ReceiveCopyInt ==
  /\ At("intcopy")
  /\ mem' = [mem EXCEPT ![call.p] = IntMessage]
  /\ GoTo("intclear")
  /\ UNCHANGED <<p_flags, p_recvfrom, p_sendto, p_msg, q_sending, has_int_msg,
                 panic>>

ReceiveClearInt ==
  /\ At("intclear")
  /\ has_int_msg' = [has_int_msg EXCEPT ![call.p] = 0]
  /\ GoTo("intassert")
  /\ UNCHANGED <<p_flags, p_recvfrom, p_sendto, p_msg, q_sending, mem, panic>>

(* Lines 388-391.  The first three of the assertions are about fields that *)
(* interrupts leave alone in a process that is not receiving; the last,    *)
(* assert(p_who_wanna_recv->has_int_msg == 0), is not.                     *)
ReceiveAssertInt ==
  /\ At("intassert")
  /\ IF has_int_msg[call.p] # 0
     THEN panic' = "ASSERT" /\ UNCHANGED call
     ELSE Return /\ UNCHANGED panic
  /\ UNCHANGED <<p_flags, p_recvfrom, p_sendto, p_msg, q_sending, has_int_msg,
                 mem>>

(* Lines 398-485: fetch from the queue, or find that nobody is sending.    *)
ReceiveLook ==
  /\ At("look")
  /\ LET p == call.p  src == call.peer IN
     IF CopyOk(p, src)
     THEN LET i    == FetchIndex(p, src)
              from == q_sending[p][i]
          IN  /\ q_sending' = [q_sending EXCEPT ![p] = Unlink(@, i)]
              /\ mem' = [mem EXCEPT ![p] = mem[from]]
              /\ p_msg' = [p_msg EXCEPT ![from] = 0]
              /\ p_sendto' = [p_sendto EXCEPT ![from] = NO_TASK]
              /\ p_flags' = [p_flags EXCEPT ![from] = @ \ {SENDING}]
              /\ Return
     ELSE /\ GoTo("flag")
          /\ UNCHANGED <<q_sending, mem, p_msg, p_sendto, p_flags>>
  /\ UNCHANGED <<p_recvfrom, has_int_msg, panic>>

(* Line 424 with src = INTERRUPT, see Ipc!ReceiveStray.                    *)
ReceiveLookStray ==
  /\ At("look") /\ call.peer = INTERRUPT
  /\ panic' = "ASSERT"
  /\ UNCHANGED <<p_flags, p_recvfrom, p_sendto, p_msg, q_sending, has_int_msg,
                 mem, call>>

(* Lines 490, 492 and 494-497.                                             *)
ReceiveSetFlag ==
  /\ At("flag")
  /\ p_flags' = [p_flags EXCEPT ![call.p] = @ \cup {RECEIVING}]
  /\ GoTo("msg")
  /\ UNCHANGED <<p_recvfrom, p_sendto, p_msg, q_sending, has_int_msg, mem,
                 panic>>

ReceiveSetMsg ==
  /\ At("msg")
  /\ p_msg' = [p_msg EXCEPT ![call.p] = 1]
  /\ GoTo("from")
  /\ UNCHANGED <<p_flags, p_recvfrom, p_sendto, q_sending, has_int_msg, mem,
                 panic>>

ReceiveSetFrom ==
  /\ At("from")
  /\ p_recvfrom' = [p_recvfrom EXCEPT ![call.p] = call.peer]
  /\ GoTo("block")
  /\ UNCHANGED <<p_flags, p_sendto, p_msg, q_sending, has_int_msg, mem, panic>>

(* Lines 499 and 204: assert(p->p_flags), then another process runs.       *)
ReceiveDoBlock ==
  /\ At("block")
  /\ IF p_flags[call.p] = {}
     THEN panic' = "ASSERT" /\ UNCHANGED call
     ELSE Return /\ UNCHANGED panic
  /\ UNCHANGED <<p_flags, p_recvfrom, p_sendto, p_msg, q_sending, has_int_msg,
                 mem>>

-----------------------------------------------------------------------------
(* inform_int(), called by hd_handler() and by clock_handler() at any time.*)
(* Should p_msg be null, the message goes to address 0 (proc.c:61-62).     *)

PreemptDeliver(t) ==
  /\ panic = "no"
  /\ Informs(t)
  /\ mem' = IF p_msg[t] = 0 THEN mem ELSE [mem EXCEPT ![t] = IntMessage]
  /\ p_msg' = [p_msg EXCEPT ![t] = 0]
  /\ has_int_msg' = [has_int_msg EXCEPT ![t] = 0]
  /\ p_flags' = [p_flags EXCEPT ![t] = @ \ {RECEIVING}]
  /\ p_recvfrom' = [p_recvfrom EXCEPT ![t] = NO_TASK]
  /\ UNCHANGED <<p_sendto, q_sending, panic, call>>

PreemptPend(t) == InformPend(t) /\ UNCHANGED call

PreemptInform(t) == PreemptDeliver(t) \/ PreemptPend(t)

-----------------------------------------------------------------------------
SendStatement ==
  \/ SendTest \/ SendAssert \/ SendCopy \/ SendClearMsg \/ SendClearFlag
  \/ SendClearFrom \/ SendEnqueue

ReceiveStatement ==
  \/ ReceiveTestInt \/ ReceiveCopyInt \/ ReceiveClearInt \/ ReceiveAssertInt
  \/ ReceiveLook \/ ReceiveLookStray \/ ReceiveSetFlag \/ ReceiveSetMsg
  \/ ReceiveSetFrom \/ ReceiveDoBlock

(* The kernel's own steps.                                                 *)
CallStep ==
  \/ \E p, dest \in Proc, t \in Type : EnterSend(p, dest, t)
  \/ \E p \in Proc, src \in Source : EnterReceive(p, src)
  \/ SendStatement
  \/ ReceiveStatement

PreemptNext == CallStep \/ \E t \in IrqTask : PreemptInform(t)

PreemptSpec == PreemptInit /\ [][PreemptNext]_pvars

-----------------------------------------------------------------------------
(* The windows in which an interrupt for a party of the call disturbs it:  *)
(* from the test of a receiver to the end of the delivery to it, from the  *)
(* clearing of a remembered interrupt to the assertion that there is none, *)
(* and from the test for a remembered interrupt to the end of the call     *)
(* that waits for one.                                                     *)

InSendWindow(t) ==
  /\ call.pc \in {"assert", "copy", "unmsg", "unflag", "unfrom"}
  /\ t = call.peer

InAssertWindow(t) == call.pc = "intassert" /\ t = call.p

InReceiveWindow(t) ==
  /\ call.pc \in {"look", "flag", "msg", "from", "block"}
  /\ t = call.p
  /\ call.peer \in {ANY, INTERRUPT}

InWindow(t) == InSendWindow(t) \/ InAssertWindow(t) \/ InReceiveWindow(t)

-----------------------------------------------------------------------------
(* Properties.                                                             *)

(* Wherever interrupts fall, the sending queues hold exactly the blocked   *)
(* senders between calls, and no cycle of senders comes about, nor a       *)
(* sender and a receiver that wait for each other.                         *)
StructureSurvives ==
  /\ NoSendCycle
  /\ call = NoCall => QueueExact /\ NoMissedRendezvous

(* "nonzero if an INTERRUPT occurred when the task is not ready to deal    *)
(* with it" (proc.h:55-58): between calls, a task that is blocked waiting  *)
(* for an interrupt is ready, and has none pending.                        *)
ReadyTaskHasNoInterrupt == call = NoCall => NoPendingInterrupt
=============================================================================
