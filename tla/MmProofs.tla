------------------------------ MODULE MmProofs ------------------------------
(***************************************************************************)
(* MM keeps families in order, tells its callers the truth and implements  *)
(* Family, for any number of slots of the process table.                   *)
(***************************************************************************)
EXTENDS MmFamily, IpcProofs

-----------------------------------------------------------------------------
(* The inductive invariant.                                                *)

(* The kernel's part of the process table.                                 *)
TableInv ==
  /\ DOMAIN p_recvfrom = Proc /\ DOMAIN p_sendto = Proc /\ DOMAIN p_msg = Proc
  /\ q_sending \in [Proc -> Seq(Proc)] /\ has_int_msg = [p \in Proc |-> 0]
  /\ DOMAIN mem = Proc /\ \A p \in Proc : "source" \in DOMAIN mem[p]
  /\ QueueExact

(* Families, in whatever MM is doing.  While do_exit() is on its way to    *)
(* the children of mm.src they still have it for a parent.                 *)
KinInv ==
  /\ \A s \in Slot : Used(s) =>
       /\ p_parent[s] \in User
       /\ Living(p_parent[s]) \/ (mm.at = "reparent" /\ p_parent[s] = mm.src)
  /\ \A p \in User : WAITING \in p_flags[p] => Hanging(Children(p)) = {}
  /\ \A p \in {MM, FS, INIT} : p_parent[p] \notin User

(* A request that MM can take: Init() never asks to exit.                  *)
IsRequest(u, m) ==
  /\ m.op = pc[u].op /\ m.op \in {"FORK", "EXIT", "WAIT", "EXEC"}
  /\ m.op = "EXIT" => u \in Slot /\ m.val \in Status

(* u's request was taken, and u is in its RECEIVE of the reply or still in *)
(* front of it.                                                            *)
Pending(u, op) ==
  /\ pc[u].op = op
  /\ \/ pc[u].at = "sent" /\ p_flags[u] = {}
     \/ pc[u].at = "wait" /\ p_flags[u] = {RECEIVING}

(* What a user process may be in.                                          *)
UserInv(u) ==
  /\ \/ u \in Slot /\ p_flags[u] = {FREE_SLOT}
     \/ pc[u].at = "spin" /\ p_flags[u] = {}
     \/ pc[u] = Running /\ p_flags[u] \in {{}, {RECEIVING}}
     \/ pc[u].at = "sent" /\ pc[u].op # "none" /\ p_flags[u] \in {{}, {SENDING}}
     \/ pc[u].at = "wait" /\ pc[u].op # "none" /\ p_flags[u] \in {{}, {RECEIVING}}
     \/ pc[u].at = "sent" /\ pc[u].op = "WAIT" /\ p_flags[u] = {WAITING}
     \/ pc[u].at = "wait" /\ pc[u].op = "WAIT" /\ p_flags[u] = {RECEIVING, WAITING}
     \/ u \in Slot /\ pc[u].at = "sent" /\ pc[u].op = "EXIT" /\ p_flags[u] = {HANGING}
     \/ u \in Slot /\ pc[u].at = "wait" /\ pc[u].op = "EXIT" /\ p_flags[u] = {RECEIVING, HANGING}
  /\ Sending(u) => p_sendto[u] = MM /\ mem[u].source = u /\ IsRequest(u, mem[u].type)
  /\ RECEIVING \in p_flags[u] => p_recvfrom[u] = MM
  /\ pc[u].at = "sent" \/ RECEIVING \in p_flags[u] => mem[u].source # MM

(* FS has no request, or has MM's.                                         *)
FsIdle == (fs = "loop" /\ p_flags[FS] = {}) \/ (fs = "serve" /\ p_flags[FS] = {RECEIVING})
FsServes == fs = "serve" /\ p_flags[FS] = {} /\ mem[FS].source = MM
FsAnswers == fs = "loop" /\ p_flags[FS] = {SENDING} /\ p_sendto[FS] = MM

MmFree == p_flags[MM] = {}
MmSendsTo(p) == p_flags[MM] = {SENDING} /\ p_sendto[MM] = p /\ mem[MM].source = MM

Asking == {"forkwait", "exitwait", "statwait", "openwait", "readwait"}
Answered == {"birth", "exit", "openfs", "readfs", "load"}

(* MM's conversation with FS, which may have suspended MM's READ.          *)
FsInv ==
  /\ mm.at \in Asking =>
       \/ MmSendsTo(FS) /\ fs = "loop" /\ p_flags[FS] = {}
       \/ MmFree /\ (FsServes \/ FsAnswers \/ FsIdle)
  /\ mm.at \in Answered =>
       \/ p_flags[MM] = {RECEIVING} /\ p_recvfrom[MM] = FS /\ (FsServes \/ FsIdle)
       \/ MmFree /\ FsIdle
  /\ mm.at \notin Asking \cup Answered => FsIdle
  /\ RECEIVING \in p_flags[FS] => p_recvfrom[FS] = ANY

(* u, to which MM is sending, is in front of its RECEIVE; or exec() has    *)
(* replaced its program there.                                             *)
Reachable(u, op) == pc[u] = [at |-> "sent", op |-> op] /\ p_flags[u] = {}
Replaced(u) == pc[u] = Running /\ p_flags[u] = {}

(* u runs a new program, which may be sending to MM already.               *)
Restarted(u) ==
  (pc[u] = Running /\ p_flags[u] \in {{}, {RECEIVING}}) \/ p_flags[u] = {SENDING}

(* The reply that MM is sending to u in its message loop.                  *)
ReplyInv(u) ==
  LET r == mem[MM].type IN
  \/ Reachable(u, "FORK") /\ r.val = -1
  \/ /\ Reachable(u, "FORK") /\ r.val = 0
     /\ r.pid \in Slot /\ p_parent[r.pid] = u /\ Living(r.pid)
  \/ Reachable(u, "WAIT") /\ r.pid = NO_TASK /\ \A s \in Slot : p_parent[s] = u => ~Used(s)
  \/ Reachable(u, "EXEC")
  \/ Replaced(u) /\ mm.src = u /\ mm.who = 0 /\ mm.val = 0

(* Where MM is, and whose request it has in hand.                          *)
LoopInv ==
  mm.at = "loop" => MmFree \/ \E u \in User : MmSendsTo(u) /\ ReplyInv(u)
DispatchInv ==
  mm.at = "dispatch" =>
    \/ p_flags[MM] = {RECEIVING} /\ p_recvfrom[MM] = ANY
    \/ MmFree /\ Caller \in User /\ IsRequest(Caller, mem[MM].type)
              /\ Pending(Caller, mem[MM].type.op)

Born == /\ mm.src \in User /\ mm.who \in Slot /\ mm.val = 0 /\ mm.src # mm.who
        /\ p_parent[mm.who] = mm.src /\ Pending(mm.src, "FORK") /\ Living(mm.who)
ForkInv ==
  /\ mm.at \in {"image", "forkfs"} => MmFree
  /\ mm.at \in {"image", "forkfs", "forkwait", "birth"} => Born /\ Pending(mm.who, "FORK")

MmReplyInv ==
  mm.at = "reply" =>
    /\ mm.src \in User
    /\ \/ MmFree /\ mm.val = -1 /\ (Pending(mm.src, "FORK") \/ Pending(mm.src, "EXEC"))
       \/ /\ Born
          /\ \/ MmFree
             \/ /\ MmSendsTo(mm.who) /\ Reachable(mm.who, "FORK")
                /\ mem[MM].type.pid = 0 /\ mem[MM].type.val = 0
       \/ MmFree /\ mm.who = 0 /\ mm.val = 0 /\ Restarted(mm.src)

ExitInv ==
  /\ mm.at = "exitfs" => MmFree
  /\ mm.at \in {"exitfs", "exitwait", "exit"} =>
       mm.src \in Slot /\ Pending(mm.src, "EXIT") /\ mm.val \in Status
  /\ mm.at = "reparent" =>
       MmFree /\ mm.src \in Slot /\ p_flags[mm.src] \cap {HANGING, FREE_SLOT} # {}

(* A zombie is told of to its parent, by do_wait() or by its own exit().   *)
CleanupInv ==
  mm.at \in {"cleanup", "free"} =>
    LET parent == p_parent[mm.who] IN
    /\ mm.who \in Slot /\ parent # mm.who
    /\ \/ mm.src = mm.who /\ Pending(mm.who, "EXIT")
       \/ mm.src = 0 /\ HANGING \in p_flags[mm.who]
    /\ mm.at = "cleanup" => MmFree /\ Pending(parent, "WAIT")
    /\ mm.at = "free" =>
         \/ MmFree
         \/ /\ MmSendsTo(parent) /\ Reachable(parent, "WAIT")
            /\ mem[MM].type = Ret(mm.who, exit_status[mm.who])

ExecInv ==
  /\ mm.at \in {"statfs", "program"} => MmFree
  /\ mm.at \in {"statfs", "statwait", "openfs", "openwait", "readfs", "readwait", "load",
                "program"} =>
       mm.src \in User /\ mm.who = 0 /\ mm.val = 0 /\ Pending(mm.src, "EXEC")

(* The conversations, as long as the machine is up.                        *)
HandlerInv ==
  LoopInv /\ DispatchInv /\ ForkInv /\ MmReplyInv /\ ExitInv /\ CleanupInv /\ ExecInv
TalkInv == (\A u \in User : UserInv(u)) /\ FsInv /\ HandlerInv

MmInv ==
  /\ MmTypeOK /\ TableInv /\ KinInv
  /\ panic = "no" => TalkInv
  /\ OnlyExecDeadlocks

-----------------------------------------------------------------------------
(* Processes and flags.                                                    *)

FlagsOK == p_flags \in [Proc -> SUBSET {SENDING, RECEIVING, WAITING, HANGING, FREE_SLOT}]

LEMMA Numbers ==
  /\ Proc = {FS, MM} \cup User /\ FS \notin User /\ MM \notin User /\ FS # MM
  /\ INIT \in User /\ INIT \notin Slot /\ Slot \subseteq User
  /\ User \subseteq Proc /\ FS \in Proc /\ MM \in Proc
  /\ 0 \notin User /\ TASK_TTY \notin User
  /\ ANY \notin Proc /\ NO_TASK \notin Proc /\ IrqTask = {}
BY MmAssumption, PseudoProcAssumption DEF User, FS, MM, INIT, TASK_TTY

LEMMA FirstOf ==
  ASSUME NEW S \in SUBSET Slot, S # {}
  PROVE  First(S) \in S
<1>1. S \in SUBSET Nat
  BY MmAssumption
<1>2. PICK x \in S : \A y \in S : x <= y
  BY <1>1, LeastNat
<1> QED
  BY <1>2 DEF First

-----------------------------------------------------------------------------
(* Deadlocks: the walk of deadlock() from a process that is not sending    *)
(* ends there, and from one that sends to such a process, one further.     *)

LEMMA NotSending ==
  ASSUME NEW src, NEW dest \in Proc, ~Sending(dest)
  PROVE  ~deadlock(src, dest)
<1>1. ChainClosed({dest}) /\ {dest} \in SUBSET Proc
  BY DEF ChainClosed
<1>2. {t \in {dest} : Sending(t) /\ p_sendto[t] = src} = {}
  OBVIOUS
<1> QED
  BY <1>1, <1>2 DEF deadlock

LEMMA SendingElsewhere ==
  ASSUME NEW src, NEW dest \in Proc, NEW x \in Proc, p_sendto[dest] = x, x # src,
         ~Sending(x)
  PROVE  ~deadlock(src, dest)
<1>1. ChainClosed({dest, x}) /\ {dest, x} \in SUBSET Proc
  BY DEF ChainClosed
<1>2. {t \in {dest, x} : Sending(t) /\ p_sendto[t] = src} = {}
  OBVIOUS
<1> QED
  BY <1>1, <1>2 DEF deadlock

LEMMA SendingToEachOther ==
  ASSUME NEW src, NEW dest \in Proc, Sending(dest), p_sendto[dest] = src
  PROVE  deadlock(src, dest)
<1>1. ASSUME NEW T \in SUBSET Proc, dest \in T
      PROVE  dest \in {t \in T : Sending(t) /\ p_sendto[t] = src}
  BY <1>1
<1> QED
  BY <1>1 DEF deadlock

-----------------------------------------------------------------------------
(* What a SEND and a RECEIVE do, process by process.                       *)

(* The kernel stops the machine instead of p blocking.                     *)
Circle(p, dest) ==
  /\ deadlock(p, dest) /\ panic' = "DEADLOCK"
  /\ UNCHANGED <<p_flags, p_recvfrom, p_sendto>>

(* dest has the message.                                                   *)
Delivered(p, dest, t) ==
  /\ ~deadlock(p, dest) /\ Awaits(dest, p) /\ panic' = "no"
  /\ p_flags'[dest] = p_flags[dest] \ {RECEIVING}
  /\ \A x \in Proc \ {dest} : p_flags'[x] = p_flags[x] /\ p_recvfrom'[x] = p_recvfrom[x]
  /\ p_sendto' = p_sendto
  /\ mem'[dest] = Stamped(p, t) /\ mem'[p] = Stamped(p, t)
  /\ \A x \in Proc \ {p, dest} : mem'[x] = mem[x]

(* p is blocked with it.                                                   *)
Blocked(p, dest, t) ==
  /\ ~deadlock(p, dest) /\ ~Awaits(dest, p) /\ panic' = "no"
  /\ p_flags'[p] = {SENDING} /\ p_sendto'[p] = dest /\ mem'[p] = Stamped(p, t)
  /\ \A x \in Proc \ {p} :
        p_flags'[x] = p_flags[x] /\ p_sendto'[x] = p_sendto[x] /\ mem'[x] = mem[x]
  /\ p_recvfrom' = p_recvfrom

(* p has the message of from, which was blocked with it.                   *)
Taken(p, src, from) ==
  /\ from # p /\ src \in {from, ANY} /\ panic' = "no"
  /\ Sending(from) /\ p_sendto[from] = p
  /\ p_flags'[from] = p_flags[from] \ {SENDING}
  /\ \A x \in Proc \ {from} : p_flags'[x] = p_flags[x] /\ p_sendto'[x] = p_sendto[x]
  /\ p_recvfrom' = p_recvfrom
  /\ mem'[p] = mem[from] /\ \A x \in Proc \ {p} : mem'[x] = mem[x]

(* p is blocked until one comes.                                           *)
Waits(p, src) ==
  /\ panic' = "no"
  /\ \A x \in Proc : Sending(x) /\ p_sendto[x] = p => src \notin {x, ANY}
  /\ p_flags'[p] = {RECEIVING} /\ p_recvfrom'[p] = src /\ mem'[p].source = p
  /\ \A x \in Proc \ {p} :
        p_flags'[x] = p_flags[x] /\ p_recvfrom'[x] = p_recvfrom[x] /\ mem'[x] = mem[x]
  /\ p_sendto' = p_sendto

LEMMA QueuesUnchanged ==
  ASSUME QueueExact, q_sending' = q_sending, p_sendto' = p_sendto,
         \A x \in Proc : Sending(x)' <=> Sending(x)
  PROVE  QueueExact'
BY DEF QueueExact

LEMMA SendOutcome ==
  ASSUME FlagsOK, TableInv, NEW p \in Proc, NEW dest \in Proc, NEW t,
         SendStep(p, dest, t)
  PROVE  /\ CanCall(p) /\ p # dest /\ FlagsOK' /\ TableInv'
         /\ Circle(p, dest) \/ Delivered(p, dest, t) \/ Blocked(p, dest, t)
<1> USE DEF SENDING, RECEIVING, FlagsOK
<1>0. CanCall(p) /\ panic = "no" /\ p_flags[p] = {} /\ p # dest
  BY DEF SendStep, SendDeadlock, SendDeliver, SendBlock, CanCall
<1>1. "source" \in DOMAIN Stamped(p, t)
  BY DEF Stamped
<1>2. CASE SendDeadlock(p, dest, t)
  <2>1. TableInv'
    <3>1. QueueExact'
      BY <1>2, QueuesUnchanged DEF SendDeadlock, TableInv, Sending
    <3>2. DOMAIN mem' = Proc /\ \A x \in Proc : "source" \in DOMAIN mem'[x]
      BY <1>1, <1>2 DEF SendDeadlock, TableInv
    <3> QED
      BY <1>2, <3>1, <3>2 DEF SendDeadlock, TableInv
  <2> QED
    BY <1>0, <1>2, <2>1 DEF SendDeadlock, Circle
<1>3. CASE SendDeliver(p, dest, t)
  <2>1. /\ p_flags'[dest] = p_flags[dest] \ {RECEIVING}
        /\ \A x \in Proc \ {dest} : p_flags'[x] = p_flags[x]
        /\ FlagsOK'
    BY <1>3 DEF SendDeliver
  <2>2. TableInv'
    <3>1. QueueExact'
      BY <1>3, <2>1, QueuesUnchanged DEF SendDeliver, TableInv, Sending
    <3>2. DOMAIN mem' = Proc /\ \A x \in Proc : "source" \in DOMAIN mem'[x]
      BY <1>1, <1>3 DEF SendDeliver, TableInv
    <3> QED
      BY <1>3, <3>1, <3>2 DEF SendDeliver, TableInv
  <2>3. /\ mem'[dest] = Stamped(p, t) /\ mem'[p] = Stamped(p, t)
        /\ \A x \in Proc \ {p, dest} : mem'[x] = mem[x]
        /\ \A x \in Proc \ {dest} : p_recvfrom'[x] = p_recvfrom[x]
    BY <1>3 DEF SendDeliver, TableInv
  <2> QED
    BY <1>0, <1>3, <2>1, <2>2, <2>3 DEF SendDeliver, Delivered
<1>4. CASE SendBlock(p, dest, t)
  <2>1. /\ p_flags'[p] = {SENDING}
        /\ \A x \in Proc \ {p} : p_flags'[x] = p_flags[x]
        /\ FlagsOK'
    BY <1>0, <1>4 DEF SendBlock
  <2>2. /\ mem'[p] = Stamped(p, t) /\ p_sendto'[p] = dest
        /\ \A x \in Proc \ {p} : p_sendto'[x] = p_sendto[x] /\ mem'[x] = mem[x]
    BY <1>4 DEF SendBlock, TableInv
  <2>3. TableInv'
    <3>1. q_sending' = [q_sending EXCEPT ![dest] = Append(@, p)]
      BY <1>4 DEF SendBlock
    <3>2. ~Sending(p) /\ Sending(p)' /\ \A x \in Proc \ {p} : Sending(x)' <=> Sending(x)
      BY <1>0, <2>1 DEF Sending
    <3>3. QueueExact'
      BY <2>2, <3>1, <3>2, SenderJoins DEF TableInv
    <3>4. q_sending' \in [Proc -> Seq(Proc)]
      <4>1. q_sending[dest] \in Seq(Proc)
        BY DEF TableInv
      <4>2. Append(q_sending[dest], p) \in Seq(Proc)
        BY <4>1
      <4> QED
        BY <3>1, <4>2 DEF TableInv
    <3>5. DOMAIN mem' = Proc /\ \A x \in Proc : "source" \in DOMAIN mem'[x]
      BY <1>1, <1>4 DEF SendBlock, TableInv
    <3> QED
      BY <1>4, <3>3, <3>4, <3>5 DEF SendBlock, TableInv
  <2> QED
    BY <1>0, <1>4, <2>1, <2>2, <2>3 DEF SendBlock, Blocked
<1> QED
  BY <1>2, <1>3, <1>4 DEF SendStep

LEMMA ReceiveOutcome ==
  ASSUME FlagsOK, TableInv, NEW p \in Proc, NEW src \in Proc \cup {ANY},
         ReceiveStep(p, src)
  PROVE  /\ CanCall(p) /\ FlagsOK' /\ TableInv'
         /\ Waits(p, src) \/ \E from \in Proc : Taken(p, src, from)
<1> USE DEF SENDING, RECEIVING, FlagsOK
<1>0. CanCall(p) /\ panic = "no" /\ p_flags[p] = {}
  BY DEF ReceiveStep, ReceiveInterrupt, ReceiveFetch, ReceiveBlock, CanCall
<1>1. q_sending[p] \in Seq(Proc) /\ has_int_msg[p] = 0 /\ QueueExact
  BY DEF TableInv
<1>2. ASSUME ReceiveFetch(p, src) PROVE FlagsOK' /\ TableInv' /\ \E from \in Proc : Taken(p, src, from)
  <2>0. CopyOk(p, src)
    BY <1>2 DEF ReceiveFetch
  <2>1. PICK i \in 1..Len(q_sending[p]) :
           i = FetchIndex(p, src) /\ (src # ANY => q_sending[p][i] = src)
    <3>1. CASE src = ANY
      BY <1>1, <2>0, <3>1 DEF CopyOk, FetchIndex
    <3>2. CASE src # ANY
      <4>1. \E i \in 1..Len(q_sending[p]) : q_sending[p][i] = src
        BY <1>1, <2>0, <3>2 DEF CopyOk, QueueExact
      <4> QED
        BY <3>2, <4>1 DEF FetchIndex
    <3> QED
      BY <3>1, <3>2
  <2>2. PICK from \in Proc : from = q_sending[p][i]
    BY <1>1, ElementOfSeq
  <2>3. Sending(from) /\ p_sendto[from] = p
    BY <1>1, <2>2 DEF QueueExact
  <2>4. /\ q_sending' = [q_sending EXCEPT ![p] = Unlink(@, i)]
        /\ mem' = [mem EXCEPT ![p] = mem[from]]
        /\ p_msg' = [p_msg EXCEPT ![from] = 0]
        /\ p_sendto' = [p_sendto EXCEPT ![from] = NO_TASK]
        /\ p_flags' = [p_flags EXCEPT ![from] = @ \ {SENDING}]
        /\ UNCHANGED <<p_recvfrom, has_int_msg, panic>>
    BY <1>2, <2>1, <2>2 DEF ReceiveFetch
  <2>5. /\ p_flags'[from] = p_flags[from] \ {SENDING}
        /\ \A x \in Proc \ {from} : p_flags'[x] = p_flags[x]
        /\ FlagsOK'
    BY <2>4
  <2>6. /\ mem'[p] = mem[from] /\ \A x \in Proc \ {p} : mem'[x] = mem[x]
        /\ \A x \in Proc \ {from} : p_sendto'[x] = p_sendto[x]
    BY <2>4 DEF TableInv
  <2>7. from # p
    BY <1>0, <2>3 DEF Sending
  <2>8. TableInv'
    <3>1. ~Sending(from)' /\ \A x \in Proc \ {from} : Sending(x)' <=> Sending(x)
      BY <2>5 DEF Sending
    <3>2. QueueExact'
      BY <2>2, <2>3, <2>4, <2>6, <3>1, SenderLeaves DEF TableInv
    <3>3. Unlink(q_sending[p], i) \in Seq(Proc)
      BY <1>1, UnlinkProperties
    <3>4. q_sending' \in [Proc -> Seq(Proc)]
      BY <2>4, <3>3 DEF TableInv
    <3> QED
      BY <2>4, <3>2, <3>4 DEF TableInv
  <2>9. src \in {from, ANY}
    BY <2>1, <2>2
  <2> QED
    BY <1>0, <2>3, <2>4, <2>5, <2>6, <2>7, <2>8, <2>9 DEF Taken
<1>3. ASSUME ReceiveBlock(p, src) PROVE FlagsOK' /\ TableInv' /\ Waits(p, src)
  <2>1. /\ p_flags'[p] = {RECEIVING}
        /\ \A x \in Proc \ {p} : p_flags'[x] = p_flags[x]
        /\ FlagsOK'
    BY <1>0, <1>3 DEF ReceiveBlock
  <2>2. \A x \in Proc : Sending(x) /\ p_sendto[x] = p => src \notin {x, ANY}
    <3> SUFFICES ASSUME NEW x \in Proc, Sending(x), p_sendto[x] = p PROVE src \notin {x, ANY}
      OBVIOUS
    <3>1. ~CopyOk(p, src)
      BY <1>3 DEF ReceiveBlock
    <3>2. q_sending[p] # << >>
      <4>1. \E i \in 1..Len(q_sending[p]) : q_sending[p][i] = x
        BY <1>1 DEF QueueExact
      <4> QED
        BY <4>1
    <3> QED
      BY <3>1, <3>2, Numbers DEF CopyOk
  <2>3. /\ mem'[p].source = p /\ p_recvfrom'[p] = src
        /\ \A x \in Proc \ {p} : p_recvfrom'[x] = p_recvfrom[x] /\ mem'[x] = mem[x]
        /\ DOMAIN mem' = Proc /\ \A x \in Proc : "source" \in DOMAIN mem'[x]
    BY <1>3 DEF ReceiveBlock, TableInv
  <2>4. TableInv'
    <3>1. QueueExact'
      BY <1>3, <2>1, <1>0, QueuesUnchanged DEF ReceiveBlock, TableInv, Sending
    <3> QED
      BY <1>3, <2>3, <3>1 DEF ReceiveBlock, TableInv
  <2> QED
    BY <1>0, <1>3, <2>1, <2>2, <2>3, <2>4 DEF ReceiveBlock, Waits
<1>4. ~ReceiveInterrupt(p, src)
  BY <1>1 DEF ReceiveInterrupt, TakesInt
<1> QED
  BY <1>0, <1>2, <1>3, <1>4 DEF ReceiveStep

-----------------------------------------------------------------------------
(* What a step leaves alone.                                               *)

(* Nobody is born, dies, waits for a child or is reaped.                   *)
SameLives ==
  \A x \in Proc : \A f \in {WAITING, HANGING, FREE_SLOT} : f \in p_flags'[x] <=> f \in p_flags[x]

LEMMA SendKeepsLives ==
  ASSUME FlagsOK, NEW p \in Proc, NEW dest \in Proc, NEW t, CanCall(p),
         Circle(p, dest) \/ Delivered(p, dest, t) \/ Blocked(p, dest, t)
  PROVE  SameLives
<1> USE DEF SENDING, RECEIVING, WAITING, HANGING, FREE_SLOT
<1>1. CASE Circle(p, dest)
  BY <1>1 DEF Circle, SameLives
<1>2. CASE Delivered(p, dest, t)
  BY <1>2 DEF Delivered, SameLives
<1>3. CASE Blocked(p, dest, t)
  BY <1>3 DEF Blocked, CanCall, SameLives
<1> QED
  BY <1>1, <1>2, <1>3

LEMMA ReceiveKeepsLives ==
  ASSUME FlagsOK, NEW p \in Proc, NEW src, CanCall(p),
         Waits(p, src) \/ \E from \in Proc : Taken(p, src, from)
  PROVE  SameLives
<1> USE DEF SENDING, RECEIVING, WAITING, HANGING, FREE_SLOT
<1>1. CASE Waits(p, src)
  BY <1>1 DEF Waits, CanCall, SameLives
<1>2. ASSUME NEW from \in Proc, Taken(p, src, from)
      PROVE  SameLives
  BY <1>2 DEF Taken, SameLives
<1> QED
  BY <1>1, <1>2

LEMMA KinKept ==
  ASSUME KinInv, SameLives, p_parent' = p_parent,
         mm.at = "reparent" => mm'.at = "reparent" /\ mm'.src = mm.src
  PROVE  KinInv'
<1>1. \A x \in Proc : (Used(x)' <=> Used(x)) /\ (Living(x)' <=> Living(x))
  BY DEF SameLives, Used, Living
<1>2. \A x \in Proc : (WAITING \in p_flags'[x] <=> WAITING \in p_flags[x])
                      /\ (HANGING \in p_flags'[x] <=> HANGING \in p_flags[x])
  BY DEF SameLives
<1>3. ASSUME NEW s \in Slot, Used(s)'
      PROVE  /\ p_parent'[s] \in User
             /\ Living(p_parent[s])' \/ (mm'.at = "reparent" /\ p_parent'[s] = mm'.src)
  BY <1>1, <1>3, Numbers DEF KinInv
<1>4. ASSUME NEW p \in User, WAITING \in p_flags'[p]
      PROVE  Hanging(Children(p))' = {}
  <2>1. Hanging(Children(p))' = Hanging(Children(p))
    BY <1>2 DEF Hanging, Children
  <2> QED
    BY <1>2, <1>4, <2>1, Numbers DEF KinInv
<1> QED
  BY <1>3, <1>4 DEF KinInv

SameUser(u) ==
  /\ p_flags'[u] = p_flags[u] /\ p_recvfrom'[u] = p_recvfrom[u]
  /\ p_sendto'[u] = p_sendto[u] /\ mem'[u] = mem[u] /\ pc'[u] = pc[u]

LEMMA UserKept ==
  ASSUME NEW u, UserInv(u), SameUser(u)
  PROVE  UserInv(u)'
BY DEF UserInv, SameUser, Sending, IsRequest, Running

(* A zombie's slot is not free, nor is one whose owner runs or waits for MM.*)
LEMMA LifeOf ==
  ASSUME NEW u, UserInv(u)
  PROVE  /\ HANGING \in p_flags[u] => u \in Slot /\ Used(u) /\ ~Living(u) /\ ~Sending(u)
         /\ \A op : Pending(u, op) => Living(u) /\ ~Sending(u)
         /\ WAITING \in p_flags[u] => Living(u) /\ pc[u].op = "WAIT" /\ ~Sending(u)
         /\ SENDING \in p_flags[u] => p_flags[u] = {SENDING} /\ pc[u].at = "sent"
         /\ FREE_SLOT \in p_flags[u] => u \in Slot /\ p_flags[u] = {FREE_SLOT}
BY DEF UserInv, Pending, Used, Living, Sending, SENDING, RECEIVING, WAITING, HANGING, FREE_SLOT

SameMm ==
  /\ p_flags'[MM] = p_flags[MM] /\ p_recvfrom'[MM] = p_recvfrom[MM]
  /\ p_sendto'[MM] = p_sendto[MM] /\ mem'[MM] = mem[MM]

(* A step of a user process or of FS disturbs no handler of MM, if those   *)
(* whose requests are in hand wait for the answer as before.               *)
Undisturbed ==
  /\ mm' = mm /\ UNCHANGED lifecycle /\ SameLives
  /\ mm.at \notin Asking \cup Answered => SameMm
  /\ \A x \in User : \A op : Pending(x, op) => Pending(x, op)'
  /\ \A x \in User : MmSendsTo(x) => p_flags'[x] = p_flags[x] /\ pc'[x] = pc[x]
  /\ \A x \in User : Restarted(x) => Restarted(x)'

LEMMA HandlersUndisturbed ==
  ASSUME \A u \in User : UserInv(u), HandlerInv, KinInv, Undisturbed
  PROVE  HandlerInv'
<1> USE DEF Undisturbed, HandlerInv, lifecycle, Asking, Answered
<1>1. /\ \A x \in Proc : (Used(x)' <=> Used(x)) /\ (Living(x)' <=> Living(x))
      /\ \A x \in Proc : HANGING \in p_flags'[x] <=> HANGING \in p_flags[x]
      /\ \A x \in Proc : FREE_SLOT \in p_flags'[x] <=> FREE_SLOT \in p_flags[x]
  BY DEF SameLives, Used, Living
<1>2. SameMm => (MmFree' <=> MmFree) /\ \A x \in User : MmSendsTo(x)' <=> MmSendsTo(x)
  BY DEF SameMm, MmFree, MmSendsTo
<1>3. \A x \in User : MmSendsTo(x) =>
         /\ \A op : Reachable(x, op)' <=> Reachable(x, op)
         /\ Replaced(x)' <=> Replaced(x)
  BY DEF Reachable, Replaced, Running
<1>4. LoopInv'
  <2> SUFFICES ASSUME mm.at = "loop", ~MmFree'
               PROVE  \E u \in User : MmSendsTo(u)' /\ ReplyInv(u)'
    BY DEF LoopInv
  <2>1. SameMm
    OBVIOUS
  <2>2. PICK u \in User : MmSendsTo(u) /\ ReplyInv(u)
    BY <1>2, <2>1 DEF LoopInv
  <2>3. ReplyInv(u)'
    BY <1>1, <1>3, <2>1, <2>2, Numbers DEF ReplyInv, SameMm
  <2> QED
    BY <1>2, <2>1, <2>2, <2>3
<1>5. DispatchInv'
  <2> SUFFICES ASSUME mm.at = "dispatch"
               PROVE  \/ p_flags'[MM] = {RECEIVING} /\ p_recvfrom'[MM] = ANY
                      \/ MmFree' /\ mem'[MM].source \in User
                           /\ IsRequest(mem[MM].source, mem[MM].type)'
                           /\ Pending(mem[MM].source, mem[MM].type.op)'
    BY DEF DispatchInv, Caller
  <2>1. SameMm
    OBVIOUS
  <2>2. CASE p_flags[MM] = {RECEIVING} /\ p_recvfrom[MM] = ANY
    BY <2>1, <2>2 DEF SameMm
  <2>3. CASE MmFree /\ Caller \in User /\ IsRequest(Caller, mem[MM].type)
              /\ Pending(Caller, mem[MM].type.op)
    <3>1. Pending(Caller, mem[MM].type.op)'
      BY <2>1, <2>3 DEF SameMm, Caller, Pending
    <3>2. pc'[Caller].op = pc[Caller].op
      BY <2>1, <2>3, <3>1 DEF SameMm, Caller, Pending
    <3> QED
      BY <1>2, <2>1, <2>3, <3>1, <3>2 DEF SameMm, Caller, IsRequest
  <2> QED
    BY <2>2, <2>3 DEF DispatchInv
<1>6. Born => Born'
  BY <1>1, Numbers DEF Born
<1>7. ForkInv'
  BY <1>2, <1>6, Numbers DEF ForkInv, Born
<1>8. MmReplyInv'
  <2> SUFFICES ASSUME mm.at = "reply", SameMm PROVE MmReplyInv'
    BY DEF MmReplyInv
  <2>1. mm.src \in User
    BY DEF MmReplyInv
  <2>2. CASE MmFree /\ mm.val = -1 /\ (Pending(mm.src, "FORK") \/ Pending(mm.src, "EXEC"))
    BY <1>2, <2>1, <2>2 DEF MmReplyInv
  <2>3. CASE MmFree /\ mm.who = 0 /\ mm.val = 0 /\ Restarted(mm.src)
    BY <1>2, <2>1, <2>3 DEF MmReplyInv
  <2>4. CASE Born /\ MmFree
    BY <1>2, <1>6, <2>1, <2>4 DEF MmReplyInv
  <2>5. CASE /\ Born /\ MmSendsTo(mm.who) /\ Reachable(mm.who, "FORK")
             /\ mem[MM].type.pid = 0 /\ mem[MM].type.val = 0
    <3>1. mm.who \in User
      BY <2>5, Numbers DEF Born
    <3>2. MmSendsTo(mm.who)' /\ Reachable(mm.who, "FORK")'
      BY <1>2, <1>3, <2>5, <3>1
    <3> QED
      BY <1>6, <2>1, <2>5, <3>2 DEF MmReplyInv, SameMm
  <2> QED
    BY <2>2, <2>3, <2>4, <2>5 DEF MmReplyInv
<1>9. ExitInv'
  BY <1>1, <1>2, Numbers DEF ExitInv
<1>10. CleanupInv'
  <2> SUFFICES ASSUME mm.at \in {"cleanup", "free"} PROVE CleanupInv'
    BY DEF CleanupInv
  <2> DEFINE parent == p_parent[mm.who]
  <2>1. /\ mm.who \in Slot /\ parent # mm.who /\ SameMm
        /\ \/ mm.src = mm.who /\ Pending(mm.who, "EXIT")
           \/ mm.src = 0 /\ HANGING \in p_flags[mm.who]
    BY DEF CleanupInv
  <2>2. \/ mm.src = mm.who /\ Pending(mm.who, "EXIT")'
        \/ mm.src = 0 /\ HANGING \in p_flags'[mm.who]
    BY <1>1, <2>1, Numbers
  <2>3. parent \in User
    <3>1. Used(mm.who)
      BY <2>1, LifeOf, Numbers DEF Pending, Used, RECEIVING, FREE_SLOT
    <3> QED
      BY <2>1, <3>1 DEF KinInv
  <2>4. ASSUME mm.at = "cleanup" PROVE MmFree' /\ Pending(parent, "WAIT")'
    BY <1>2, <2>1, <2>3, <2>4 DEF CleanupInv
  <2>5. ASSUME mm.at = "free", ~MmFree'
        PROVE  /\ MmSendsTo(parent)' /\ Reachable(parent, "WAIT")'
               /\ mem'[MM].type = Ret(mm.who, exit_status[mm.who])
    <3>1. MmSendsTo(parent) /\ Reachable(parent, "WAIT") /\ mem[MM].type = Ret(mm.who, exit_status[mm.who])
      BY <1>2, <2>1, <2>5 DEF CleanupInv
    <3> QED
      BY <1>2, <1>3, <2>1, <2>3, <3>1 DEF SameMm
  <2> QED
    BY <2>1, <2>2, <2>4, <2>5 DEF CleanupInv, Ret
<1>11. ExecInv'
  BY <1>2 DEF ExecInv
<1> QED
  BY <1>4, <1>5, <1>7, <1>8, <1>9, <1>10, <1>11

-----------------------------------------------------------------------------
(* The steps of the user processes.                                        *)

Up == panic = "no" /\ MmTypeOK /\ TableInv /\ KinInv /\ TalkInv

(* What MM may be blocked in.                                              *)
MmReceiving ==
  /\ p_flags[MM] = {RECEIVING}
  /\ \/ mm.at = "dispatch" /\ p_recvfrom[MM] = ANY
     \/ mm.at \in Answered /\ p_recvfrom[MM] = FS /\ (FsServes \/ FsIdle)
MmAsksFs == MmSendsTo(FS) /\ mm.at \in Asking /\ fs = "loop" /\ p_flags[FS] = {}
MmAnswers(x) ==
  /\ MmSendsTo(x) /\ p_flags[x] = {}
  /\ \/ mm.at = "loop" /\ ReplyInv(x)
     \/ mm.at = "reply" /\ Born /\ x = mm.who /\ Reachable(x, "FORK")
     \/ mm.at = "free" /\ x = p_parent[mm.who] /\ Reachable(x, "WAIT")

LEMMA MmBlocked ==
  ASSUME Up
  PROVE  MmFree \/ MmReceiving \/ MmAsksFs \/ \E x \in User : MmAnswers(x)
<1> USE DEF Up, TalkInv
<1>0. mm.at \in MmAt
  BY DEF MmTypeOK
<1>1. CASE mm.at = "loop"
  <2>1. CASE MmFree
    BY <2>1
  <2>2. ASSUME NEW x \in User, MmSendsTo(x), ReplyInv(x) PROVE MmAnswers(x)
    BY <1>1, <2>2 DEF MmAnswers, ReplyInv, Reachable, Replaced
  <2> QED
    BY <1>1, <2>1, <2>2 DEF HandlerInv, LoopInv
<1>2. CASE mm.at = "dispatch"
  BY <1>2 DEF HandlerInv, DispatchInv, MmReceiving
<1>3. CASE mm.at \in Asking
  BY <1>3 DEF FsInv, MmAsksFs
<1>4. CASE mm.at \in Answered
  BY <1>4 DEF FsInv, MmReceiving
<1>5. CASE mm.at = "reply"
  <2>1. ASSUME Born, MmSendsTo(mm.who), Reachable(mm.who, "FORK")
        PROVE  MmAnswers(mm.who) /\ mm.who \in User
    BY <1>5, <2>1, Numbers DEF MmAnswers, Reachable, Born
  <2> QED
    BY <1>5, <2>1 DEF HandlerInv, MmReplyInv
<1>6. CASE mm.at = "free"
  <2>1. ASSUME MmSendsTo(p_parent[mm.who]), Reachable(p_parent[mm.who], "WAIT")
        PROVE  MmAnswers(p_parent[mm.who]) /\ p_parent[mm.who] \in User
    <3>1. mm.who \in Slot /\ Used(mm.who)
      BY <1>6, LifeOf, Numbers DEF HandlerInv, CleanupInv, Living
    <3>2. p_parent[mm.who] \in User
      BY <3>1 DEF KinInv
    <3> QED
      BY <1>6, <2>1, <3>2 DEF MmAnswers, Reachable
  <2> QED
    BY <1>6, <2>1 DEF HandlerInv, CleanupInv
<1>7. CASE mm.at \in {"image", "forkfs", "exitfs", "statfs", "program", "reparent", "cleanup"}
  BY <1>7 DEF HandlerInv, ForkInv, ExitInv, ExecInv, CleanupInv
<1> QED
  BY <1>0, <1>1, <1>2, <1>3, <1>4, <1>5, <1>6, <1>7 DEF MmAt, Asking, Answered

LEMMA UpIsMmInv ==
  ASSUME panic' = "no", MmTypeOK', TableInv', KinInv', TalkInv'
  PROVE  MmInv'
BY DEF MmInv, OnlyExecDeadlocks

LEMMA UserSendKeeps ==
  ASSUME Up, NEW u \in User, NEW op \in Op \cup {"FORK", "WAIT"}, NEW st \in Status \cup {0},
         UserSend(u, op, st)
  PROVE  MmInv'
<1> USE DEF Up
<1> DEFINE m == Request(op, st)
<1>0. /\ pc[u].at = "run" /\ MayAsk(u, op) /\ st \in (IF op = "EXIT" THEN Status ELSE {0})
      /\ SendStep(u, MM, m)
      /\ pc' = [pc EXCEPT ![u] = [at |-> "sent", op |-> op]]
      /\ forks' = IF u = INIT /\ op = "FORK" THEN forks + 1 ELSE forks
      /\ UNCHANGED <<lifecycle, mm, fs>>
  BY DEF UserSend
<1>1. u \in Proc /\ MM \in Proc /\ FS \in Proc /\ u # FS /\ u # MM /\ FS # MM
  BY Numbers
<1>2. FlagsOK /\ pc \in [User -> [at : {"run", "sent", "wait", "spin"},
                                  op : {"FORK", "EXIT", "WAIT", "EXEC", "none"}]]
  BY DEF MmTypeOK, FlagsOK
<1>3. /\ CanCall(u) /\ FlagsOK' /\ TableInv'
      /\ Circle(u, MM) \/ Delivered(u, MM, m) \/ Blocked(u, MM, m)
  BY <1>0, <1>1, <1>2, SendOutcome
<1>4. SameLives
  BY <1>1, <1>2, <1>3, SendKeepsLives
<1>5. KinInv'
  BY <1>0, <1>4, KinKept DEF lifecycle
<1>6. op \in {"FORK", "EXIT", "WAIT", "EXEC"} /\ (op = "EXIT" => u \in Slot)
  <2>1. op \in {"FORK", "EXIT", "WAIT", "EXEC"}
    BY MmAssumption
  <2> QED
    BY <1>0, <2>1 DEF MayAsk, User
<1>7. MmTypeOK'
  <2>1. pc' \in [User -> [at : {"run", "sent", "wait", "spin"},
                          op : {"FORK", "EXIT", "WAIT", "EXEC", "none"}]]
    BY <1>0, <1>2, <1>6
  <2>2. forks' \in 0..InitForks
    BY <1>0, MmAssumption DEF MayAsk, MmTypeOK
  <2>3. panic' \in {"no", "DEADLOCK", "NOMEM", "TORN"}
    BY <1>3 DEF Circle, Delivered, Blocked
  <2> QED
    BY <1>0, <1>3, <2>1, <2>2, <2>3 DEF MmTypeOK, lifecycle, FlagsOK
<1>8. /\ p_flags[u] = {} /\ pc[u] = Running
      /\ pc'[u] = [at |-> "sent", op |-> op] /\ \A x \in User \ {u} : pc'[x] = pc[x]
      /\ \A o : ~Pending(u, o)
      /\ mm' = mm /\ fs' = fs
  BY <1>0, <1>2, <1>3 DEF CanCall, TalkInv, UserInv, Pending, HANGING, RECEIVING, WAITING, FREE_SLOT, SENDING
<1> USE DEF SENDING, RECEIVING
<1>9. CASE Circle(u, MM)
  <2>1. Sending(MM)
    BY <1>1, <1>9, NotSending DEF Circle
  <2>2. PICK x \in User : MmAnswers(x)
    <3>1. ~MmFree /\ ~MmReceiving
      BY <2>1 DEF MmFree, MmReceiving, Sending
    <3>2. ASSUME MmAsksFs PROVE FALSE
      BY <1>1, <1>9, <3>2, SendingElsewhere DEF MmAsksFs, MmSendsTo, Circle, Sending
    <3> QED
      BY <3>1, <3>2, MmBlocked
  <2>3. x = u
    BY <1>1, <1>9, <2>2, SendingElsewhere, Numbers DEF MmAnswers, MmSendsTo, Circle, Sending
  <2>4. mm.at = "loop" /\ Replaced(u) /\ mm.src = u /\ mm.who = 0 /\ mm.val = 0
    BY <1>0, <2>2, <2>3 DEF MmAnswers, ReplyInv, Reachable
  <2>5. OnlyExecDeadlocks'
    BY <1>8, <1>9, <2>1, <2>2, <2>3, <2>4 DEF OnlyExecDeadlocks, Circle, Sending, MmAnswers, MmSendsTo
  <2> QED
    BY <1>3, <1>5, <1>7, <1>9, <2>5 DEF MmInv, Circle
<1>a. IsRequest(u, m)' /\ m = m'
  BY <1>0, <1>6, <1>8 DEF IsRequest, Request
<1>10. CASE Delivered(u, MM, m)
  <2>1. mm.at = "dispatch" /\ p_flags[MM] = {RECEIVING}
    BY <1>1, <1>10, MmBlocked, Numbers
       DEF Delivered, Awaits, MmFree, MmReceiving, MmAsksFs, MmAnswers, MmSendsTo
  <2>2. /\ p_flags'[MM] = {} /\ p_flags'[u] = {} /\ p_flags'[FS] = p_flags[FS]
        /\ mem'[MM] = Stamped(u, m) /\ mem'[u] = Stamped(u, m)
        /\ p_recvfrom'[FS] = p_recvfrom[FS] /\ p_sendto' = p_sendto
    BY <1>1, <1>8, <1>10, <2>1 DEF Delivered
  <2>3. ASSUME NEW x \in User PROVE UserInv(x)'
    <3>1. CASE x = u
      BY <1>6, <1>8, <2>2, <3>1, Numbers DEF UserInv, Stamped, Sending
    <3>2. CASE x # u
      BY <1>8, <1>10, <3>2, UserKept, Numbers DEF Delivered, SameUser, TalkInv
    <3> QED
      BY <3>1, <3>2
  <2>4. FsInv'
    BY <1>8, <2>1, <2>2 DEF TalkInv, FsInv, FsIdle, Asking, Answered
  <2>5. DispatchInv'
    BY <1>8, <1>a, <2>2 DEF DispatchInv, MmFree, Caller, Pending, Stamped, Request
  <2>6. HandlerInv'
    BY <1>8, <2>1, <2>5 DEF HandlerInv, LoopInv, ForkInv, MmReplyInv, ExitInv, CleanupInv, ExecInv
  <2> QED
    BY <1>3, <1>5, <1>7, <1>10, <2>3, <2>4, <2>6, UpIsMmInv DEF Delivered, TalkInv
<1>11. CASE Blocked(u, MM, m)
  <2>1. /\ p_flags'[u] = {SENDING} /\ p_sendto'[u] = MM /\ mem'[u] = Stamped(u, m)
        /\ p_recvfrom' = p_recvfrom /\ SameMm
        /\ p_flags'[FS] = p_flags[FS] /\ p_sendto'[FS] = p_sendto[FS] /\ mem'[FS] = mem[FS]
    BY <1>1, <1>11 DEF Blocked, SameMm
  <2>2. ASSUME NEW x \in User, x # u PROVE SameUser(x)
    BY <1>8, <1>11, <2>2, Numbers DEF Blocked, SameUser
  <2>3. ASSUME NEW x \in User PROVE UserInv(x)'
    <3>1. CASE x = u
      BY <1>6, <1>8, <1>a, <2>1, <3>1, Numbers DEF UserInv, Stamped, Sending
    <3>2. CASE x # u
      BY <2>2, <3>2, UserKept DEF TalkInv
    <3> QED
      BY <3>1, <3>2
  <2>4. FsInv'
    BY <1>8, <2>1
       DEF TalkInv, FsInv, FsIdle, FsServes, FsAnswers, MmFree, MmSendsTo, SameMm
  <2>5. Undisturbed
    <3>1. \A x \in User : \A o : Pending(x, o) => Pending(x, o)'
      BY <1>8, <2>2 DEF Pending, SameUser
    <3>2. ~MmSendsTo(u)
      BY <1>1, <1>11, SendingToEachOther DEF Blocked, MmSendsTo, Sending
    <3>3. \A x \in User : Restarted(x) => Restarted(x)'
      BY <2>1, <2>2 DEF Restarted, SameUser, Running
    <3> QED
      BY <1>0, <1>4, <2>1, <2>2, <3>1, <3>2, <3>3 DEF Undisturbed, SameUser
  <2> QED
    BY <1>3, <1>5, <1>7, <1>11, <2>3, <2>4, <2>5, UpIsMmInv, HandlersUndisturbed DEF Blocked, TalkInv
<1> QED
  BY <1>3, <1>9, <1>10, <1>11

LEMMA UserReceiveKeeps ==
  ASSUME Up, NEW u \in User, UserReceive(u)
  PROVE  MmInv'
<1> USE DEF Up, SENDING, RECEIVING
<1>0. /\ pc[u].at = "sent" /\ ReceiveStep(u, MM)
      /\ pc' = [pc EXCEPT ![u].at = "wait"]
      /\ UNCHANGED <<lifecycle, forks, mm, fs>>
  BY DEF UserReceive
<1>1. u \in Proc /\ MM \in Proc /\ FS \in Proc /\ u # FS /\ u # MM /\ FS # MM /\ MM # ANY
  BY Numbers
<1>2. FlagsOK /\ pc \in [User -> [at : {"run", "sent", "wait", "spin"},
                                  op : {"FORK", "EXIT", "WAIT", "EXEC", "none"}]]
  BY DEF MmTypeOK, FlagsOK
<1>3. /\ CanCall(u) /\ FlagsOK' /\ TableInv'
      /\ Waits(u, MM) \/ \E from \in Proc : Taken(u, MM, from)
  BY <1>0, <1>1, <1>2, ReceiveOutcome
<1>4. SameLives
  BY <1>1, <1>2, <1>3, ReceiveKeepsLives
<1>5. KinInv'
  BY <1>0, <1>4, KinKept DEF lifecycle
<1>6. /\ p_flags[u] = {} /\ pc[u].op # "none"
      /\ pc'[u] = [at |-> "wait", op |-> pc[u].op] /\ \A x \in User \ {u} : pc'[x] = pc[x]
      /\ mm' = mm /\ fs' = fs /\ UNCHANGED lifecycle
  <2>1. p_flags[u] = {}
    BY <1>3 DEF CanCall
  <2> QED
    BY <1>0, <1>2, <2>1 DEF TalkInv, UserInv, HANGING, WAITING, FREE_SLOT, Running
<1>7. MmTypeOK'
  <2>1. pc' \in [User -> [at : {"run", "sent", "wait", "spin"},
                          op : {"FORK", "EXIT", "WAIT", "EXEC", "none"}]]
    BY <1>0, <1>2
  <2>2. panic' = "no"
    BY <1>3 DEF Waits, Taken
  <2> QED
    BY <1>0, <1>3, <2>1, <2>2 DEF MmTypeOK, lifecycle, FlagsOK
<1>8. CASE Waits(u, MM)
  <2>1. /\ p_flags'[u] = {RECEIVING} /\ p_recvfrom'[u] = MM /\ mem'[u].source = u
        /\ p_sendto' = p_sendto /\ SameMm
        /\ p_flags'[FS] = p_flags[FS] /\ p_recvfrom'[FS] = p_recvfrom[FS] /\ mem'[FS] = mem[FS]
    BY <1>1, <1>8 DEF Waits, SameMm
  <2>2. ASSUME NEW x \in User, x # u PROVE SameUser(x)
    BY <1>6, <1>8, <2>2, Numbers DEF Waits, SameUser
  <2>3. ASSUME NEW x \in User PROVE UserInv(x)'
    <3>1. CASE x = u
      BY <1>1, <1>6, <2>1, <3>1 DEF UserInv, Sending
    <3>2. CASE x # u
      BY <2>2, <3>2, UserKept DEF TalkInv
    <3> QED
      BY <3>1, <3>2
  <2>4. FsInv'
    BY <1>6, <2>1
       DEF TalkInv, FsInv, FsIdle, FsServes, FsAnswers, MmFree, MmSendsTo, SameMm
  <2>5. Undisturbed
    <3>1. \A x \in User : \A o : Pending(x, o) => Pending(x, o)'
      BY <1>6, <2>1, <2>2 DEF Pending, SameUser
    <3>2. ~MmSendsTo(u)
      BY <1>1, <1>8 DEF Waits, MmSendsTo, Sending
    <3>3. \A x \in User : Restarted(x) => Restarted(x)'
      BY <1>0, <1>6, <2>1, <2>2 DEF Restarted, SameUser, Running
    <3> QED
      BY <1>4, <1>6, <2>1, <2>2, <3>1, <3>2, <3>3 DEF Undisturbed, SameUser
  <2> QED
    BY <1>3, <1>5, <1>7, <1>8, <2>3, <2>4, <2>5, UpIsMmInv, HandlersUndisturbed DEF Waits, TalkInv
<1>9. ASSUME Taken(u, MM, MM) PROVE MmInv'
  <2>1. MmAnswers(u)
    BY <1>1, <1>9, MmBlocked, Numbers
       DEF Taken, MmFree, MmReceiving, MmAsksFs, MmAnswers, MmSendsTo, Sending
  <2>2. /\ p_flags'[MM] = {} /\ p_flags'[u] = {} /\ mem'[u] = mem[MM] /\ mem[MM].source = MM
        /\ p_flags'[FS] = p_flags[FS] /\ p_recvfrom' = p_recvfrom /\ mem'[FS] = mem[FS]
        /\ p_sendto'[FS] = p_sendto[FS]
    BY <1>1, <1>6, <1>9, <2>1 DEF Taken, MmAnswers, MmSendsTo
  <2>3. ASSUME NEW x \in User, x # u PROVE SameUser(x)
    BY <1>6, <1>9, <2>3, Numbers DEF Taken, SameUser
  <2>4. ASSUME NEW x \in User PROVE UserInv(x)'
    <3>1. CASE x = u
      BY <1>1, <1>6, <2>2, <3>1 DEF UserInv, Sending
    <3>2. CASE x # u
      BY <2>3, <3>2, UserKept DEF TalkInv
    <3> QED
      BY <3>1, <3>2
  <2>5. mm.at \in {"loop", "reply", "free"}
    BY <2>1 DEF MmAnswers
  <2>6. FsInv'
    BY <1>6, <2>2, <2>5 DEF TalkInv, FsInv, FsIdle, Asking, Answered
  <2>7. \A x \in User \ {u} : \A o : Pending(x, o) => Pending(x, o)'
    BY <2>3 DEF SameUser, Pending
  <2>8. \A x \in Proc : (Living(x)' <=> Living(x)) /\ (HANGING \in p_flags[x] => HANGING \in p_flags'[x])
    BY <1>4 DEF SameLives, Living, Used
  <2>9. LoopInv' /\ MmReplyInv' /\ CleanupInv'
    <3>1. CASE mm.at = "loop"
      BY <1>6, <2>2, <3>1 DEF LoopInv, MmReplyInv, CleanupInv, MmFree
    <3>2. CASE mm.at = "reply"
      <4>1. Born /\ u = mm.who
        BY <2>1, <3>2 DEF MmAnswers
      <4>2. Born' /\ MmFree'
        BY <1>6, <2>2, <2>7, <2>8, <4>1, Numbers DEF Born, MmFree, lifecycle
      <4> QED
        BY <1>6, <3>2, <4>2 DEF LoopInv, MmReplyInv, CleanupInv, Born
    <3>3. CASE mm.at = "free"
      <4>1. u = p_parent[mm.who] /\ mm.who \in Slot /\ p_parent[mm.who] # mm.who
        BY <2>1, <3>3 DEF MmAnswers, TalkInv, HandlerInv, CleanupInv
      <4>2. \/ mm.src = mm.who /\ Pending(mm.who, "EXIT")
            \/ mm.src = 0 /\ HANGING \in p_flags[mm.who]
        BY <3>3 DEF TalkInv, HandlerInv, CleanupInv
      <4>3. \/ mm.src = mm.who /\ Pending(mm.who, "EXIT")'
            \/ mm.src = 0 /\ HANGING \in p_flags'[mm.who]
        BY <1>6, <2>7, <2>8, <4>1, <4>2, Numbers
      <4> QED
        BY <1>6, <2>2, <3>3, <4>1, <4>3 DEF LoopInv, MmReplyInv, CleanupInv, MmFree, lifecycle
    <3> QED
      BY <2>5, <3>1, <3>2, <3>3
  <2>10. HandlerInv'
    BY <1>6, <2>5, <2>9 DEF HandlerInv, DispatchInv, ForkInv, ExitInv, ExecInv
  <2> QED
    BY <1>3, <1>5, <1>7, <1>9, <2>4, <2>6, <2>10, UpIsMmInv DEF Taken, TalkInv
<1> QED
  BY <1>1, <1>3, <1>8, <1>9 DEF Taken

LEMMA UserReturnKeeps ==
  ASSUME Up, NEW u \in User, UserReturn(u)
  PROVE  MmInv'
<1> USE DEF Up, SENDING, RECEIVING
<1>1. /\ pc[u].at = "wait" /\ p_flags[u] = {} /\ panic = "no"
      /\ pc'[u] \in {Running, [at |-> "spin", op |-> "FORK"]}
      /\ pc' \in [User -> [at : {"run", "sent", "wait", "spin"},
                           op : {"FORK", "EXIT", "WAIT", "EXEC", "none"}]]
      /\ \A x \in User \ {u} : pc'[x] = pc[x]
  BY DEF UserReturn, CanCall, MmTypeOK, Running
<1>2. UNCHANGED <<p_flags, p_recvfrom, p_sendto, p_msg, q_sending, has_int_msg, mem, panic,
                  p_parent, exit_status, forks, mm, fs>>
  BY DEF UserReturn, lifecycle
<1>3. TableInv' /\ SameLives
  <2>1. QueueExact'
    BY <1>2, QueuesUnchanged DEF TableInv, Sending
  <2> QED
    BY <1>2, <2>1 DEF TableInv, SameLives
<1>4. KinInv'
  BY <1>2, <1>3, KinKept
<1>5. MmTypeOK'
  BY <1>1, <1>2 DEF MmTypeOK
<1>6. ASSUME NEW x \in User PROVE UserInv(x)'
  <2>1. CASE x = u
    BY <1>1, <1>2, <2>1 DEF UserInv, Sending, Running
  <2>2. CASE x # u
    BY <1>1, <1>2, <2>2, UserKept DEF TalkInv, SameUser
  <2> QED
    BY <2>1, <2>2
<1>7. FsInv'
  BY <1>2 DEF TalkInv, FsInv, FsIdle, FsServes, FsAnswers, MmFree, MmSendsTo
<1>8. Undisturbed
  <2>1. \A x \in User : \A o : Pending(x, o) => Pending(x, o)'
    BY <1>1, <1>2 DEF Pending
  <2>2. ~MmSendsTo(u)
    <3> SUFFICES ASSUME MmSendsTo(u) PROVE FALSE
      OBVIOUS
    <3>1. PICK x \in User : MmAnswers(x)
      BY MmBlocked, Numbers DEF MmSendsTo, MmFree, MmReceiving, MmAsksFs
    <3>2. x = u
      BY <3>1 DEF MmAnswers, MmSendsTo
    <3> QED
      BY <1>1, <3>1, <3>2 DEF MmAnswers, ReplyInv, Reachable, Replaced, Running
  <2>3. \A x \in User : Restarted(x) => Restarted(x)'
    BY <1>1, <1>2 DEF Restarted, Running
  <2> QED
    BY <1>1, <1>2, <1>3, <2>1, <2>2, <2>3 DEF Undisturbed, SameMm, MmSendsTo, lifecycle
<1> QED
  BY <1>1, <1>2, <1>3, <1>4, <1>5, <1>6, <1>7, <1>8, UpIsMmInv, HandlersUndisturbed DEF TalkInv

-----------------------------------------------------------------------------
(* The steps of FS.                                                        *)

(* A step that changes nothing of the user processes and only FS' part of  *)
(* a conversation of MM with it.                                           *)
LEMMA FsStepKeeps ==
  ASSUME Up, \A u \in User : SameUser(u), SameLives, FsInv', FlagsOK', TableInv', panic' = "no",
         mm.at \notin Asking \cup Answered => SameMm,
         fs' \in {"loop", "serve"}, UNCHANGED <<p_parent, exit_status, pc, forks, mm>>
  PROVE  MmInv'
<1> USE DEF Up
<1>1. KinInv'
  BY KinKept
<1>2. MmTypeOK'
  BY DEF MmTypeOK, FlagsOK
<1>3. \A u \in User : UserInv(u)'
  BY UserKept DEF TalkInv
<1>4. Undisturbed
  <2>1. \A x \in User : \A o : Pending(x, o) => Pending(x, o)'
    BY DEF Pending, SameUser
  <2>2. \A x \in User : Restarted(x) => Restarted(x)'
    BY DEF Restarted, SameUser, Running
  <2> QED
    BY <2>1, <2>2 DEF Undisturbed, SameUser, lifecycle
<1>5. HandlerInv'
  BY <1>4, HandlersUndisturbed DEF TalkInv
<1> QED
  BY <1>1, <1>2, <1>3, <1>5, UpIsMmInv DEF TalkInv

LEMMA FsReceiveKeeps ==
  ASSUME Up, FsReceive
  PROVE  MmInv'
<1> USE DEF SENDING, RECEIVING
<1>0. /\ fs = "loop" /\ ReceiveStep(FS, ANY) /\ fs' = "serve"
      /\ UNCHANGED <<p_parent, exit_status, pc, forks, mm>>
  BY DEF FsReceive, lifecycle
<1>1. MM \in Proc /\ FS \in Proc /\ FS # MM /\ \A x \in User : x \in Proc /\ x # FS /\ x # MM
  BY Numbers
<1>2. FlagsOK /\ TableInv /\ panic = "no" /\ FsInv /\ \A u \in User : UserInv(u)
  BY DEF Up, MmTypeOK, FlagsOK, TalkInv
<1>3. /\ CanCall(FS) /\ FlagsOK' /\ TableInv'
      /\ Waits(FS, ANY) \/ \E from \in Proc : Taken(FS, ANY, from)
  BY <1>0, <1>1, <1>2, ReceiveOutcome
<1>4. SameLives /\ p_flags[FS] = {}
  BY <1>1, <1>2, <1>3, ReceiveKeepsLives DEF CanCall
<1>5. CASE Waits(FS, ANY)
  <2>1. \A u \in User : SameUser(u)
    BY <1>0, <1>1, <1>5 DEF Waits, SameUser
  <2>2. SameMm /\ p_flags'[FS] = {RECEIVING} /\ p_recvfrom'[FS] = ANY
    BY <1>1, <1>5 DEF Waits, SameMm
  <2>3. ~MmSendsTo(FS)
    BY <1>1, <1>5 DEF Waits, MmSendsTo, Sending
  <2>4. mm.at \in Asking => MmFree
    BY <1>0, <1>2, <1>4, <2>3 DEF FsInv, FsServes, FsAnswers
  <2>5. FsInv'
    BY <1>0, <1>2, <2>2, <2>4 DEF FsInv, FsIdle, MmFree, SameMm, Asking, Answered
  <2> QED
    BY <1>0, <1>3, <1>4, <1>5, <2>1, <2>2, <2>5, FsStepKeeps DEF Waits
<1>6. ASSUME NEW from \in Proc, Taken(FS, ANY, from) PROVE MmInv'
  <2>1. from = MM
    <3>1. from \notin User
      BY <1>1, <1>2, <1>6 DEF Taken, UserInv
    <3> QED
      BY <1>6, <3>1, Numbers DEF Taken
  <2>2. MmAsksFs
    BY <1>1, <1>6, <2>1, MmBlocked
       DEF Taken, Sending, MmFree, MmReceiving, MmAnswers, MmSendsTo
  <2>3. \A u \in User : SameUser(u)
    BY <1>0, <1>1, <1>6, <2>1 DEF Taken, SameUser
  <2>4. p_flags'[MM] = {} /\ p_flags'[FS] = {} /\ mem'[FS].source = MM /\ mm.at \in Asking
    BY <1>1, <1>4, <1>6, <2>1, <2>2 DEF Taken, MmAsksFs, MmSendsTo
  <2>5. FsInv'
    BY <1>0, <2>4 DEF FsInv, FsServes, MmFree, Asking, Answered
  <2> QED
    BY <1>0, <1>3, <1>4, <1>6, <2>3, <2>4, <2>5, FsStepKeeps DEF Taken
<1> QED
  BY <1>3, <1>5, <1>6

LEMMA FsReplyKeeps ==
  ASSUME Up, FsReply
  PROVE  MmInv'
<1> USE DEF SENDING, RECEIVING
<1>0. /\ fs = "serve" /\ fs' = "loop" /\ p_flags[FS] = {}
      /\ UNCHANGED <<p_parent, exit_status, pc, forks, mm>>
  BY DEF FsReply, lifecycle, CanCall
<1>1. MM \in Proc /\ FS \in Proc /\ FS # MM /\ \A x \in User : x \in Proc /\ x # FS /\ x # MM
  BY Numbers
<1>2. FlagsOK /\ TableInv /\ panic = "no" /\ FsInv
  BY DEF Up, MmTypeOK, FlagsOK, TalkInv
<1>3. mem[FS].source = MM /\ mm.at \in Asking \cup Answered
  BY <1>0, <1>2 DEF FsInv, FsIdle, FsServes, FsAnswers
<1>4. PICK val \in {0, -1} : SendStep(FS, MM, Ret(0, val))
  BY <1>3 DEF FsReply
<1> DEFINE m == Ret(0, val)
<1>5. /\ CanCall(FS) /\ FlagsOK' /\ TableInv'
      /\ Circle(FS, MM) \/ Delivered(FS, MM, m) \/ Blocked(FS, MM, m)
  BY <1>1, <1>2, <1>4, SendOutcome
<1>6. SameLives
  BY <1>1, <1>2, <1>5, SendKeepsLives
<1>7. MmFree \/ MmReceiving
  BY <1>0, <1>3, MmBlocked DEF MmAsksFs, MmAnswers, Asking, Answered
<1>8. ~Circle(FS, MM)
  BY <1>1, <1>7, NotSending DEF Circle, MmFree, MmReceiving, Sending
<1>9. CASE Delivered(FS, MM, m)
  <2>1. p_flags[MM] = {RECEIVING} /\ mm.at \in Answered
    BY <1>3, <1>7, <1>9 DEF Delivered, Awaits, MmFree, MmReceiving, Asking, Answered
  <2>2. \A u \in User : SameUser(u)
    BY <1>0, <1>1, <1>9 DEF Delivered, SameUser
  <2>3. p_flags'[MM] = {} /\ p_flags'[FS] = {}
    BY <1>0, <1>1, <1>9, <2>1 DEF Delivered
  <2>4. FsInv'
    BY <1>0, <2>1, <2>3 DEF FsInv, FsIdle, MmFree, Asking, Answered
  <2> QED
    BY <1>0, <1>3, <1>5, <1>6, <1>9, <2>2, <2>4, FsStepKeeps DEF Delivered
<1>10. CASE Blocked(FS, MM, m)
  <2>1. MmFree /\ mm.at \in Asking
    <3>1. ~MmReceiving
      BY <1>3, <1>10 DEF Blocked, Awaits, MmReceiving, Asking, Answered
    <3> QED
      BY <1>0, <1>2, <1>3, <1>7, <3>1
         DEF FsInv, FsIdle, MmReceiving, FsServes, MmFree
  <2>2. \A u \in User : SameUser(u)
    BY <1>0, <1>1, <1>10 DEF Blocked, SameUser
  <2>3. p_flags'[MM] = {} /\ p_flags'[FS] = {SENDING} /\ p_sendto'[FS] = MM
    BY <1>1, <1>10, <2>1 DEF Blocked, MmFree
  <2>4. FsInv'
    BY <1>0, <2>1, <2>3 DEF FsInv, FsAnswers, MmFree, Asking, Answered
  <2> QED
    BY <1>0, <1>3, <1>5, <1>6, <1>10, <2>2, <2>4, FsStepKeeps DEF Blocked
<1> QED
  BY <1>5, <1>8, <1>9, <1>10

LEMMA FsSuspendKeeps ==
  ASSUME Up, FsSuspend
  PROVE  MmInv'
<1>1. /\ fs = "serve" /\ fs' = "loop" /\ p_flags[FS] = {}
      /\ UNCHANGED <<p_flags, p_recvfrom, p_sendto, p_msg, q_sending, has_int_msg, mem, panic,
                     p_parent, exit_status, pc, forks, mm>>
  BY DEF FsSuspend, lifecycle, CanCall
<1>2. FlagsOK /\ TableInv /\ panic = "no" /\ FsInv
  BY DEF Up, MmTypeOK, FlagsOK, TalkInv
<1>3. SameLives /\ SameMm /\ FlagsOK' /\ \A u \in User : SameUser(u)
  BY <1>1, <1>2 DEF SameLives, SameMm, SameUser, FlagsOK
<1>4. TableInv'
  BY <1>1, <1>2, QueuesUnchanged DEF TableInv, Sending
<1>5. FsServes /\ (MmFree \/ (p_flags[MM] = {RECEIVING} /\ p_recvfrom[MM] = FS))
      /\ mm.at \in Asking \cup Answered /\ (mm.at \in Asking => MmFree)
  BY <1>1, <1>2 DEF FsInv, FsIdle, FsServes, FsAnswers, RECEIVING, SENDING
<1>6. FsInv'
  BY <1>1, <1>2, <1>5 DEF FsInv, FsIdle, MmFree
<1> QED
  BY <1>1, <1>2, <1>3, <1>4, <1>6, FsStepKeeps

-----------------------------------------------------------------------------
(* MM asks FS and hears its answer, in fork, exit and exec.                *)

LEMMA MmTypeKept ==
  ASSUME MmTypeOK, FlagsOK', panic' \in {"no", "DEADLOCK"}, NEW next \in MmAt,
         mm' = [mm EXCEPT !.at = next], UNCHANGED lifecycle, OthersIdle
  PROVE  MmTypeOK'
BY DEF MmTypeOK, FlagsOK, lifecycle, OthersIdle

(* What holds after a step of MM towards FS, but for the handler it is in. *)
Conversed(next) ==
  /\ mm' = [mm EXCEPT !.at = next] /\ UNCHANGED lifecycle /\ OthersIdle /\ SameLives
  /\ \A u \in User : SameUser(u)
  /\ panic' = "no" /\ MmTypeOK' /\ TableInv' /\ KinInv' /\ FsInv'
  /\ \A u \in User : UserInv(u)'

LEMMA AskFs ==
  ASSUME Up, NEW m, NEW next \in Asking, MmSend(FS, m, next), mm.at \in MmAt \ Asking,
         mm.at # "reparent"
  PROVE  Conversed(next)
<1> USE DEF SENDING, RECEIVING
<1>0. /\ SendStep(MM, FS, m) /\ mm' = [mm EXCEPT !.at = next]
      /\ UNCHANGED lifecycle /\ OthersIdle
  BY DEF MmSend
<1>1. MM \in Proc /\ FS \in Proc /\ FS # MM /\ \A x \in User : x \in Proc /\ x # FS /\ x # MM
  BY Numbers
<1>2. FlagsOK /\ TableInv /\ panic = "no" /\ FsInv /\ MmTypeOK /\ KinInv /\ \A u \in User : UserInv(u)
  BY DEF Up, MmTypeOK, FlagsOK, TalkInv
<1>3. /\ CanCall(MM) /\ FlagsOK' /\ TableInv'
      /\ Circle(MM, FS) \/ Delivered(MM, FS, m) \/ Blocked(MM, FS, m)
  BY <1>0, <1>1, <1>2, SendOutcome
<1>4. SameLives /\ p_flags[MM] = {}
  BY <1>1, <1>2, <1>3, SendKeepsLives DEF CanCall
<1>5. FsIdle
  BY <1>2, <1>4 DEF FsInv, MmFree
<1>6. ~Circle(MM, FS)
  BY <1>1, <1>5, NotSending DEF Circle, FsIdle, Sending
<1>7. /\ panic' = "no" /\ \A u \in User : SameUser(u)
      /\ \/ MmSendsTo(FS)' /\ fs' = "loop" /\ p_flags'[FS] = {}
         \/ MmFree' /\ FsServes'
  <2>0. pc' = pc /\ fs' = fs
    BY <1>0 DEF OthersIdle
  <2>1. CASE Delivered(MM, FS, m)
    <3>1. fs = "serve" /\ p_flags[FS] = {RECEIVING}
      BY <1>5, <2>1 DEF Delivered, Awaits, FsIdle
    <3>2. p_flags'[FS] = {} /\ p_flags'[MM] = {} /\ mem'[FS].source = MM
      BY <1>1, <1>4, <2>1, <3>1 DEF Delivered, Stamped
    <3>3. \A u \in User : SameUser(u)
      BY <1>1, <2>0, <2>1 DEF Delivered, SameUser
    <3> QED
      BY <2>0, <2>1, <3>1, <3>2, <3>3 DEF Delivered, MmFree, FsServes
  <2>2. CASE Blocked(MM, FS, m)
    <3>1. fs = "loop" /\ p_flags[FS] = {}
      BY <1>2, <1>5, <2>2 DEF Blocked, Awaits, FsIdle, FsInv
    <3>2. MmSendsTo(FS)' /\ p_flags'[FS] = {}
      BY <1>1, <2>2, <3>1 DEF Blocked, Stamped, MmSendsTo
    <3>3. \A u \in User : SameUser(u)
      BY <1>1, <2>0, <2>2 DEF Blocked, SameUser
    <3> QED
      BY <2>0, <2>2, <3>1, <3>2, <3>3 DEF Blocked
  <2> QED
    BY <1>3, <1>6, <2>1, <2>2
<1>8. mm'.at = next /\ next \in MmAt /\ next \notin Answered
  BY <1>0, <1>2 DEF MmTypeOK, Asking, Answered, MmAt
<1>9. FsInv'
  BY <1>7, <1>8 DEF FsInv, FsServes
<1>10. KinInv' /\ MmTypeOK'
  BY <1>0, <1>2, <1>3, <1>4, <1>7, <1>8, KinKept, MmTypeKept DEF lifecycle
<1> QED
  BY <1>0, <1>2, <1>3, <1>4, <1>7, <1>9, <1>10, UserKept DEF Conversed

LEMMA HearFs ==
  ASSUME Up, NEW next \in Answered, MmAwait(FS, next), mm.at \in Asking
  PROVE  Conversed(next)
<1> USE DEF SENDING, RECEIVING
<1>0. /\ ReceiveStep(MM, FS) /\ mm' = [mm EXCEPT !.at = next]
      /\ UNCHANGED lifecycle /\ OthersIdle
  BY DEF MmAwait
<1>1. MM \in Proc /\ FS \in Proc /\ FS # MM /\ FS # ANY
      /\ \A x \in User : x \in Proc /\ x # FS /\ x # MM
  BY Numbers
<1>2. FlagsOK /\ TableInv /\ panic = "no" /\ FsInv /\ MmTypeOK /\ KinInv /\ \A u \in User : UserInv(u)
  BY DEF Up, MmTypeOK, FlagsOK, TalkInv
<1>3. /\ CanCall(MM) /\ FlagsOK' /\ TableInv'
      /\ Waits(MM, FS) \/ \E from \in Proc : Taken(MM, FS, from)
  BY <1>0, <1>1, <1>2, ReceiveOutcome
<1>4. SameLives /\ p_flags[MM] = {}
  BY <1>1, <1>2, <1>3, ReceiveKeepsLives DEF CanCall
<1>5. FsServes \/ FsAnswers \/ FsIdle
  BY <1>2, <1>4 DEF FsInv, MmSendsTo
<1>6. /\ panic' = "no" /\ \A u \in User : SameUser(u)
      /\ \/ p_flags'[MM] = {RECEIVING} /\ p_recvfrom'[MM] = FS /\ (FsServes' \/ FsIdle')
         \/ MmFree' /\ fs' = "loop" /\ p_flags'[FS] = {}
  <2>0. pc' = pc /\ fs' = fs
    BY <1>0 DEF OthersIdle
  <2>1. CASE Waits(MM, FS)
    <3>1. FsServes \/ FsIdle
      BY <1>1, <1>5, <2>1 DEF Waits, FsAnswers, Sending
    <3>2. (FsServes' \/ FsIdle') /\ p_flags'[MM] = {RECEIVING} /\ p_recvfrom'[MM] = FS
      BY <1>1, <2>0, <2>1, <3>1 DEF Waits, FsServes, FsIdle
    <3>3. \A u \in User : SameUser(u)
      BY <1>1, <2>0, <2>1 DEF Waits, SameUser
    <3> QED
      BY <2>0, <2>1, <3>2, <3>3 DEF Waits
  <2>2. CASE Taken(MM, FS, FS)
    <3>1. fs = "loop" /\ p_flags[FS] = {SENDING}
      BY <1>5, <2>2 DEF Taken, FsServes, FsAnswers, FsIdle, Sending
    <3>2. MmFree' /\ p_flags'[FS] = {}
      BY <1>1, <1>4, <2>2, <3>1 DEF Taken, MmFree
    <3>3. \A u \in User : SameUser(u)
      BY <1>1, <2>0, <2>2 DEF Taken, SameUser
    <3> QED
      BY <2>0, <2>2, <3>1, <3>2, <3>3 DEF Taken
  <2> QED
    BY <1>1, <1>3, <2>1, <2>2 DEF Taken
<1>7. mm'.at = next /\ next \in MmAt /\ next \notin Asking
  BY <1>0, <1>2 DEF MmTypeOK, Asking, Answered, MmAt
<1>8. FsInv'
  <2>1. RECEIVING \in p_flags'[FS] => p_recvfrom'[FS] = ANY
    <3>1. CASE Waits(MM, FS)
      BY <1>1, <1>2, <3>1 DEF Waits, FsInv
    <3>2. CASE Taken(MM, FS, FS)
      BY <1>1, <1>5, <3>2 DEF Taken, FsServes, FsAnswers, FsIdle, Sending
    <3> QED
      BY <1>1, <1>3, <3>1, <3>2 DEF Taken
  <2> QED
    BY <1>6, <1>7, <2>1 DEF FsInv, FsIdle, MmFree
<1>9. KinInv' /\ MmTypeOK'
  BY <1>0, <1>2, <1>3, <1>4, <1>6, <1>7, KinKept, MmTypeKept DEF lifecycle, Asking
<1> QED
  BY <1>0, <1>2, <1>3, <1>4, <1>6, <1>8, <1>9, UserKept DEF Conversed

(* The process whose request is in hand stays so in the conversation.      *)
LEMMA Kept ==
  ASSUME MmTypeOK, NEW next, Conversed(next)
  PROVE  /\ mm'.at = next /\ mm'.src = mm.src /\ mm'.who = mm.who /\ mm'.val = mm.val
         /\ \A u \in User : \A op : Pending(u, op)' <=> Pending(u, op)
         /\ Born => Born'
<1>1. mm'.at = next /\ mm'.src = mm.src /\ mm'.who = mm.who /\ mm'.val = mm.val
  BY DEF Conversed, MmTypeOK
<1>2. \A u \in User : \A op : Pending(u, op)' <=> Pending(u, op)
  BY DEF Conversed, Pending, SameUser
<1>3. \A x \in Proc : Living(x)' <=> Living(x)
  BY DEF Conversed, SameLives, Living, Used
<1>4. Born => Born'
  BY <1>1, <1>2, <1>3, Numbers DEF Born, Conversed, lifecycle
<1> QED
  BY <1>1, <1>2, <1>4

LEMMA ConversedIsMmInv ==
  ASSUME NEW next, Conversed(next), HandlerInv'
  PROVE  MmInv'
BY UpIsMmInv DEF Conversed, TalkInv

(* Where MM is not, a handler demands nothing.                             *)
LEMMA OtherHandlers ==
  /\ mm'.at # "loop" => LoopInv'
  /\ mm'.at # "dispatch" => DispatchInv'
  /\ mm'.at \notin {"image", "forkfs", "forkwait", "birth"} => ForkInv'
  /\ mm'.at # "reply" => MmReplyInv'
  /\ mm'.at \notin {"exitfs", "exitwait", "exit", "reparent"} => ExitInv'
  /\ mm'.at \notin {"cleanup", "free"} => CleanupInv'
  /\ mm'.at \notin {"statfs", "statwait", "openfs", "openwait", "readfs", "readwait", "load",
                      "program"} => ExecInv'
BY DEF LoopInv, DispatchInv, ForkInv, MmReplyInv, ExitInv, CleanupInv, ExecInv

LEMMA FsTalkKeeps ==
  ASSUME Up, ForkTellFs \/ ForkFsDone \/ ExitTellFs \/ ExitFsDone \/ ExecStat \/ ExecStatDone
               \/ ExecOpen \/ ExecOpenDone \/ ExecRead \/ ExecReadDone
  PROVE  MmInv'
<1> USE DEF Up, TalkInv, HandlerInv
<1>1. ASSUME NEW next \in {"forkwait", "birth"}, Conversed(next), mm.at \in {"forkfs", "forkwait"}
      PROVE  MmInv'
  <2>1. ForkInv'
    BY <1>1, Kept, Numbers DEF ForkInv, Born
  <2> QED
    BY <1>1, <2>1, Kept, OtherHandlers, ConversedIsMmInv
<1>2. ASSUME NEW next \in {"exitwait", "exit"}, Conversed(next), mm.at \in {"exitfs", "exitwait"}
      PROVE  MmInv'
  <2>1. ExitInv'
    BY <1>2, Kept, Numbers DEF ExitInv
  <2> QED
    BY <1>2, <2>1, Kept, OtherHandlers, ConversedIsMmInv
<1>3. ASSUME NEW next \in {"statwait", "openfs", "openwait", "readfs", "readwait", "load"},
             Conversed(next),
             mm.at \in {"statfs", "statwait", "openfs", "openwait", "readfs", "readwait"}
      PROVE  MmInv'
  <2>1. ExecInv'
    BY <1>3, Kept DEF ExecInv
  <2> QED
    BY <1>3, <2>1, Kept, OtherHandlers, ConversedIsMmInv
<1>4. CASE ForkTellFs
  BY <1>1, <1>4, AskFs DEF ForkTellFs, Asking, MmAt
<1>5. CASE ForkFsDone
  BY <1>1, <1>5, HearFs DEF ForkFsDone, Asking, Answered
<1>6. CASE ExitTellFs
  BY <1>2, <1>6, AskFs DEF ExitTellFs, Asking, MmAt
<1>7. CASE ExitFsDone
  BY <1>2, <1>7, HearFs DEF ExitFsDone, Asking, Answered
<1>8. CASE ExecStat
  BY <1>3, <1>8, AskFs DEF ExecStat, Asking, MmAt
<1>9. CASE ExecStatDone
  BY <1>3, <1>9, HearFs DEF ExecStatDone, Asking, Answered
<1>10. CASE ExecOpen
  BY <1>3, <1>10, AskFs DEF ExecOpen, MmAtStep, Asking, MmAt
<1>11. CASE ExecOpenDone
  BY <1>3, <1>11, HearFs DEF ExecOpenDone, Asking, Answered
<1>12. CASE ExecRead
  BY <1>3, <1>12, AskFs DEF ExecRead, MmAtStep, Asking, MmAt
<1>13. CASE ExecReadDone
  BY <1>3, <1>13, HearFs DEF ExecReadDone, Asking, Answered
<1> QED
  BY <1>4, <1>5, <1>6, <1>7, <1>8, <1>9, <1>10, <1>11, <1>12, <1>13

-----------------------------------------------------------------------------
(* MM takes a request, and answers one.                                    *)

LEMMA MmReceiveKeeps ==
  ASSUME Up, MmReceive
  PROVE  MmInv'
<1> USE DEF SENDING, RECEIVING
<1>0. /\ mm.at = "loop" /\ ReceiveStep(MM, ANY) /\ mm' = [mm EXCEPT !.at = "dispatch"]
      /\ UNCHANGED lifecycle /\ pc' = pc /\ forks' = forks /\ fs' = fs
  BY DEF MmReceive, MmAwait, OthersIdle
<1>1. MM \in Proc /\ FS \in Proc /\ FS # MM /\ \A x \in User : x \in Proc /\ x # FS /\ x # MM
  BY Numbers
<1>2. FlagsOK /\ TableInv /\ panic = "no" /\ FsInv /\ MmTypeOK /\ KinInv /\ \A u \in User : UserInv(u)
  BY DEF Up, MmTypeOK, FlagsOK, TalkInv
<1>3. /\ CanCall(MM) /\ FlagsOK' /\ TableInv'
      /\ Waits(MM, ANY) \/ \E from \in Proc : Taken(MM, ANY, from)
  BY <1>0, <1>1, <1>2, ReceiveOutcome
<1>4. SameLives /\ p_flags[MM] = {}
  BY <1>1, <1>2, <1>3, ReceiveKeepsLives DEF CanCall
<1>5. mm'.at = "dispatch"
  BY <1>0, <1>2 DEF MmTypeOK
<1>6. panic' = "no" /\ KinInv' /\ MmTypeOK'
  <2>1. panic' = "no"
    BY <1>3 DEF Waits, Taken
  <2> QED
    BY <1>0, <1>2, <1>3, <1>4, <2>1, KinKept, MmTypeKept DEF lifecycle, OthersIdle, MmAt
<1>7. FsIdle
  BY <1>0, <1>2 DEF FsInv, Asking, Answered
<1>8. CASE Waits(MM, ANY)
  <2>1. \A x \in User : SameUser(x)
    BY <1>0, <1>1, <1>8 DEF Waits, SameUser
  <2>2. /\ p_flags'[MM] = {RECEIVING} /\ p_recvfrom'[MM] = ANY
        /\ p_flags'[FS] = p_flags[FS] /\ p_recvfrom'[FS] = p_recvfrom[FS]
    BY <1>1, <1>8 DEF Waits
  <2>3. FsInv' /\ DispatchInv'
    BY <1>0, <1>2, <1>5, <1>7, <2>2 DEF FsInv, FsIdle, DispatchInv, Asking, Answered
  <2> QED
    BY <1>2, <1>3, <1>5, <1>6, <2>1, <2>3, UserKept, OtherHandlers, UpIsMmInv DEF TalkInv, HandlerInv
<1>9. ASSUME NEW u \in Proc, Taken(MM, ANY, u) PROVE MmInv'
  <2>1. u \in User
    BY <1>7, <1>9, Numbers DEF Taken, FsIdle, Sending
  <2>2. p_flags[u] = {SENDING} /\ pc[u].at = "sent" /\ mem[u].source = u /\ IsRequest(u, mem[u].type)
    BY <1>2, <1>9, <2>1, LifeOf DEF Taken, UserInv, Sending
  <2>3. /\ p_flags'[u] = {} /\ p_flags'[MM] = {} /\ mem'[MM] = mem[u] /\ mem'[u] = mem[u]
        /\ p_flags'[FS] = p_flags[FS] /\ p_recvfrom' = p_recvfrom
    BY <1>1, <1>4, <1>9, <2>1, <2>2 DEF Taken
  <2>4. ASSUME NEW x \in User PROVE UserInv(x)'
    <3>1. CASE x # u
      <4>1. SameUser(x)
        BY <1>0, <1>1, <1>9, <3>1 DEF Taken, SameUser
      <4> QED
        BY <1>2, <4>1, UserKept
    <3>2. CASE x = u
      <4>1. pc[u].op # "none" /\ u # MM
        BY <1>1, <2>1, <2>2 DEF IsRequest
      <4> QED
        BY <1>0, <2>2, <2>3, <3>2, <4>1 DEF UserInv, Sending
    <3> QED
      BY <3>1, <3>2
  <2>5. FsInv'
    BY <1>0, <1>2, <1>5, <1>7, <2>3 DEF FsInv, FsIdle, Asking, Answered
  <2>6. Pending(u, mem[u].type.op)'
    BY <1>0, <2>2, <2>3 DEF Pending, IsRequest
  <2>7. DispatchInv'
    BY <1>0, <2>1, <2>2, <2>3, <2>6 DEF DispatchInv, MmFree, Caller, IsRequest
  <2> QED
    BY <1>3, <1>5, <1>6, <2>4, <2>5, <2>7, OtherHandlers, UpIsMmInv DEF TalkInv, HandlerInv
<1> QED
  BY <1>3, <1>8, <1>9

(* An answer to u: it has it, being in its RECEIVE, or MM is blocked with  *)
(* it until u comes there.                                                 *)
AnswerHeard(u, m) ==
  p_flags[u] = {RECEIVING} /\ p_flags'[u] = {} /\ MmFree' /\ mem'[u] = Stamped(MM, m)
AnswerHeld(u, m) ==
  p_flags[u] = {} /\ SameUser(u) /\ MmSendsTo(u)' /\ mem'[MM] = Stamped(MM, m)

LEMMA AnswerOutcome ==
  ASSUME Up, NEW u \in User, NEW m, SendStep(MM, u, m), p_flags[u] \in {{}, {RECEIVING}},
         UNCHANGED <<pc, fs>>
  PROVE  /\ MmFree /\ panic' = "no" /\ FlagsOK' /\ TableInv' /\ SameLives
         /\ AnswerHeard(u, m) \/ AnswerHeld(u, m)
         /\ \A x \in User \ {u} : SameUser(x)
         /\ \A x \in User : UserInv(x)'
         /\ mm.at \notin Asking /\ mm'.at \notin Asking \cup Answered => FsInv'
<1> USE DEF SENDING, RECEIVING
<1>1. MM \in Proc /\ FS \in Proc /\ FS # MM /\ u \in Proc
      /\ \A x \in User : x \in Proc /\ x # FS /\ x # MM
  BY Numbers
<1>2. FlagsOK /\ TableInv /\ panic = "no" /\ FsInv /\ \A x \in User : UserInv(x)
  BY DEF Up, MmTypeOK, FlagsOK, TalkInv
<1>3. /\ CanCall(MM) /\ FlagsOK' /\ TableInv'
      /\ Circle(MM, u) \/ Delivered(MM, u, m) \/ Blocked(MM, u, m)
  BY <1>1, <1>2, SendOutcome
<1>4. SameLives /\ MmFree
  BY <1>1, <1>2, <1>3, SendKeepsLives DEF CanCall, MmFree
<1>5. ~Circle(MM, u)
  BY <1>1, NotSending DEF Circle, Sending
<1>6. p_flags[u] = {RECEIVING} =>
        p_recvfrom[u] = MM /\ (pc[u] = Running \/ (pc[u].at = "wait" /\ pc[u].op # "none"))
  BY <1>2 DEF UserInv, WAITING, HANGING, FREE_SLOT
<1>7. /\ p_flags'[FS] = p_flags[FS] /\ p_recvfrom'[FS] = p_recvfrom[FS]
      /\ \A x \in User \ {u} : SameUser(x)
      /\ panic' = "no"
      /\ AnswerHeard(u, m) \/ AnswerHeld(u, m)
  <2>1. CASE Delivered(MM, u, m)
    <3>1. p_flags[u] = {RECEIVING}
      BY <2>1 DEF Delivered, Awaits
    <3>2. \A x \in User \ {u} : SameUser(x)
      BY <1>1, <2>1 DEF Delivered, SameUser
    <3>3. AnswerHeard(u, m)
      BY <1>1, <1>4, <2>1, <3>1 DEF Delivered, AnswerHeard, MmFree
    <3> QED
      BY <1>1, <2>1, <3>2, <3>3 DEF Delivered
  <2>2. CASE Blocked(MM, u, m)
    <3>1. p_flags[u] = {}
      BY <1>6, <2>2 DEF Blocked, Awaits
    <3>2. \A x \in User : SameUser(x)
      BY <1>1, <2>2 DEF Blocked, SameUser
    <3>3. AnswerHeld(u, m)
      BY <1>1, <2>2, <3>1, <3>2 DEF Blocked, AnswerHeld, MmSendsTo, Stamped
    <3> QED
      BY <1>1, <2>2, <3>2, <3>3 DEF Blocked
  <2> QED
    BY <1>3, <1>5, <2>1, <2>2
<1>8. ASSUME NEW x \in User PROVE UserInv(x)'
  <2>1. CASE x = u /\ AnswerHeard(u, m)
    <3>1. p_flags'[x] = {} /\ pc' = pc /\ pc[x].at # "sent"
      BY <1>6, <2>1 DEF AnswerHeard, Running
    <3> QED
      BY <1>6, <2>1, <3>1 DEF UserInv, AnswerHeard, Sending
  <2>2. CASE SameUser(x)
    BY <1>2, <2>2, UserKept
  <2> QED
    BY <1>7, <2>1, <2>2 DEF AnswerHeld
<1>9. mm.at \notin Asking /\ mm'.at \notin Asking \cup Answered => FsInv'
  BY <1>2, <1>4, <1>7 DEF FsInv, FsIdle, MmFree
<1> QED
  BY <1>3, <1>4, <1>7, <1>8, <1>9

(* A process whose request is in hand, once it is in its RECEIVE.          *)
LEMMA PendingUser ==
  ASSUME MmTypeOK, NEW u \in User, NEW op, Pending(u, op)
  PROVE  /\ p_flags[u] \in {{}, {RECEIVING}}
         /\ p_flags[u] = {} => Reachable(u, op)
         /\ p_flags[u] = {RECEIVING} => pc[u].at = "wait" /\ pc[u].op = op
BY DEF MmTypeOK, Pending, Reachable, RECEIVING

LEMMA ReachableKept ==
  ASSUME NEW u, NEW op, SameUser(u)
  PROVE  /\ Reachable(u, op)' <=> Reachable(u, op)
         /\ Replaced(u)' <=> Replaced(u)
         /\ Pending(u, op)' <=> Pending(u, op)
BY DEF SameUser, Reachable, Replaced, Pending, Running

LEMMA MmReplyKeeps ==
  ASSUME Up, MmReply
  PROVE  MmInv'
<1> USE DEF SENDING, RECEIVING
<1> DEFINE u == mm.src
           m == Ret(mm.who, mm.val)
<1>0. /\ mm.at = "reply" /\ SendStep(MM, u, m) /\ mm' = [mm EXCEPT !.at = "loop"]
      /\ UNCHANGED lifecycle /\ OthersIdle /\ pc' = pc /\ fs' = fs
  BY DEF MmReply, MmSend, OthersIdle
<1>1. FlagsOK /\ TableInv /\ MmTypeOK /\ KinInv /\ MmReplyInv /\ \A x \in User : UserInv(x)
  BY DEF Up, MmTypeOK, FlagsOK, TalkInv, HandlerInv
<1>2. mm'.at = "loop" /\ mm'.src = mm.src /\ mm'.who = mm.who /\ mm'.val = mm.val
  BY <1>0, <1>1 DEF MmTypeOK
<1>3. u \in User /\ u \in Proc /\ MM \in Proc
  BY <1>0, <1>1, Numbers DEF MmReplyInv
<1>4. /\ CanCall(MM) /\ FlagsOK' /\ TableInv'
      /\ Circle(MM, u) \/ Delivered(MM, u, m) \/ Blocked(MM, u, m)
  BY <1>0, <1>1, <1>3, SendOutcome
<1>5. p_flags[MM] = {} /\ MmFree
  BY <1>4 DEF CanCall, MmFree
<1>6. SameLives
  BY <1>1, <1>3, <1>4, SendKeepsLives
<1>7. KinInv' /\ (panic' \in {"no", "DEADLOCK"} => MmTypeOK')
  BY <1>0, <1>1, <1>2, <1>4, <1>6, KinKept, MmTypeKept DEF lifecycle, MmAt
<1>8. CASE p_flags[u] = {SENDING}
  <2>1. p_sendto[u] = MM /\ Sending(u)
    BY <1>1, <1>3, <1>8 DEF UserInv, Sending
  <2>2. Circle(MM, u)
    BY <1>3, <1>4, <2>1, SendingToEachOther DEF Delivered, Blocked
  <2>3. mm.who = 0 /\ mm.val = 0
    BY <1>0, <1>1, <1>5, <1>8 DEF MmReplyInv, Pending, MmSendsTo, MmFree, Born
  <2>4. Sending(mm.src)' /\ p_sendto'[mm'.src] = MM
    BY <1>2, <2>1, <2>2 DEF Circle, Sending
  <2>5. OnlyExecDeadlocks'
    BY <1>2, <1>3, <2>3, <2>4 DEF OnlyExecDeadlocks
  <2>6. panic' = "DEADLOCK"
    BY <2>2 DEF Circle
  <2> QED
    BY <1>4, <1>7, <2>5, <2>6 DEF MmInv
<1>9. CASE p_flags[u] # {SENDING}
  <2>1. /\ p_flags[u] \in {{}, {RECEIVING}}
        /\ \/ mm.val = -1 /\ (Pending(u, "FORK") \/ Pending(u, "EXEC"))
           \/ Born
           \/ Restarted(u) /\ mm.who = 0 /\ mm.val = 0
    BY <1>0, <1>1, <1>5, <1>9 DEF MmReplyInv, Pending, Born, Restarted
  <2>2. /\ panic' = "no"
        /\ AnswerHeard(u, m) \/ AnswerHeld(u, m)
        /\ \A x \in User : UserInv(x)'
        /\ FsInv'
    BY <1>0, <1>2, <1>3, <2>1, AnswerOutcome DEF Asking, Answered
  <2>3. ASSUME AnswerHeld(u, m) PROVE MmSendsTo(u)' /\ ReplyInv(u)'
    <3>1. /\ p_flags[u] = {} /\ SameUser(u) /\ MmSendsTo(u)' /\ mem'[MM].type = m /\ u = mm'.src
      BY <1>2, <2>3 DEF AnswerHeld, Stamped
    <3>2. CASE mm.val = -1 /\ Pending(u, "FORK")
      BY <1>1, <1>3, <3>1, <3>2, PendingUser, ReachableKept DEF ReplyInv, Ret
    <3>3. CASE Pending(u, "EXEC")
      BY <1>1, <1>3, <3>1, <3>3, PendingUser, ReachableKept DEF ReplyInv
    <3>4. CASE Born
      <4>1. Reachable(u, "FORK")'
        BY <1>1, <1>3, <3>1, <3>4, PendingUser, ReachableKept DEF Born
      <4>2. mm.who \in Slot /\ p_parent'[mm.who] = u /\ mm.val = 0 /\ Living(mm.who)
        BY <1>0, <3>4 DEF Born, lifecycle
      <4>3. Living(mm.who)'
        BY <1>2, <1>6, <4>2, Numbers DEF SameLives, Living, Used
      <4> QED
        BY <1>2, <3>1, <4>1, <4>2, <4>3 DEF ReplyInv, Ret
    <3>5. CASE Restarted(u) /\ mm.who = 0 /\ mm.val = 0
      <4>1. Replaced(u)
        BY <3>1, <3>5 DEF Restarted, Replaced
      <4> QED
        BY <1>2, <3>1, <3>5, <4>1, ReachableKept DEF ReplyInv
    <3> QED
      BY <2>1, <3>1, <3>2, <3>3, <3>4, <3>5
  <2>4. LoopInv'
    BY <1>2, <1>3, <2>2, <2>3 DEF LoopInv, AnswerHeard
  <2>5. HandlerInv'
    BY <1>2, <2>4, OtherHandlers DEF HandlerInv
  <2> QED
    BY <1>4, <1>7, <2>2, <2>5, UpIsMmInv DEF TalkInv
<1> QED
  BY <1>8, <1>9

LEMMA ForkBirthKeeps ==
  ASSUME Up, ForkBirth
  PROVE  MmInv'
<1> USE DEF SENDING, RECEIVING
<1>0. /\ mm.at = "birth" /\ SendStep(MM, mm.who, Ret(0, 0)) /\ mm' = [mm EXCEPT !.at = "reply"]
      /\ UNCHANGED lifecycle /\ OthersIdle /\ pc' = pc /\ fs' = fs
  BY DEF ForkBirth, MmSend, OthersIdle
<1>1. FlagsOK /\ TableInv /\ MmTypeOK /\ KinInv /\ Born /\ Pending(mm.who, "FORK")
  BY <1>0 DEF Up, MmTypeOK, FlagsOK, TalkInv, HandlerInv, ForkInv
<1>2. mm'.at = "reply" /\ mm'.src = mm.src /\ mm'.who = mm.who /\ mm'.val = mm.val
  BY <1>0, <1>1 DEF MmTypeOK
<1>3. PICK u \in User : u = mm.who /\ u \in Proc /\ u # mm.src /\ mm.src \in User
  BY <1>1, Numbers DEF Born
<1>4. p_flags[u] \in {{}, {RECEIVING}} /\ (p_flags[u] = {} => Reachable(u, "FORK"))
  BY <1>1, <1>3, PendingUser
<1>5. /\ panic' = "no" /\ FlagsOK' /\ TableInv' /\ SameLives
      /\ AnswerHeard(u, Ret(0, 0)) \/ AnswerHeld(u, Ret(0, 0))
      /\ \A x \in User \ {u} : SameUser(x)
      /\ \A x \in User : UserInv(x)'
      /\ FsInv'
  BY <1>0, <1>2, <1>3, <1>4, AnswerOutcome DEF Asking, Answered
<1>6. KinInv' /\ MmTypeOK'
  BY <1>0, <1>1, <1>2, <1>5, KinKept, MmTypeKept DEF lifecycle, MmAt
<1>7. Born'
  <2>1. Pending(mm.src, "FORK")'
    BY <1>1, <1>2, <1>3, <1>5, ReachableKept DEF Born
  <2>2. Living(mm.who)'
    BY <1>1, <1>2, <1>3, <1>5 DEF Born, SameLives, Living, Used
  <2> QED
    BY <1>0, <1>1, <1>2, <2>1, <2>2 DEF Born, lifecycle
<1>8. MmReplyInv'
  <2>1. CASE AnswerHeard(u, Ret(0, 0))
    BY <1>2, <1>3, <1>7, <2>1 DEF MmReplyInv, AnswerHeard
  <2>2. CASE AnswerHeld(u, Ret(0, 0))
    <3>1. /\ MmSendsTo(u)' /\ mem'[MM].type.pid = 0 /\ mem'[MM].type.val = 0
          /\ Reachable(u, "FORK")'
      BY <1>4, <2>2, ReachableKept DEF AnswerHeld, Stamped, Ret
    <3> QED
      BY <1>2, <1>3, <1>7, <3>1 DEF MmReplyInv
  <2> QED
    BY <1>5, <2>1, <2>2
<1>9. HandlerInv'
  BY <1>2, <1>8, OtherHandlers DEF HandlerInv
<1> QED
  BY <1>5, <1>6, <1>9, UpIsMmInv DEF TalkInv

LEMMA CleanupTellKeeps ==
  ASSUME Up, CleanupTell
  PROVE  MmInv'
<1> USE DEF SENDING, RECEIVING
<1> DEFINE m == Ret(mm.who, exit_status[mm.who])
<1>0. /\ mm.at = "cleanup" /\ SendStep(MM, p_parent[mm.who], m)
      /\ mm' = [mm EXCEPT !.at = "free"]
      /\ UNCHANGED lifecycle /\ OthersIdle /\ pc' = pc /\ fs' = fs
  BY DEF CleanupTell, MmSend, OthersIdle
<1>1. /\ FlagsOK /\ TableInv /\ MmTypeOK /\ KinInv /\ \A x \in User : UserInv(x)
      /\ mm.who \in Slot /\ p_parent[mm.who] # mm.who
      /\ \/ mm.src = mm.who /\ Pending(mm.who, "EXIT")
         \/ mm.src = 0 /\ HANGING \in p_flags[mm.who]
      /\ Pending(p_parent[mm.who], "WAIT")
  BY <1>0 DEF Up, MmTypeOK, FlagsOK, TalkInv, HandlerInv, CleanupInv
<1>2. /\ mm'.at = "free" /\ mm'.src = mm.src /\ mm'.who = mm.who
      /\ p_parent' = p_parent /\ exit_status' = exit_status
  BY <1>0, <1>1 DEF MmTypeOK, lifecycle
<1>3. PICK u \in User : u = p_parent[mm.who] /\ u \in Proc /\ u # mm.who
  <2>1. Used(mm.who)
    BY <1>1, LifeOf, Numbers DEF Living
  <2> QED
    BY <1>1, <2>1, Numbers DEF KinInv
<1>4. p_flags[u] \in {{}, {RECEIVING}} /\ (p_flags[u] = {} => Reachable(u, "WAIT"))
  BY <1>1, <1>3, PendingUser
<1>5. /\ panic' = "no" /\ FlagsOK' /\ TableInv' /\ SameLives
      /\ AnswerHeard(u, m) \/ AnswerHeld(u, m)
      /\ \A x \in User \ {u} : SameUser(x)
      /\ \A x \in User : UserInv(x)'
      /\ FsInv'
  BY <1>0, <1>2, <1>3, <1>4, AnswerOutcome DEF Asking, Answered
<1>6. KinInv' /\ MmTypeOK'
  BY <1>0, <1>1, <1>2, <1>5, KinKept, MmTypeKept DEF lifecycle, MmAt
<1>7. \/ mm.src = mm.who /\ Pending(mm.who, "EXIT")'
      \/ mm.src = 0 /\ HANGING \in p_flags'[mm.who]
  <2>1. mm.who \in User /\ SameUser(mm.who)
    BY <1>1, <1>3, <1>5, Numbers
  <2> QED
    BY <1>1, <1>2, <2>1 DEF SameUser, Pending
<1>8. \/ MmFree'
      \/ MmSendsTo(u)' /\ Reachable(u, "WAIT")' /\ mem'[MM].type = m
  BY <1>4, <1>5, ReachableKept DEF AnswerHeard, AnswerHeld, Stamped
<1>9. CleanupInv'
  BY <1>1, <1>2, <1>3, <1>7, <1>8 DEF CleanupInv, Ret
<1>10. HandlerInv'
  BY <1>2, <1>9, OtherHandlers DEF HandlerInv
<1> QED
  BY <1>5, <1>6, <1>10, UpIsMmInv DEF TalkInv

LEMMA WaitNoChildKeeps ==
  ASSUME Up, WaitNoChild
  PROVE  MmInv'
<1> USE DEF SENDING, RECEIVING
<1> DEFINE m == Ret(NO_TASK, 0)
<1>0. /\ mm.at = "dispatch" /\ CanCall(MM) /\ mem[MM].type.op = "WAIT" /\ Children(Caller) = {}
      /\ SendStep(MM, Caller, m) /\ mm' = MmIdle
      /\ UNCHANGED lifecycle /\ OthersIdle /\ pc' = pc /\ fs' = fs
  BY DEF WaitNoChild, Asked, MmAtStep, OthersIdle
<1>1. /\ FlagsOK /\ TableInv /\ MmTypeOK /\ KinInv /\ \A x \in User : UserInv(x)
      /\ Caller \in User /\ Pending(Caller, "WAIT")
  BY <1>0 DEF Up, MmTypeOK, FlagsOK, TalkInv, HandlerInv, DispatchInv, CanCall
<1>2. mm'.at = "loop" /\ p_parent' = p_parent
  BY <1>0 DEF MmIdle, lifecycle
<1>3. PICK u \in User : u = Caller
  BY <1>1
<1>4. p_flags[u] \in {{}, {RECEIVING}} /\ (p_flags[u] = {} => Reachable(u, "WAIT"))
  BY <1>1, <1>3, PendingUser
<1>5. /\ panic' = "no" /\ FlagsOK' /\ TableInv' /\ SameLives
      /\ AnswerHeard(u, m) \/ AnswerHeld(u, m)
      /\ \A x \in User : UserInv(x)'
      /\ FsInv'
  BY <1>0, <1>2, <1>3, <1>4, AnswerOutcome DEF Asking, Answered
<1>6. KinInv'
  BY <1>0, <1>1, <1>2, <1>5, KinKept
<1>7. MmTypeOK'
  BY <1>0, <1>1, <1>5 DEF MmTypeOK, FlagsOK, lifecycle, OthersIdle, MmIdle, MmAt
<1>8. LoopInv'
  <2>1. CASE AnswerHeard(u, m)
    BY <2>1 DEF LoopInv, AnswerHeard
  <2>2. CASE AnswerHeld(u, m)
    <3>1. \A s \in Slot : p_parent'[s] # u
      BY <1>0, <1>2, <1>3, Numbers DEF Children
    <3>2. Reachable(u, "WAIT")' /\ MmSendsTo(u)' /\ mem'[MM].type.pid = NO_TASK
      BY <1>4, <2>2, ReachableKept DEF AnswerHeld, Stamped, Ret
    <3> QED
      BY <3>1, <3>2 DEF LoopInv, ReplyInv
  <2> QED
    BY <1>5, <2>1, <2>2
<1>9. HandlerInv'
  BY <1>2, <1>8, OtherHandlers DEF HandlerInv
<1> QED
  BY <1>5, <1>6, <1>7, <1>9, UpIsMmInv DEF TalkInv

-----------------------------------------------------------------------------
(* What MM does by itself.                                                 *)

LEMMA AskedOf ==
  ASSUME Up, NEW op, Asked(op)
  PROVE  /\ mm.at = "dispatch" /\ MmFree /\ FsIdle /\ Caller \in User
         /\ IsRequest(Caller, mem[MM].type) /\ Pending(Caller, op)
BY DEF Up, Asked, MmAtStep, CanCall, TalkInv, HandlerInv, DispatchInv, FsInv, MmFree, Asking, Answered

(* A step that changes only where MM is.                                   *)
LEMMA ThinkingKeeps ==
  ASSUME Up, TableUnchanged, UNCHANGED lifecycle, OthersIdle, mm.at # "reparent", MmFree, FsIdle,
         mm' \in [at : MmAt, src : User \cup {0}, who : Slot \cup {0}, val : Status \cup {0, -1}],
         mm'.at \notin Asking \cup Answered,
         (\A u \in User : SameUser(u)) /\ MmFree' => HandlerInv'
  PROVE  MmInv'
<1> USE DEF Up
<1>1. /\ p_flags' = p_flags /\ p_recvfrom' = p_recvfrom /\ p_sendto' = p_sendto
      /\ q_sending' = q_sending /\ mem' = mem /\ panic' = panic /\ p_msg' = p_msg
      /\ has_int_msg' = has_int_msg /\ p_parent' = p_parent /\ exit_status' = exit_status
      /\ pc' = pc /\ fs' = fs /\ forks' = forks
  BY DEF TableUnchanged, lifecycle, OthersIdle
<1>2. SameLives
  BY <1>1 DEF SameLives
<1>3. TableInv'
  <2>1. QueueExact'
    BY <1>1, QueuesUnchanged DEF TableInv, Sending
  <2> QED
    BY <1>1, <2>1 DEF TableInv
<1>4. KinInv' /\ MmTypeOK'
  BY <1>1, <1>2, KinKept DEF MmTypeOK
<1>5. \A u \in User : SameUser(u)
  BY <1>1 DEF SameUser
<1>6. FsInv'
  BY <1>1 DEF TalkInv, FsInv, FsIdle
<1> QED
  BY <1>1, <1>3, <1>4, <1>5, <1>6, UserKept, UpIsMmInv DEF TalkInv, MmFree

LEMMA ForkNoSlotKeeps ==
  ASSUME Up, ForkNoSlot
  PROVE  MmInv'
<1>1. /\ Asked("FORK") /\ mm' = [at |-> "reply", src |-> Caller, who |-> 0, val |-> -1]
      /\ TableUnchanged /\ UNCHANGED lifecycle /\ OthersIdle
  BY DEF ForkNoSlot, MmIdle
<1>2. mm.at = "dispatch" /\ MmFree /\ FsIdle /\ Caller \in User /\ Pending(Caller, "FORK")
  BY <1>1, AskedOf
<1>3. mm' \in [at : MmAt, src : User \cup {0}, who : Slot \cup {0}, val : Status \cup {0, -1}]
  BY <1>1, <1>2 DEF MmAt
<1>4. ASSUME \A u \in User : SameUser(u), MmFree' PROVE HandlerInv'
  <2>1. MmReplyInv'
    BY <1>1, <1>2, <1>4, ReachableKept DEF MmReplyInv
  <2> QED
    BY <1>1, <2>1, OtherHandlers DEF HandlerInv
<1> QED
  BY <1>1, <1>2, <1>3, <1>4, ThinkingKeeps DEF Asking, Answered

LEMMA ExitBeginKeeps ==
  ASSUME Up, ExitBegin
  PROVE  MmInv'
<1>1. /\ Asked("EXIT")
      /\ mm' = [at |-> "exitfs", src |-> Caller, who |-> 0, val |-> mem[MM].type.val]
      /\ TableUnchanged /\ UNCHANGED lifecycle /\ OthersIdle
  BY DEF ExitBegin, MmIdle
<1>2. /\ mm.at = "dispatch" /\ MmFree /\ FsIdle /\ Pending(Caller, "EXIT")
      /\ Caller \in Slot /\ mem[MM].type.val \in Status
  BY <1>1, AskedOf DEF IsRequest, Asked
<1>3. mm' \in [at : MmAt, src : User \cup {0}, who : Slot \cup {0}, val : Status \cup {0, -1}]
  BY <1>1, <1>2, Numbers DEF MmAt
<1>4. ASSUME \A u \in User : SameUser(u), MmFree' PROVE HandlerInv'
  <2>1. ExitInv'
    BY <1>1, <1>2, <1>4, ReachableKept, Numbers DEF ExitInv
  <2> QED
    BY <1>1, <2>1, OtherHandlers DEF HandlerInv
<1> QED
  BY <1>1, <1>2, <1>3, <1>4, ThinkingKeeps DEF Asking, Answered

(* A child that is a zombie is a process of its own.                       *)
LEMMA ZombieChild ==
  ASSUME Up, NEW u \in User
  PROVE  Hanging(Children(u)) \subseteq Slot
<1> SUFFICES ASSUME NEW c \in Proc, p_parent[c] = u, HANGING \in p_flags[c] PROVE c \in Slot
  BY DEF Hanging, Children
<1>1. c \notin {FS, MM}
  BY DEF Up, KinInv
<1> QED
  BY <1>1, LifeOf, Numbers DEF Up, TalkInv

LEMMA WaitZombieKeeps ==
  ASSUME Up, WaitZombie
  PROVE  MmInv'
<1> DEFINE dead == Hanging(Children(Caller))
<1>1. /\ Asked("WAIT") /\ dead # {}
      /\ mm' = [at |-> "cleanup", src |-> 0, who |-> First(dead), val |-> 0]
      /\ TableUnchanged /\ UNCHANGED lifecycle /\ OthersIdle
  BY DEF WaitZombie, MmIdle
<1>2. mm.at = "dispatch" /\ MmFree /\ FsIdle /\ Caller \in User /\ Pending(Caller, "WAIT")
  BY <1>1, AskedOf
<1>u. PICK u \in User : u = Caller
  BY <1>2
<1>3. PICK c \in Slot : c = First(dead) /\ HANGING \in p_flags[c] /\ p_parent[c] = Caller
  <2>1. dead \in SUBSET Slot
    BY <1>2, ZombieChild
  <2> QED
    BY <1>1, <2>1, FirstOf DEF Hanging, Children
<1>4. c # Caller
  BY <1>2, <1>3, LifeOf DEF Up, TalkInv
<1>5. mm' \in [at : MmAt, src : User \cup {0}, who : Slot \cup {0}, val : Status \cup {0, -1}]
  BY <1>1, <1>3 DEF MmAt
<1>6. ASSUME \A x \in User : SameUser(x), MmFree' PROVE HandlerInv'
  <2>1. mm'.who = c /\ mm'.src = 0 /\ mm'.at = "cleanup" /\ p_parent'[c] = Caller
    BY <1>1, <1>3 DEF lifecycle
  <2>2. p_parent'[c] = u /\ Pending(u, "WAIT")' /\ HANGING \in p_flags'[c]
    BY <1>2, <1>u, <1>3, <1>6, <2>1, Numbers DEF SameUser, Pending
  <2>3. CleanupInv'
    BY <1>4, <1>u, <1>6, <2>1, <2>2 DEF CleanupInv
  <2> QED
    BY <2>1, <2>3, OtherHandlers DEF HandlerInv
<1> QED
  BY <1>1, <1>2, <1>5, <1>6, ThinkingKeeps DEF Asking, Answered

LEMMA ExecBeginKeeps ==
  ASSUME Up, ExecBegin
  PROVE  MmInv'
<1>1. /\ Asked("EXEC") /\ mm' = [at |-> "statfs", src |-> Caller, who |-> 0, val |-> 0]
      /\ TableUnchanged /\ UNCHANGED lifecycle /\ OthersIdle
  BY DEF ExecBegin, MmIdle
<1>2. mm.at = "dispatch" /\ MmFree /\ FsIdle /\ Caller \in User /\ Pending(Caller, "EXEC")
  BY <1>1, AskedOf
<1>3. mm' \in [at : MmAt, src : User \cup {0}, who : Slot \cup {0}, val : Status \cup {0, -1}]
  BY <1>1, <1>2 DEF MmAt
<1>4. ASSUME \A u \in User : SameUser(u), MmFree' PROVE HandlerInv'
  <2>1. ExecInv'
    BY <1>1, <1>2, <1>4, ReachableKept DEF ExecInv
  <2> QED
    BY <1>1, <2>1, OtherHandlers DEF HandlerInv
<1> QED
  BY <1>1, <1>2, <1>3, <1>4, ThinkingKeeps DEF Asking, Answered

LEMMA ExecFailKeeps ==
  ASSUME Up, ExecFail
  PROVE  MmInv'
<1>1. /\ mm.at \in {"openfs", "readfs"} /\ CanCall(MM) /\ mm' = [mm EXCEPT !.at = "reply", !.val = -1]
      /\ TableUnchanged /\ UNCHANGED lifecycle /\ OthersIdle
  BY DEF ExecFail, MmAtStep
<1>2. MmFree /\ FsIdle
  BY <1>1 DEF Up, TalkInv, FsInv, CanCall, MmFree, Answered
<1>3. /\ mm.src \in User /\ mm.who = 0 /\ Pending(mm.src, "EXEC")
      /\ mm \in [at : MmAt, src : User \cup {0}, who : Slot \cup {0}, val : Status \cup {0, -1}]
  BY <1>1 DEF Up, TalkInv, HandlerInv, ExecInv, MmTypeOK
<1>4. /\ mm'.at = "reply" /\ mm'.src = mm.src /\ mm'.val = -1
      /\ mm' \in [at : MmAt, src : User \cup {0}, who : Slot \cup {0}, val : Status \cup {0, -1}]
  BY <1>1, <1>3 DEF MmAt
<1>5. ASSUME \A u \in User : SameUser(u), MmFree' PROVE HandlerInv'
  <2>1. MmReplyInv'
    BY <1>3, <1>4, <1>5, ReachableKept DEF MmReplyInv
  <2> QED
    BY <1>4, <2>1, OtherHandlers DEF HandlerInv
<1> QED
  BY <1>1, <1>2, <1>4, <1>5, ThinkingKeeps DEF Asking, Answered

LEMMA ForkImageKeeps ==
  ASSUME Up, ForkImage
  PROVE  MmInv'
<1>1. /\ mm.at = "image" /\ mm' = [mm EXCEPT !.at = "forkfs"]
      /\ TableUnchanged /\ UNCHANGED lifecycle /\ OthersIdle
  BY DEF ForkImage, MmAtStep
<1>2. /\ MmFree /\ FsIdle /\ Born /\ Pending(mm.who, "FORK")
      /\ mm \in [at : MmAt, src : User \cup {0}, who : Slot \cup {0}, val : Status \cup {0, -1}]
  BY <1>1 DEF Up, TalkInv, FsInv, HandlerInv, ForkInv, MmTypeOK, Asking, Answered
<1>3. /\ mm'.at = "forkfs" /\ mm'.src = mm.src /\ mm'.who = mm.who /\ mm'.val = mm.val
      /\ mm' \in [at : MmAt, src : User \cup {0}, who : Slot \cup {0}, val : Status \cup {0, -1}]
  BY <1>1, <1>2 DEF MmAt
<1>4. ASSUME \A u \in User : SameUser(u), MmFree' PROVE HandlerInv'
  <2>1. \A u \in User : Pending(u, "FORK") => Pending(u, "FORK")'
    BY <1>4 DEF Pending, SameUser
  <2>2. Living(mm.who)' /\ p_parent'[mm.who] = mm.src
    BY <1>1, <1>2 DEF Born, Living, Used, TableUnchanged, lifecycle
  <2>3. ForkInv'
    BY <1>2, <1>3, <1>4, <2>1, <2>2, Numbers DEF ForkInv, Born
  <2> QED
    BY <1>3, <2>3, OtherHandlers DEF HandlerInv
<1> QED
  BY <1>1, <1>2, <1>3, <1>4, ThinkingKeeps DEF Asking, Answered

LEMMA ExecLoadKeeps ==
  ASSUME Up, ExecLoad
  PROVE  MmInv'
<1>1. /\ mm.at = "load" /\ CanCall(MM) /\ mm' = [mm EXCEPT !.at = "program"]
      /\ TableUnchanged /\ UNCHANGED lifecycle /\ OthersIdle
  BY DEF ExecLoad, MmAtStep
<1>2. MmFree /\ FsIdle
  BY <1>1 DEF Up, TalkInv, FsInv, CanCall, MmFree, Answered
<1>3. /\ mm.src \in User /\ mm.who = 0 /\ mm.val = 0 /\ Pending(mm.src, "EXEC")
      /\ mm \in [at : MmAt, src : User \cup {0}, who : Slot \cup {0}, val : Status \cup {0, -1}]
  BY <1>1 DEF Up, TalkInv, HandlerInv, ExecInv, MmTypeOK
<1>4. /\ mm'.at = "program" /\ mm'.src = mm.src /\ mm'.who = 0 /\ mm'.val = 0
      /\ mm' \in [at : MmAt, src : User \cup {0}, who : Slot \cup {0}, val : Status \cup {0, -1}]
  BY <1>1, <1>3 DEF MmAt
<1>5. ASSUME \A u \in User : SameUser(u), MmFree' PROVE HandlerInv'
  <2>1. ExecInv'
    BY <1>3, <1>4, <1>5, ReachableKept DEF ExecInv
  <2> QED
    BY <1>4, <2>1, OtherHandlers DEF HandlerInv
<1> QED
  BY <1>1, <1>2, <1>4, <1>5, ThinkingKeeps DEF Asking, Answered

(* The machine stops, or what becomes of it is not followed.               *)
LEMMA StopKeeps ==
  ASSUME Up, panic' \in {"NOMEM", "TORN"},
         UNCHANGED <<p_flags, p_recvfrom, p_sendto, p_msg, q_sending, has_int_msg, mem, lifecycle,
                     pc, forks, mm, fs>>
  PROVE  MmInv'
<1>1. /\ p_flags' = p_flags /\ p_recvfrom' = p_recvfrom /\ p_sendto' = p_sendto
      /\ q_sending' = q_sending /\ mem' = mem /\ p_msg' = p_msg
      /\ has_int_msg' = has_int_msg /\ p_parent' = p_parent /\ exit_status' = exit_status
      /\ pc' = pc /\ fs' = fs /\ forks' = forks /\ mm' = mm
  BY DEF lifecycle
<1>2. KinInv'
  BY <1>1, KinKept DEF Up, SameLives
<1>3. TableInv'
  <2>1. QueueExact'
    BY <1>1, QueuesUnchanged DEF Up, TableInv, Sending
  <2> QED
    BY <1>1, <2>1 DEF Up, TableInv
<1> QED
  BY <1>1, <1>2, <1>3 DEF Up, MmInv, MmTypeOK, OnlyExecDeadlocks

LEMMA ForkNoMemoryKeeps ==
  ASSUME Up, ForkNoMemory
  PROVE  MmInv'
BY StopKeeps DEF ForkNoMemory

LEMMA UserRunTornKeeps ==
  ASSUME Up, NEW u \in User, UserRunTorn(u)
  PROVE  MmInv'
BY StopKeeps DEF UserRunTorn

-----------------------------------------------------------------------------
(* What MM does to the lives of processes.                                 *)

(* A step of MM that sends and receives nothing, and changes the flags of  *)
(* no process to or from SENDING and RECEIVING.                            *)
QuietTable ==
  /\ UNCHANGED <<p_recvfrom, p_sendto, p_msg, q_sending, has_int_msg, mem, panic>>
  /\ p_flags'[MM] = p_flags[MM] /\ p_flags'[FS] = p_flags[FS]
  /\ \A x \in Proc : Sending(x)' <=> Sending(x)

LEMMA QuietKeeps ==
  ASSUME Up, QuietTable, fs' = fs, MmFree, FsIdle, mm'.at \notin Asking \cup Answered
  PROVE  panic' = "no" /\ TableInv' /\ FsInv' /\ MmFree'
<1> USE DEF Up, QuietTable
<1>1. QueueExact'
  BY QueuesUnchanged DEF TableInv
<1>2. TableInv'
  BY <1>1 DEF TableInv
<1>3. FsInv'
  BY DEF TalkInv, FsInv, FsIdle
<1> QED
  BY <1>2, <1>3 DEF MmFree

(* No zombie, no free slot and no orphan among the processes that live.    *)
LEMMA ExitMarkKeeps ==
  ASSUME Up, ExitMark
  PROVE  MmInv'
<1> USE DEF SENDING, RECEIVING, WAITING, HANGING, FREE_SLOT
<1>1. PICK p \in Slot, u \in User : p = mm.src /\ u = p_parent[p]
                                    /\ Pending(p, "EXIT") /\ Living(u) /\ Living(p)
  <2>1. mm.src \in Slot /\ Pending(mm.src, "EXIT")
    BY DEF Up, TalkInv, HandlerInv, ExitInv, ExitMark, MmAtStep
  <2>2. Living(mm.src)
    BY <2>1, LifeOf, Numbers DEF Up, TalkInv
  <2>3. p_parent[mm.src] \in User /\ Living(p_parent[mm.src])
    BY <2>1, <2>2 DEF Up, KinInv, Living, ExitMark, MmAtStep
  <2> QED
    BY <2>1, <2>2, <2>3
<1>2. /\ mm.at = "exit" /\ CanCall(MM)
      /\ exit_status' = [exit_status EXCEPT ![p] = mm.val]
      /\ \/ /\ WAITING \in p_flags[u]
            /\ p_flags' = [p_flags EXCEPT ![u] = @ \ {WAITING}]
            /\ mm' = [mm EXCEPT !.at = "cleanup", !.who = p]
         \/ /\ WAITING \notin p_flags[u]
            /\ p_flags' = [p_flags EXCEPT ![p] = @ \cup {HANGING}]
            /\ mm' = [mm EXCEPT !.at = "reparent"]
      /\ UNCHANGED <<p_recvfrom, p_sendto, p_msg, q_sending, has_int_msg, mem, panic,
                     p_parent, pc, forks, fs>>
  BY <1>1 DEF ExitMark, MmAtStep
<1>3. /\ FlagsOK /\ MmTypeOK /\ KinInv /\ mm.val \in Status /\ \A x \in User : UserInv(x)
      /\ MmFree /\ FsIdle
  BY <1>2 DEF Up, MmTypeOK, FlagsOK, TalkInv, HandlerInv, ExitInv, FsInv, CanCall, MmFree, Answered
<1>4. p \in User /\ p \in Proc /\ u \in Proc /\ p \notin {MM, FS, INIT} /\ u \notin {MM, FS}
      /\ INIT \in User
  BY <1>1, Numbers DEF User
<1>5. CASE WAITING \in p_flags[u]
  <2>1. /\ p_flags'[u] = p_flags[u] \ {WAITING} /\ \A x \in Proc \ {u} : p_flags'[x] = p_flags[x]
        /\ FlagsOK'
        /\ mm' = [mm EXCEPT !.at = "cleanup", !.who = p]
    BY <1>2, <1>3, <1>4, <1>5 DEF FlagsOK
  <2>a. /\ mm'.at = "cleanup" /\ mm'.who = p /\ mm'.src = p
        /\ mm' \in [at : MmAt, src : User \cup {0}, who : Slot \cup {0}, val : Status \cup {0, -1}]
    BY <1>1, <1>3, <2>1 DEF MmTypeOK, MmAt
  <2>2. u # p
    BY <1>1, <1>3, <1>4, <1>5 DEF Pending
  <2>3. Pending(u, "WAIT")' /\ UserInv(u)'
    <3>1. pc[u].op = "WAIT" /\ (\/ p_flags[u] = {WAITING} /\ pc[u].at = "sent"
                                \/ p_flags[u] = {RECEIVING, WAITING} /\ pc[u].at = "wait")
      BY <1>1, <1>3, <1>5 DEF UserInv
    <3>2. \/ p_flags'[u] = {} /\ pc[u].at = "sent"
          \/ p_flags'[u] = {RECEIVING} /\ pc[u].at = "wait"
      BY <2>1, <3>1
    <3> QED
      BY <1>1, <1>2, <1>3, <3>1, <3>2 DEF Pending, UserInv, Sending
  <2>4. QuietTable
    <3>1. \A x \in Proc : Sending(x)' <=> Sending(x)
      BY <2>1 DEF Sending
    <3> QED
      BY <1>2, <1>4, <2>1, <3>1, Numbers DEF QuietTable
  <2>5. panic' = "no" /\ TableInv' /\ FsInv' /\ MmFree'
    BY <1>2, <1>3, <2>a, <2>4, QuietKeeps DEF Asking, Answered
  <2>6. \A x \in User \ {u} : SameUser(x)
    BY <1>2, <2>1, Numbers DEF SameUser
  <2>7. KinInv'
    <3>1. \A x \in Proc : /\ Used(x)' <=> Used(x)
                          /\ Living(x)' <=> Living(x)
                          /\ HANGING \in p_flags'[x] <=> HANGING \in p_flags[x]
                          /\ WAITING \in p_flags'[x] => WAITING \in p_flags[x]
      BY <2>1 DEF Used, Living
    <3>2. \A x \in User : Hanging(Children(x))' = Hanging(Children(x))
      BY <1>2, <3>1 DEF Hanging, Children
    <3>3. \A s \in Slot : Used(s) => p_parent[s] \in User /\ Living(p_parent[s])
      BY <1>2, <1>3 DEF KinInv
    <3> QED
      BY <1>2, <1>3, <2>a, <3>1, <3>2, <3>3, Numbers DEF KinInv
  <2>8. MmTypeOK'
    BY <1>2, <1>3, <2>1, <2>a DEF MmTypeOK, FlagsOK
  <2>9. Pending(p, "EXIT")'
    BY <1>1, <1>4, <2>2, <2>6, ReachableKept
  <2>10. CleanupInv'
    BY <1>1, <1>2, <2>a, <2>2, <2>3, <2>5, <2>9 DEF CleanupInv
  <2>11. HandlerInv'
    BY <2>a, <2>10, OtherHandlers DEF HandlerInv
  <2> QED
    BY <1>3, <2>3, <2>5, <2>6, <2>7, <2>8, <2>11, UserKept, UpIsMmInv DEF TalkInv
<1>6. CASE WAITING \notin p_flags[u]
  <2>1. /\ p_flags'[p] = p_flags[p] \cup {HANGING} /\ \A x \in Proc \ {p} : p_flags'[x] = p_flags[x]
        /\ FlagsOK'
        /\ mm'.at = "reparent" /\ mm'.src = p
        /\ mm' \in [at : MmAt, src : User \cup {0}, who : Slot \cup {0}, val : Status \cup {0, -1}]
    BY <1>1, <1>2, <1>3, <1>4, <1>6 DEF FlagsOK, MmTypeOK, MmAt
  <2>2. UserInv(p)'
    <3>1. \/ p_flags'[p] = {HANGING} /\ pc[p].at = "sent"
          \/ p_flags'[p] = {RECEIVING, HANGING} /\ pc[p].at = "wait"
      BY <1>1, <2>1 DEF Pending
    <3> QED
      BY <1>1, <1>2, <1>3, <1>4, <2>1, <3>1 DEF Pending, UserInv, Sending
  <2>3. QuietTable
    <3>1. \A x \in Proc : Sending(x)' <=> Sending(x)
      BY <2>1 DEF Sending
    <3> QED
      BY <1>2, <1>4, <2>1, <3>1, Numbers DEF QuietTable
  <2>4. panic' = "no" /\ TableInv' /\ FsInv' /\ MmFree'
    BY <1>2, <1>3, <2>1, <2>3, QuietKeeps DEF Asking, Answered
  <2>5. \A x \in User \ {p} : SameUser(x)
    BY <1>2, <2>1, Numbers DEF SameUser
  <2>6. KinInv'
    <3>1. \A x \in Proc : /\ Used(x)' <=> Used(x)
                          /\ x # p => (Living(x)' <=> Living(x))
                          /\ x # p => (HANGING \in p_flags'[x] <=> HANGING \in p_flags[x])
                          /\ WAITING \in p_flags'[x] <=> WAITING \in p_flags[x]
      BY <2>1 DEF Used, Living
    <3>2. ASSUME NEW x \in User, WAITING \in p_flags'[x] PROVE Hanging(Children(x))' = {}
      <4>1. Hanging(Children(x)) = {} /\ x # u
        BY <1>3, <1>6, <3>1, <3>2, Numbers DEF KinInv
      <4> QED
        BY <1>1, <1>2, <3>1, <4>1 DEF Hanging, Children
    <3>3. ASSUME NEW s \in Slot, Used(s)'
          PROVE  /\ p_parent'[s] \in User
                 /\ Living(p_parent[s])' \/ (mm'.at = "reparent" /\ p_parent'[s] = mm'.src)
      <4>1. Used(s) /\ p_parent[s] \in User /\ Living(p_parent[s])
        BY <1>2, <1>3, <3>1, <3>3, Numbers DEF KinInv
      <4> QED
        BY <1>2, <2>1, <3>1, <4>1, Numbers
    <3>4. \A x \in {MM, FS, INIT} : p_parent'[x] \notin User
      BY <1>2, <1>3 DEF KinInv
    <3> QED
      BY <3>2, <3>3, <3>4 DEF KinInv
  <2>7. MmTypeOK'
    BY <1>2, <1>3, <2>1 DEF MmTypeOK, FlagsOK
  <2>8. ExitInv'
    BY <2>1, <2>4 DEF ExitInv
  <2>9. HandlerInv'
    BY <2>1, <2>8, OtherHandlers DEF HandlerInv
  <2> QED
    BY <1>3, <2>2, <2>4, <2>5, <2>6, <2>7, <2>9, UserKept, UpIsMmInv DEF TalkInv
<1> QED
  BY <1>5, <1>6

LEMMA ExitReparentKeeps ==
  ASSUME Up, ExitReparent
  PROVE  MmInv'
<1> USE DEF SENDING, RECEIVING, WAITING, HANGING, FREE_SLOT
<1>1. PICK p \in Slot : p = mm.src
  BY DEF Up, TalkInv, HandlerInv, ExitInv, ExitReparent, MmAtStep
<1> DEFINE kids == Children(p)
           dead == Hanging(kids)
<1>2. /\ mm.at = "reparent" /\ CanCall(MM)
      /\ p_parent' = [c \in Proc |-> IF c \in kids THEN INIT ELSE p_parent[c]]
      /\ \/ /\ WAITING \in p_flags[INIT] /\ dead # {}
            /\ p_flags' = [p_flags EXCEPT ![INIT] = @ \ {WAITING}]
            /\ mm' = [at |-> "cleanup", src |-> 0, who |-> First(dead), val |-> 0]
         \/ /\ WAITING \notin p_flags[INIT] \/ dead = {}
            /\ p_flags' = p_flags
            /\ mm' = MmIdle
      /\ UNCHANGED <<p_recvfrom, p_sendto, p_msg, q_sending, has_int_msg, mem, panic,
                     exit_status, pc, forks, fs>>
  BY <1>1 DEF ExitReparent, MmAtStep, MmIdle
<1>3. /\ FlagsOK /\ MmTypeOK /\ KinInv /\ \A x \in User : UserInv(x)
      /\ MmFree /\ FsIdle
  BY <1>2 DEF Up, MmTypeOK, FlagsOK, TalkInv, HandlerInv, ExitInv, FsInv, Asking, Answered
<1>4. /\ p \in User /\ p \in Proc /\ INIT \in User /\ INIT \in Proc /\ INIT \notin Slot
      /\ INIT \notin {MM, FS} /\ \A s \in Slot : s \in User /\ s \in Proc
  BY <1>1, Numbers
<1>5. kids \subseteq Slot /\ dead \subseteq Slot
  BY <1>1, <1>3, <1>4, Numbers DEF Children, Hanging, KinInv, User
<1>6. Living(INIT)
  BY <1>3, <1>4, LifeOf DEF Living, Used
<1>7. /\ \A c \in kids : p_parent'[c] = INIT
      /\ \A c \in Proc \ kids : p_parent'[c] = p_parent[c] /\ p_parent[c] # p
  BY <1>2 DEF Children
<1>8. /\ p_flags'[INIT] = p_flags[INIT] \ {WAITING} \/ p_flags'[INIT] = p_flags[INIT]
      /\ \A x \in Proc \ {INIT} : p_flags'[x] = p_flags[x]
      /\ FlagsOK'
  BY <1>2, <1>3, <1>4 DEF FlagsOK
<1>9. \A x \in Proc : /\ Used(x)' <=> Used(x)
                      /\ Living(x)' <=> Living(x)
                      /\ Sending(x)' <=> Sending(x)
                      /\ HANGING \in p_flags'[x] <=> HANGING \in p_flags[x]
                      /\ WAITING \in p_flags'[x] => WAITING \in p_flags[x]
  BY <1>8 DEF Used, Living, Sending
<1>10. mm'.at \in {"loop", "cleanup"}
  BY <1>2 DEF MmIdle
<1>11. panic' = "no" /\ TableInv' /\ FsInv' /\ MmFree'
  <2>1. QuietTable
    BY <1>2, <1>4, <1>8, <1>9, Numbers DEF QuietTable
  <2> QED
    BY <1>2, <1>3, <1>10, <2>1, QuietKeeps DEF Asking, Answered
<1>12. KinInv'
  <2>1. ASSUME NEW s \in Slot, Used(s)'
        PROVE  p_parent'[s] \in User /\ Living(p_parent[s])'
    <3>1. CASE s \in kids
      BY <1>4, <1>6, <1>7, <1>9, <3>1
    <3>2. CASE s \notin kids
      <4>1. p_parent'[s] = p_parent[s] /\ p_parent[s] # p /\ p_parent[s] \in User /\ Living(p_parent[s])
        BY <1>1, <1>3, <1>4, <1>7, <1>9, <2>1, <3>2 DEF KinInv
      <4> QED
        BY <1>9, <4>1, Numbers
    <3> QED
      BY <3>1, <3>2
  <2>2. ASSUME NEW x \in User, WAITING \in p_flags'[x] PROVE Hanging(Children(x))' = {}
    <3>1. Hanging(Children(x)) = {}
      BY <1>3, <1>9, <2>2, Numbers DEF KinInv
    <3>2. CASE x # INIT
      BY <1>7, <1>9, <3>1, <3>2 DEF Hanging, Children
    <3>3. CASE x = INIT
      <4>1. dead = {}
        BY <1>2, <1>3, <1>4, <2>2, <3>3 DEF FlagsOK
      <4> QED
        BY <1>7, <1>9, <3>1, <3>3, <4>1 DEF Hanging, Children
    <3> QED
      BY <3>2, <3>3
  <2>3. \A x \in {MM, FS, INIT} : p_parent'[x] \notin User
    BY <1>3, <1>4, <1>5, <1>7, Numbers DEF KinInv
  <2> QED
    BY <2>1, <2>2, <2>3 DEF KinInv
<1>13. p_parent' \in [Proc -> User \cup {TASK_TTY, NO_TASK}]
  BY <1>2, <1>3, <1>4 DEF MmTypeOK
<1>14. CASE WAITING \in p_flags[INIT] /\ dead # {} /\ mm' # MmIdle
  <2>1. /\ p_flags'[INIT] = p_flags[INIT] \ {WAITING}
        /\ mm' = [at |-> "cleanup", src |-> 0, who |-> First(dead), val |-> 0]
    BY <1>2, <1>3, <1>4, <1>14 DEF FlagsOK
  <2>2. PICK c \in Slot : c = First(dead) /\ c \in kids /\ HANGING \in p_flags[c]
    <3>1. dead \in SUBSET Slot
      BY <1>5
    <3> QED
      BY <1>14, <3>1, FirstOf DEF Hanging
  <2>3. /\ mm'.at = "cleanup" /\ mm'.src = 0 /\ mm'.who = c /\ p_parent'[c] = INIT
        /\ mm' \in [at : MmAt, src : User \cup {0}, who : Slot \cup {0}, val : Status \cup {0, -1}]
    BY <1>7, <2>1, <2>2 DEF MmAt
  <2>4. Pending(INIT, "WAIT")' /\ UserInv(INIT)'
    <3>1. pc[INIT].op = "WAIT" /\ (\/ p_flags[INIT] = {WAITING} /\ pc[INIT].at = "sent"
                                   \/ p_flags[INIT] = {RECEIVING, WAITING} /\ pc[INIT].at = "wait")
      BY <1>3, <1>4, <1>14 DEF UserInv
    <3>2. \/ p_flags'[INIT] = {} /\ pc[INIT].at = "sent"
          \/ p_flags'[INIT] = {RECEIVING} /\ pc[INIT].at = "wait"
      BY <2>1, <3>1
    <3> QED
      BY <1>2, <1>3, <1>4, <3>1, <3>2 DEF Pending, UserInv, Sending
  <2>5. \A x \in User \ {INIT} : SameUser(x)
    BY <1>2, <1>8, Numbers DEF SameUser
  <2>6. HANGING \in p_flags'[c] /\ c # INIT
    BY <1>4, <1>9, <2>2
  <2>7. CleanupInv'
    BY <1>11, <2>3, <2>4, <2>6 DEF CleanupInv
  <2>8. HandlerInv'
    BY <2>3, <2>7, OtherHandlers DEF HandlerInv
  <2>9. MmTypeOK'
    BY <1>2, <1>3, <1>8, <1>13, <2>3 DEF MmTypeOK, FlagsOK
  <2> QED
    BY <1>3, <1>11, <1>12, <2>4, <2>5, <2>8, <2>9, UserKept, UpIsMmInv DEF TalkInv
<1>15. CASE mm' = MmIdle
  <2>1. p_flags' = p_flags
    BY <1>2, <1>15 DEF MmIdle
  <2>2. \A x \in User : SameUser(x)
    BY <1>2, <2>1 DEF SameUser
  <2>3. MmTypeOK'
    BY <1>2, <1>3, <1>8, <1>13, <1>15 DEF MmTypeOK, FlagsOK, MmIdle, MmAt
  <2>4. HandlerInv'
    BY <1>11, <1>15, OtherHandlers DEF HandlerInv, LoopInv, MmIdle
  <2> QED
    BY <1>3, <1>11, <1>12, <2>2, <2>3, <2>4, UserKept, UpIsMmInv DEF TalkInv
<1> QED
  BY <1>2, <1>14, <1>15

LEMMA CleanupFreeKeeps ==
  ASSUME Up, CleanupFree
  PROVE  MmInv'
<1> USE DEF SENDING, RECEIVING, WAITING, HANGING, FREE_SLOT
<1>1. PICK c \in Slot : /\ c = mm.who /\ p_parent[c] # c
                        /\ mm.src \in {0, c} /\ (mm.src = 0 => HANGING \in p_flags[c])
                        /\ (Pending(c, "EXIT") \/ HANGING \in p_flags[c])
  <2>1. CleanupInv /\ mm.at = "free"
    BY DEF Up, TalkInv, HandlerInv, CleanupFree, MmAtStep
  <2>2. /\ mm.who \in Slot /\ p_parent[mm.who] # mm.who
        /\ \/ mm.src = mm.who /\ Pending(mm.who, "EXIT")
           \/ mm.src = 0 /\ HANGING \in p_flags[mm.who]
    BY <2>1 DEF CleanupInv
  <2>3. mm.who # 0
    BY <2>2, Numbers
  <2> QED
    BY <2>2, <2>3
<1>2. /\ mm.at = "free" /\ CanCall(MM)
      /\ p_flags' = [p_flags EXCEPT ![c] = {FREE_SLOT}]
      /\ mm' = IF mm.src = c THEN [mm EXCEPT !.at = "reparent"] ELSE MmIdle
      /\ UNCHANGED <<p_recvfrom, p_sendto, p_msg, q_sending, has_int_msg, mem, panic,
                     p_parent, exit_status, pc, forks, fs>>
  BY <1>1 DEF CleanupFree, MmAtStep, lifecycle
<1>3. /\ FlagsOK /\ MmTypeOK /\ KinInv /\ \A x \in User : UserInv(x)
      /\ MmFree /\ FsIdle
  BY <1>2 DEF Up, MmTypeOK, FlagsOK, TalkInv, FsInv, CanCall, MmFree, Asking, Answered
<1>4. c \in User /\ c \in Proc /\ c \notin {MM, FS, INIT} /\ 0 \notin Slot
  BY Numbers
<1>5. /\ p_flags'[c] = {FREE_SLOT} /\ \A x \in Proc \ {c} : p_flags'[x] = p_flags[x]
      /\ FlagsOK' /\ ~Sending(c)
  BY <1>1, <1>2, <1>3, <1>4, LifeOf DEF FlagsOK
<1>6. \A x \in Proc : /\ x # c => ((Used(x)' <=> Used(x)) /\ (Living(x)' <=> Living(x)))
                      /\ Sending(x)' <=> Sending(x)
                      /\ HANGING \in p_flags'[x] => HANGING \in p_flags[x]
                      /\ WAITING \in p_flags'[x] => WAITING \in p_flags[x]
  BY <1>5 DEF Used, Living, Sending
<1>7. /\ mm' \in [at : MmAt, src : User \cup {0}, who : Slot \cup {0}, val : Status \cup {0, -1}]
      /\ \/ mm'.at = "reparent" /\ mm'.src = c /\ mm.src = c
         \/ mm'.at = "loop" /\ mm.src = 0
  BY <1>1, <1>2, <1>3, <1>4 DEF MmTypeOK, MmIdle, MmAt
<1>8. panic' = "no" /\ TableInv' /\ FsInv' /\ MmFree'
  <2>1. QuietTable
    BY <1>2, <1>4, <1>5, <1>6, Numbers DEF QuietTable
  <2> QED
    BY <1>2, <1>3, <1>7, <2>1, QuietKeeps DEF Asking, Answered
<1>9. KinInv'
  <2>1. ASSUME NEW s \in Slot, Used(s)'
        PROVE  /\ p_parent'[s] \in User
               /\ Living(p_parent[s])' \/ (mm'.at = "reparent" /\ p_parent'[s] = mm'.src)
    <3>1. s # c
      BY <1>5, <2>1 DEF Used
    <3>2. p_parent'[s] = p_parent[s] /\ p_parent[s] \in User /\ Living(p_parent[s])
      BY <1>2, <1>3, <1>6, <2>1, <3>1, Numbers DEF KinInv
    <3>3. CASE p_parent[s] = c
      <4>1. mm.src # 0
        BY <1>1, <3>2, <3>3 DEF Living
      <4> QED
        BY <1>7, <3>2, <3>3, <4>1
    <3>4. CASE p_parent[s] # c
      BY <1>6, <3>2, <3>4, Numbers
    <3> QED
      BY <3>3, <3>4
  <2>2. ASSUME NEW x \in User, WAITING \in p_flags'[x] PROVE Hanging(Children(x))' = {}
    BY <1>2, <1>3, <1>6, <2>2, Numbers DEF KinInv, Hanging, Children
  <2>3. \A x \in {MM, FS, INIT} : p_parent'[x] \notin User
    BY <1>2, <1>3 DEF KinInv
  <2> QED
    BY <2>1, <2>2, <2>3 DEF KinInv
<1>10. MmTypeOK'
  BY <1>2, <1>3, <1>5, <1>7 DEF MmTypeOK, FlagsOK
<1>11. \A x \in User : UserInv(x)'
  <2>1. \A x \in User \ {c} : SameUser(x)
    BY <1>2, <1>5, Numbers DEF SameUser
  <2>2. UserInv(c)'
    BY <1>1, <1>2, <1>3, <1>4, <1>5, <1>6 DEF UserInv, Pending
  <2> QED
    BY <1>3, <2>1, <2>2, UserKept
<1>12. HandlerInv'
  <2>1. LoopInv' /\ ExitInv'
    BY <1>5, <1>7, <1>8 DEF LoopInv, ExitInv
  <2> QED
    BY <1>7, <2>1, OtherHandlers DEF HandlerInv
<1> QED
  BY <1>8, <1>9, <1>10, <1>11, <1>12, UpIsMmInv DEF TalkInv

LEMMA WaitForChildKeeps ==
  ASSUME Up, WaitForChild
  PROVE  MmInv'
<1> USE DEF SENDING, RECEIVING, WAITING, HANGING, FREE_SLOT
<1>1. /\ Asked("WAIT") /\ Hanging(Children(Caller)) = {}
      /\ p_flags' = [p_flags EXCEPT ![Caller] = @ \cup {WAITING}]
      /\ mm' = MmIdle
      /\ UNCHANGED <<p_recvfrom, p_sendto, p_msg, q_sending, has_int_msg, mem, panic,
                     p_parent, exit_status, pc, forks, fs>>
  BY DEF WaitForChild, lifecycle
<1>2. PICK u \in User : u = Caller /\ Pending(u, "WAIT")
  BY <1>1, AskedOf
<1>3. /\ mm.at = "dispatch" /\ MmFree /\ FsIdle
      /\ FlagsOK /\ MmTypeOK /\ KinInv /\ \A x \in User : UserInv(x)
  BY <1>1, AskedOf DEF Up, MmTypeOK, FlagsOK, TalkInv
<1>4. u \in Proc /\ u \notin {MM, FS}
  BY Numbers
<1>5. /\ p_flags'[u] = p_flags[u] \cup {WAITING} /\ \A x \in Proc \ {u} : p_flags'[x] = p_flags[x]
      /\ FlagsOK'
  BY <1>1, <1>2, <1>3, <1>4 DEF FlagsOK
<1>6. \A x \in Proc : /\ Used(x)' <=> Used(x)
                      /\ Living(x)' <=> Living(x)
                      /\ Sending(x)' <=> Sending(x)
                      /\ HANGING \in p_flags'[x] <=> HANGING \in p_flags[x]
  BY <1>5 DEF Used, Living, Sending
<1>7. mm'.at = "loop"
  BY <1>1 DEF MmIdle
<1>8. panic' = "no" /\ TableInv' /\ FsInv' /\ MmFree'
  <2>1. QuietTable
    BY <1>1, <1>4, <1>5, <1>6, Numbers DEF QuietTable
  <2> QED
    BY <1>1, <1>3, <1>7, <2>1, QuietKeeps DEF Asking, Answered
<1>9. KinInv'
  <2>1. ASSUME NEW s \in Slot, Used(s)'
        PROVE  p_parent'[s] \in User /\ Living(p_parent[s])'
    <3>1. p_parent[s] \in User /\ Living(p_parent[s])
      BY <1>3, <1>6, <2>1, Numbers DEF KinInv
    <3> QED
      BY <1>1, <1>6, <3>1, Numbers
  <2>2. ASSUME NEW x \in User, WAITING \in p_flags'[x] PROVE Hanging(Children(x))' = {}
    <3>1. Hanging(Children(x)) = {}
      BY <1>1, <1>2, <1>3, <1>5, <2>2, Numbers DEF KinInv
    <3> QED
      BY <1>1, <1>6, <3>1 DEF Hanging, Children
  <2>3. \A x \in {MM, FS, INIT} : p_parent'[x] \notin User
    BY <1>1, <1>3 DEF KinInv
  <2> QED
    BY <1>1, <2>1, <2>2, <2>3 DEF KinInv
<1>10. MmTypeOK'
  BY <1>1, <1>3, <1>5 DEF MmTypeOK, FlagsOK, MmIdle, MmAt
<1>11. \A x \in User : UserInv(x)'
  <2>1. \A x \in User \ {u} : SameUser(x)
    BY <1>1, <1>5, Numbers DEF SameUser
  <2>2. \/ p_flags'[u] = {WAITING} /\ pc[u].at = "sent"
        \/ p_flags'[u] = {RECEIVING, WAITING} /\ pc[u].at = "wait"
    BY <1>2, <1>5 DEF Pending
  <2>3. UserInv(u)'
    BY <1>1, <1>2, <1>3, <2>2 DEF UserInv, Pending, Sending
  <2> QED
    BY <1>3, <2>1, <2>3, UserKept
<1>12. HandlerInv'
  BY <1>7, <1>8, OtherHandlers DEF HandlerInv, LoopInv
<1> QED
  BY <1>8, <1>9, <1>10, <1>11, <1>12, UpIsMmInv DEF TalkInv

LEMMA ExecEnterKeeps ==
  ASSUME Up, ExecEnter
  PROVE  MmInv'
<1> USE DEF SENDING, RECEIVING, WAITING, HANGING, FREE_SLOT
<1>1. PICK u \in User : u = mm.src /\ Pending(u, "EXEC") /\ mm.who = 0 /\ mm.val = 0
  BY DEF Up, TalkInv, HandlerInv, ExecInv, ExecEnter, MmAtStep
<1>2. /\ mm.at = "program" /\ CanCall(MM)
      /\ pc' = [pc EXCEPT ![u] = Running] /\ mm' = [mm EXCEPT !.at = "reply"]
      /\ UNCHANGED <<p_recvfrom, p_sendto, p_msg, q_sending, has_int_msg, mem, panic>>
      /\ UNCHANGED <<p_flags, p_parent, exit_status, forks, fs>>
  BY <1>1 DEF ExecEnter, MmAtStep, TableUnchanged, lifecycle
<1>3. /\ FlagsOK /\ MmTypeOK /\ KinInv /\ MmFree /\ FsIdle /\ \A x \in User : UserInv(x)
  BY <1>2 DEF Up, MmTypeOK, FlagsOK, TalkInv, FsInv, CanCall, MmFree, Asking, Answered
<1>4. /\ mm'.at = "reply" /\ mm'.src = u /\ mm'.who = 0 /\ mm'.val = 0
      /\ mm' \in [at : MmAt, src : User \cup {0}, who : Slot \cup {0}, val : Status \cup {0, -1}]
  BY <1>1, <1>2, <1>3 DEF MmTypeOK, MmAt
<1>5. pc'[u] = Running /\ \A x \in User \ {u} : pc'[x] = pc[x]
  BY <1>2, <1>3 DEF MmTypeOK
<1>6. panic' = "no" /\ TableInv' /\ FsInv' /\ MmFree'
  <2>1. QuietTable
    BY <1>2 DEF QuietTable, Sending
  <2> QED
    BY <1>2, <1>3, <1>4, <2>1, QuietKeeps DEF Asking, Answered
<1>7. KinInv'
  <2>1. SameLives
    BY <1>2 DEF SameLives
  <2> QED
    BY <1>2, <1>3, <2>1, KinKept
<1>8. MmTypeOK'
  <2>1. pc' \in [User -> [at : {"run", "sent", "wait", "spin"},
                          op : {"FORK", "EXIT", "WAIT", "EXEC", "none"}]]
    BY <1>2, <1>3 DEF MmTypeOK, Running
  <2> QED
    BY <1>2, <1>3, <1>4, <2>1 DEF MmTypeOK
<1>9. \A x \in User : UserInv(x)'
  <2>1. \A x \in User \ {u} : SameUser(x)
    BY <1>2, <1>5 DEF SameUser
  <2>2. UserInv(u)'
    BY <1>1, <1>2, <1>3, <1>5 DEF UserInv, Pending, Sending, Running
  <2> QED
    BY <1>3, <2>1, <2>2, UserKept
<1>10. MmReplyInv'
  <2>1. Restarted(u)'
    BY <1>1, <1>2, <1>5 DEF Pending, Restarted
  <2> QED
    BY <1>4, <1>6, <2>1 DEF MmReplyInv
<1>11. HandlerInv'
  BY <1>4, <1>10, OtherHandlers DEF HandlerInv
<1> QED
  BY <1>6, <1>7, <1>8, <1>9, <1>11, UpIsMmInv DEF TalkInv

LEMMA ForkCopyKeeps ==
  ASSUME Up, ForkCopy
  PROVE  MmInv'
<1> USE DEF SENDING, RECEIVING, WAITING, HANGING, FREE_SLOT
<1>1. /\ Asked("FORK") /\ FreeSlots # {}
      /\ mm.at = "dispatch" /\ MmFree /\ FsIdle /\ Caller \in User /\ Pending(Caller, "FORK")
  BY AskedOf DEF ForkCopy
<1>2. PICK p \in User, c \in Slot : p = Caller /\ c = LowestFree /\ p_flags[c] = {FREE_SLOT}
  <2>1. FreeSlots \in SUBSET Slot
    BY DEF FreeSlots
  <2> QED
    BY <1>1, <2>1, FirstOf DEF LowestFree, FreeSlots
<1>3. /\ p_flags' = [p_flags EXCEPT ![c] = p_flags[p]]
      /\ p_recvfrom' = [p_recvfrom EXCEPT ![c] = p_recvfrom[p]]
      /\ p_sendto' = [p_sendto EXCEPT ![c] = p_sendto[p]]
      /\ p_msg' = [p_msg EXCEPT ![c] = p_msg[p]]
      /\ q_sending' = [q_sending EXCEPT ![c] = q_sending[p]]
      /\ has_int_msg' = [has_int_msg EXCEPT ![c] = has_int_msg[p]]
      /\ mem' = [mem EXCEPT ![c] = mem[p]]
      /\ exit_status' = [exit_status EXCEPT ![c] = exit_status[p]]
      /\ p_parent' = [p_parent EXCEPT ![c] = p]
      /\ pc' = [pc EXCEPT ![c] = pc[p]]
      /\ mm' = [at |-> "image", src |-> p, who |-> c, val |-> 0]
      /\ panic' = panic /\ forks' = forks /\ fs' = fs
  BY <1>2 DEF ForkCopy, MmIdle
<1>4. /\ FlagsOK /\ MmTypeOK /\ TableInv /\ KinInv /\ \A x \in User : UserInv(x)
      /\ panic = "no" /\ FsInv
  BY DEF Up, MmTypeOK, FlagsOK, TalkInv
<1>5. /\ p \in Proc /\ c \in Proc /\ c \in User /\ p \notin {MM, FS} /\ c \notin {MM, FS, INIT}
      /\ MM \in Proc /\ FS \in Proc
  BY Numbers
<1>6. /\ Pending(p, "FORK") /\ Living(p) /\ ~Sending(p) /\ c # p /\ ~Living(c)
      /\ p_flags[p] \in {{}, {RECEIVING}}
  BY <1>1, <1>2, <1>4, LifeOf DEF Living, Used, Pending
<1>7. /\ p_flags'[c] = p_flags[p] /\ \A x \in Proc \ {c} : p_flags'[x] = p_flags[x]
      /\ FlagsOK'
  BY <1>3, <1>4, <1>5 DEF FlagsOK
<1>8. \A x \in User \ {c} : SameUser(x)
  BY <1>3, <1>5, <1>7, Numbers DEF SameUser
<1>9. \A x \in Proc : /\ Used(x)' <=> (Used(x) \/ x = c)
                      /\ Living(x)' <=> (Living(x) \/ x = c)
                      /\ Sending(x)' <=> Sending(x)
                      /\ HANGING \in p_flags'[x] <=> HANGING \in p_flags[x]
                      /\ WAITING \in p_flags'[x] <=> WAITING \in p_flags[x]
  BY <1>2, <1>6, <1>7 DEF Used, Living, Sending
<1>10. TableInv'
  <2>1. \A x \in Proc : Sending(x) => p_sendto[x] = MM
    BY <1>1, <1>4, Numbers DEF MmFree, FsIdle, Sending, UserInv
  <2>2. ASSUME NEW d \in {p, c} PROVE q_sending[d] = << >>
    <3>1. q_sending[d] \in Seq(Proc)
      BY <1>4, <1>5, <2>2 DEF TableInv
    <3>2. \A i \in 1..Len(q_sending[d]) : Sending(q_sending[d][i]) /\ p_sendto[q_sending[d][i]] = d
      BY <1>4, <1>5, <2>2, <3>1, ElementOfSeq DEF TableInv, QueueExact
    <3>3. \A i \in 1..Len(q_sending[d]) : q_sending[d][i] \in Proc
      BY <3>1
    <3>4. 1 \notin 1..Len(q_sending[d])
      BY <1>5, <2>1, <2>2, <3>2, <3>3
    <3> QED
      BY <3>1, <3>4
  <2>3. q_sending' = q_sending
    BY <1>3, <1>4, <1>5, <2>2 DEF TableInv
  <2>4. \A x \in Proc, d \in Proc :
           (Sending(x)' /\ p_sendto'[x] = d) <=> (Sending(x) /\ p_sendto[x] = d)
    BY <1>2, <1>3, <1>9 DEF Sending
  <2>5. QueueExact'
    <3> SUFFICES ASSUME NEW d \in Proc
                 PROVE  /\ \A x \in Proc :
                             (Sending(x)' /\ p_sendto'[x] = d)
                               <=> \E i \in 1..Len(q_sending[d]) : q_sending[d][i] = x
                        /\ \A i, j \in 1..Len(q_sending[d]) :
                             q_sending[d][i] = q_sending[d][j] => i = j
      BY <2>3 DEF QueueExact
    <3>1. QueueExact
      BY <1>4 DEF TableInv
    <3> QED
      BY <2>4, <3>1 DEF QueueExact
  <2>6. has_int_msg' = [x \in Proc |-> 0]
    BY <1>3, <1>4, <1>5 DEF TableInv
  <2>7. DOMAIN mem' = Proc /\ \A x \in Proc : "source" \in DOMAIN mem'[x]
    BY <1>3, <1>4, <1>5 DEF TableInv
  <2> QED
    BY <1>3, <1>4, <2>3, <2>5, <2>6, <2>7 DEF TableInv
<1>11. KinInv'
  <2>a. p_parent'[c] = p /\ \A x \in Proc \ {c} : p_parent'[x] = p_parent[x]
    BY <1>3, <1>4, <1>5 DEF MmTypeOK
  <2>1. ASSUME NEW s \in Slot, Used(s)'
        PROVE  p_parent'[s] \in User /\ Living(p_parent[s])'
    <3>1. CASE s = c
      BY <1>5, <1>6, <1>9, <2>a, <3>1
    <3>2. CASE s # c
      <4>1. p_parent'[s] = p_parent[s] /\ p_parent[s] \in User /\ Living(p_parent[s])
        BY <1>1, <1>4, <1>9, <2>1, <2>a, <3>2, Numbers DEF KinInv
      <4> QED
        BY <1>9, <4>1, Numbers
    <3> QED
      BY <3>1, <3>2
  <2>2. ASSUME NEW x \in User, WAITING \in p_flags'[x] PROVE Hanging(Children(x))' = {}
    <3>1. Hanging(Children(x)) = {}
      BY <1>4, <1>9, <2>2, Numbers DEF KinInv
    <3> QED
      BY <1>2, <1>9, <2>a, <3>1 DEF Hanging, Children
  <2>3. \A x \in {MM, FS, INIT} : p_parent'[x] \notin User
    BY <1>4, <1>5, <2>a, Numbers DEF KinInv
  <2> QED
    BY <2>1, <2>2, <2>3 DEF KinInv
<1>12. MmTypeOK'
  <2>1. mm' \in [at : MmAt, src : User \cup {0}, who : Slot \cup {0}, val : Status \cup {0, -1}]
    BY <1>3 DEF MmAt
  <2>2. /\ p_parent' \in [Proc -> User \cup {TASK_TTY, NO_TASK}]
        /\ exit_status' \in [Proc -> Status \cup {0}]
        /\ pc' \in [User -> [at : {"run", "sent", "wait", "spin"},
                             op : {"FORK", "EXIT", "WAIT", "EXEC", "none"}]]
    BY <1>3, <1>4, <1>5 DEF MmTypeOK
  <2> QED
    BY <1>3, <1>4, <1>7, <2>1, <2>2 DEF MmTypeOK, FlagsOK
<1>13. /\ pc'[c] = pc[p] /\ pc'[p] = pc[p] /\ mem'[c] = mem[p] /\ p_recvfrom'[c] = p_recvfrom[p]
       /\ p_flags'[p] = p_flags[p]
  BY <1>3, <1>4, <1>5, <1>6, <1>7 DEF MmTypeOK, TableInv
<1>14. \A x \in User : UserInv(x)'
  <2>1. UserInv(c)'
    BY <1>4, <1>6, <1>7, <1>9, <1>13 DEF UserInv, Pending, Sending
  <2> QED
    BY <1>4, <1>8, <2>1, UserKept
<1>15. FsInv' /\ MmFree'
  BY <1>1, <1>3, <1>4, <1>5, <1>7 DEF FsInv, FsIdle, MmFree, Asking, Answered, TableInv
<1>16. ForkInv'
  <2>1. Pending(p, "FORK")' /\ Pending(c, "FORK")'
    BY <1>6, <1>7, <1>13 DEF Pending
  <2>2. /\ mm'.at = "image" /\ mm'.src = p /\ mm'.who = c /\ mm'.val = 0
        /\ p_parent'[c] = p /\ Living(c)'
    BY <1>3, <1>4, <1>5, <1>9 DEF MmTypeOK
  <2> QED
    BY <1>6, <1>15, <2>1, <2>2 DEF ForkInv, Born
<1>17. HandlerInv'
  BY <1>3, <1>16, OtherHandlers DEF HandlerInv
<1> QED
  BY <1>3, <1>4, <1>10, <1>11, <1>12, <1>14, <1>15, <1>17, UpIsMmInv DEF TalkInv

-----------------------------------------------------------------------------
(* The inductive invariant.                                                *)

LEMMA MmInitInv == MmInit => MmInv
<1> SUFFICES ASSUME MmInit PROVE MmInv
  OBVIOUS
<1> USE DEF MmInit, SENDING, RECEIVING, WAITING, HANGING, FREE_SLOT
<1>1. MmTypeOK
  BY Numbers, MmAssumption DEF MmTypeOK, Running, MmIdle, MmAt
<1>2. TableInv
  BY DEF TableInv, QueueExact, Sending
<1>3. KinInv
  BY Numbers, PseudoProcAssumption DEF KinInv, Used, User
<1>4. \A u \in User : UserInv(u)
  BY Numbers DEF UserInv, Running, Sending, User
<1>5. FsInv /\ HandlerInv
  <2>1. FsInv
    BY Numbers DEF FsInv, MmIdle, Asking, Answered, FsIdle
  <2>2. HandlerInv
    BY Numbers DEF HandlerInv, MmIdle, LoopInv, DispatchInv, ForkInv, MmReplyInv, ExitInv,
                   CleanupInv, ExecInv, MmFree
  <2> QED
    BY <2>1, <2>2
<1> QED
  BY <1>1, <1>2, <1>3, <1>4, <1>5 DEF MmInv, TalkInv, OnlyExecDeadlocks

(* Nothing happens once the machine is down.                               *)
LEMMA OnlyWhenUp ==
  ASSUME MmInv, MmNext
  PROVE  Up
<1>1. \A p \in Proc : \A x, m : SendStep(p, x, m) => panic = "no"
  BY DEF SendStep, SendDeadlock, SendDeliver, SendBlock, CanCall
<1>2. \A p \in Proc : \A x : ReceiveStep(p, x) => panic = "no"
  BY DEF ReceiveStep, ReceiveInterrupt, ReceiveFetch, ReceiveBlock, CanCall
<1>3. CASE FsStep
  BY <1>1, <1>2, <1>3, Numbers DEF FsStep, FsReceive, FsReply, FsSuspend, CanCall, MmInv, Up
<1>4. ASSUME NEW u \in User, UserStep(u) PROVE panic = "no"
  BY <1>1, <1>2, <1>4, Numbers DEF UserStep, UserSend, UserReceive, UserRunTorn, UserReturn, CanCall
<1>5. CASE MmReceive \/ MmReply
  BY <1>1, <1>2, <1>5, Numbers DEF MmReceive, MmReply, MmSend, MmAwait, MmInv, Up
<1>6. CASE ForkStep
  BY <1>1, <1>2, <1>6, Numbers
     DEF ForkStep, ForkNoSlot, ForkNoMemory, ForkCopy, ForkImage, ForkTellFs, ForkFsDone,
         ForkBirth, Asked, MmAtStep, CanCall, MmSend, MmAwait, MmInv, Up
<1>7. CASE ExitStep
  BY <1>1, <1>2, <1>7, Numbers
     DEF ExitStep, ExitBegin, ExitTellFs, ExitFsDone, ExitMark, ExitReparent,
         Asked, MmAtStep, CanCall, MmSend, MmAwait, MmInv, Up
<1>8. CASE CleanupStep \/ WaitStep
  BY <1>1, <1>2, <1>8, Numbers
     DEF CleanupStep, CleanupTell, CleanupFree, WaitStep, WaitZombie, WaitForChild, WaitNoChild,
         Asked, MmAtStep, CanCall, MmSend, MmInv, Up
<1>9. CASE ExecStep
  BY <1>1, <1>2, <1>9, Numbers
     DEF ExecStep, ExecBegin, ExecStat, ExecStatDone, ExecFail, ExecOpen, ExecOpenDone,
         ExecRead, ExecReadDone, ExecLoad, ExecEnter, Asked, MmAtStep, CanCall, MmSend, MmAwait, MmInv, Up
<1> QED
  BY <1>3, <1>4, <1>5, <1>6, <1>7, <1>8, <1>9 DEF MmNext, MmStep, MmInv, Up

LEMMA MmStepInv == MmInv /\ [MmNext]_mmvars => MmInv'
<1> SUFFICES ASSUME MmInv, [MmNext]_mmvars PROVE MmInv'
  OBVIOUS
<1>1. CASE UNCHANGED mmvars
  <2>1. KinInv'
    BY <1>1, KinKept DEF mmvars, MmInv, SameLives
  <2>2. TableInv'
    <3>1. QueueExact'
      BY <1>1, QueuesUnchanged DEF mmvars, MmInv, TableInv, Sending
    <3> QED
      BY <1>1, <3>1 DEF mmvars, MmInv, TableInv
  <2>3. MmTypeOK' /\ OnlyExecDeadlocks'
    BY <1>1 DEF mmvars, MmInv, MmTypeOK, OnlyExecDeadlocks, Sending
  <2>4. ASSUME TalkInv PROVE TalkInv'
    <3>1. \A u \in User : UserInv(u)'
      BY <1>1, <2>4, UserKept DEF mmvars, TalkInv, SameUser
    <3>2. FsInv'
      BY <1>1, <2>4 DEF mmvars, TalkInv, FsInv, FsIdle, FsServes, FsAnswers, MmFree, MmSendsTo
    <3>3. Undisturbed
      BY <1>1 DEF mmvars, Undisturbed, lifecycle, SameLives, SameMm, Pending, Restarted, Running
    <3>4. HandlerInv'
      BY <2>4, <3>3, HandlersUndisturbed DEF TalkInv, MmInv
    <3> QED
      BY <3>1, <3>2, <3>4 DEF TalkInv
  <2>5. panic' = panic
    BY <1>1 DEF mmvars
  <2> QED
    BY <2>1, <2>2, <2>3, <2>4, <2>5 DEF MmInv
<1>2. CASE MmNext
  <2>1. Up
    BY <1>2, OnlyWhenUp
  <2>2. CASE FsStep
    BY <2>1, <2>2, FsReceiveKeeps, FsReplyKeeps, FsSuspendKeeps DEF FsStep
  <2>3. ASSUME NEW u \in User, UserStep(u) PROVE MmInv'
    BY <2>1, <2>3, UserSendKeeps, UserReceiveKeeps, UserRunTornKeeps, UserReturnKeeps DEF UserStep
  <2>4. CASE MmReceive \/ MmReply
    BY <2>1, <2>4, MmReceiveKeeps, MmReplyKeeps
  <2>5. CASE ForkStep
    BY <2>1, <2>5, ForkNoSlotKeeps, ForkNoMemoryKeeps, ForkCopyKeeps, ForkImageKeeps,
       FsTalkKeeps, ForkBirthKeeps DEF ForkStep
  <2>6. CASE ExitStep
    BY <2>1, <2>6, ExitBeginKeeps, FsTalkKeeps, ExitMarkKeeps, ExitReparentKeeps DEF ExitStep
  <2>7. CASE CleanupStep \/ WaitStep
    BY <2>1, <2>7, CleanupTellKeeps, CleanupFreeKeeps, WaitZombieKeeps, WaitForChildKeeps,
       WaitNoChildKeeps DEF CleanupStep, WaitStep
  <2>8. CASE ExecStep
    BY <2>1, <2>8, ExecBeginKeeps, FsTalkKeeps, ExecFailKeeps, ExecLoadKeeps, ExecEnterKeeps
       DEF ExecStep
  <2> QED
    BY <1>2, <2>2, <2>3, <2>4, <2>5, <2>6, <2>7, <2>8 DEF MmNext, MmStep
<1> QED
  BY <1>1, <1>2

(* Wherever MM is, the process table, the families and the conversations   *)
(* of MM with its callers and with FS are in the state MmInv says.         *)
THEOREM MmInvariance == MmSpec => []MmInv
<1> QED
  BY MmInitInv, MmStepInv, PTL DEF MmSpec

(* do_fork(), do_exit() and do_wait() keep families in order, for any      *)
(* number of slots: whenever MM is ready for a request every process has a *)
(* living parent, and nobody sleeps in wait() with a zombie child.         *)
THEOREM FamiliesInOrder == MmSpec => []FamilyInv
<1>1. MmInv => FamilyInv
  BY DEF MmInv, FamilyInv, LivingParents, NoMissedExit, KinInv
<1> QED
  BY <1>1, MmInvariance, PTL

(* Of all that processes may ask of MM, in whatever order, only an exec()  *)
(* that replaces a program in front of its RECEIVE brings the kernel to    *)
(* panic over a circle of senders.                                         *)
THEOREM DeadlocksAreExecs == MmSpec => []OnlyExecDeadlocks
<1>1. MmInv => OnlyExecDeadlocks
  BY DEF MmInv
<1> QED
  BY <1>1, MmInvariance, PTL

-----------------------------------------------------------------------------
(* What MM tells a process is true.                                        *)

(* What ReplyTruthStep says of the reply r to u.                           *)
Truth(u, r) ==
  /\ pc[u].op # "EXIT"
  /\ pc[u].op = "FORK" /\ r.val = 0 =>
       \/ r.pid = 0 /\ Living(p_parent[u]) /\ pc[p_parent[u]].op = "FORK"
       \/ r.pid \in Slot /\ p_parent[r.pid] = u /\ Living(r.pid)
  /\ pc[u].op = "WAIT" =>
       IF r.pid = NO_TASK THEN \A s \in Slot : p_parent[s] = u => ~Used(s)
       ELSE p_parent[r.pid] = u /\ mm.who = r.pid /\ exit_status[r.pid] = r.val

LEMMA SendTells ==
  ASSUME TableInv, NEW p \in Proc, NEW dest, NEW t, SendStep(p, dest, t)
  PROVE  /\ p_flags[p] = {} /\ mem'[p].source = p
         /\ \A x \in Proc \ {p} :
              mem'[x] = mem[x] \/ (x = dest /\ RECEIVING \in p_flags[x] /\ mem'[x] = Stamped(p, t))
BY DEF SendStep, SendDeadlock, SendDeliver, SendBlock, CanCall, Awaits, TableInv, Stamped

(* MM's answer to u, who does not hear it unless he is in his RECEIVE.     *)
LEMMA AnswerIsTrue ==
  ASSUME Up, NEW u \in User, NEW m, SendStep(MM, u, m),
         RECEIVING \in p_flags[u] => Truth(u, m), NEW x \in User, Told(x)
  PROVE  Truth(x, mem'[x].type)
<1>1. TableInv /\ MM \in Proc /\ u \in Proc /\ x \in Proc /\ x # MM
  BY Numbers DEF Up
<1>2. x = u /\ RECEIVING \in p_flags[u] /\ mem'[x] = Stamped(MM, m)
  BY <1>1, SendTells DEF Told
<1> QED
  BY <1>2 DEF Stamped

LEMMA MmAnswersTruly ==
  ASSUME Up, MmReply \/ ForkBirth \/ CleanupTell \/ WaitNoChild, NEW x \in User, Told(x)
  PROVE  Truth(x, mem'[x].type)
<1> USE DEF SENDING, RECEIVING, WAITING, HANGING, FREE_SLOT
<1>0. /\ TableInv /\ MmTypeOK /\ KinInv /\ HandlerInv /\ \A y \in User : UserInv(y)
      /\ MM \in Proc /\ NO_TASK \notin Slot
  BY Numbers DEF Up, TalkInv
<1>1. CASE MmReply
  <2>1. mm.at = "reply" /\ SendStep(MM, mm.src, Ret(mm.who, mm.val))
    BY <1>1 DEF MmReply, MmSend
  <2>2. MmReplyInv /\ mm.src \in User
    BY <1>0, <2>1 DEF HandlerInv, MmReplyInv
  <2>3. p_flags[MM] = {}
    BY <1>0, <2>1, <2>2, SendTells, Numbers
  <2>4. ASSUME RECEIVING \in p_flags[mm.src] PROVE Truth(mm.src, Ret(mm.who, mm.val))
    <3>1. CASE mm.val = -1 /\ (Pending(mm.src, "FORK") \/ Pending(mm.src, "EXEC"))
      BY <3>1 DEF Truth, Ret, Pending
    <3>2. CASE Born
      BY <3>2 DEF Truth, Ret, Born, Pending
    <3>3. CASE Restarted(mm.src)
      BY <2>4, <3>3 DEF Truth, Restarted, Running
    <3> QED
      BY <2>1, <2>2, <2>3, <3>1, <3>2, <3>3 DEF MmReplyInv, MmSendsTo
  <2> QED
    BY <2>1, <2>2, <2>4, AnswerIsTrue
<1>2. CASE ForkBirth
  <2>1. mm.at = "birth" /\ SendStep(MM, mm.who, Ret(0, 0))
    BY <1>2 DEF ForkBirth, MmSend
  <2>2. Born /\ Pending(mm.who, "FORK")
    BY <1>0, <2>1 DEF HandlerInv, ForkInv
  <2>3. mm.who \in User /\ Living(mm.src)
    BY <1>0, <2>2, LifeOf, Numbers DEF Born
  <2>4. Truth(mm.who, Ret(0, 0))
    BY <2>2, <2>3 DEF Truth, Ret, Born, Pending
  <2> QED
    BY <2>1, <2>3, <2>4, AnswerIsTrue
<1>3. CASE CleanupTell
  <2>1. mm.at = "cleanup" /\ SendStep(MM, p_parent[mm.who], Ret(mm.who, exit_status[mm.who]))
    BY <1>3 DEF CleanupTell, MmSend
  <2>2. /\ mm.who \in Slot /\ Pending(p_parent[mm.who], "WAIT")
        /\ Pending(mm.who, "EXIT") \/ HANGING \in p_flags[mm.who]
    BY <1>0, <2>1 DEF HandlerInv, CleanupInv
  <2>3. p_parent[mm.who] \in User
    <3>1. Used(mm.who)
      BY <1>0, <2>2, LifeOf, Numbers DEF Living
    <3> QED
      BY <1>0, <2>2, <3>1 DEF KinInv
  <2>4. Truth(p_parent[mm.who], Ret(mm.who, exit_status[mm.who]))
    BY <1>0, <2>2 DEF Truth, Ret, Pending
  <2> QED
    BY <2>1, <2>3, <2>4, AnswerIsTrue
<1>4. CASE WaitNoChild
  <2>1. Asked("WAIT") /\ Children(Caller) = {} /\ SendStep(MM, Caller, Ret(NO_TASK, 0))
    BY <1>4 DEF WaitNoChild
  <2>2. Caller \in User /\ Pending(Caller, "WAIT")
    BY <2>1, AskedOf
  <2>3. Truth(Caller, Ret(NO_TASK, 0))
    BY <2>1, <2>2, Numbers DEF Truth, Ret, Pending, Children
  <2> QED
    BY <2>1, <2>2, <2>3, AnswerIsTrue
<1> QED
  BY <1>1, <1>2, <1>3, <1>4

(* The answer that u comes to fetch was true when MM was blocked with it,  *)
(* and nothing has changed since.                                          *)
LEMMA FetchedIsTrue ==
  ASSUME Up, NEW u \in User, UserReceive(u), NEW x \in User, Told(x)
  PROVE  Truth(x, mem'[x].type)
<1> USE DEF SENDING, RECEIVING, WAITING, HANGING, FREE_SLOT
<1>0. /\ TableInv /\ MmTypeOK /\ FlagsOK /\ KinInv /\ HandlerInv /\ \A y \in User : UserInv(y)
      /\ MM \in Proc /\ u \in Proc /\ u # MM /\ x \in Proc /\ NO_TASK \notin Slot /\ u # FS
  BY Numbers DEF Up, TalkInv, MmTypeOK, FlagsOK
<1>1. pc[u].at = "sent" /\ ReceiveStep(u, MM)
  BY DEF UserReceive
<1>2. Waits(u, MM) \/ \E from \in Proc : Taken(u, MM, from)
  BY <1>0, <1>1, ReceiveOutcome
<1>3. /\ x = u /\ Sending(MM) /\ p_sendto[MM] = u /\ mem'[u] = mem[MM]
  <2>1. CASE Waits(u, MM)
    BY <1>0, <2>1 DEF Waits, Told
  <2>2. ASSUME NEW from \in Proc, Taken(u, MM, from)
        PROVE  x = u /\ Sending(MM) /\ p_sendto[MM] = u /\ mem'[u] = mem[MM]
    BY <1>0, <2>2, Numbers DEF Taken, Told
  <2> QED
    BY <1>2, <2>1, <2>2
<1>4. MmAnswers(u)
  BY <1>0, <1>3, MmBlocked DEF MmFree, MmReceiving, MmAsksFs, MmAnswers, MmSendsTo, Sending
<1> SUFFICES Truth(u, mem[MM].type)
  BY <1>3
<1>5. CASE mm.at = "loop" /\ ReplyInv(u)
  <2> DEFINE r == mem[MM].type
  <2>1. ~Replaced(u)
    BY <1>1 DEF Replaced, Running
  <2>2. \A op : Reachable(u, op) => pc[u].op = op
    BY DEF Reachable
  <2>3. \/ pc[u].op = "FORK" /\ r.val = -1
        \/ /\ pc[u].op = "FORK" /\ r.val = 0
           /\ r.pid \in Slot /\ p_parent[r.pid] = u /\ Living(r.pid)
        \/ pc[u].op = "WAIT" /\ r.pid = NO_TASK /\ \A s \in Slot : p_parent[s] = u => ~Used(s)
        \/ pc[u].op = "EXEC"
    BY <1>5, <2>1, <2>2 DEF ReplyInv
  <2> QED
    BY <2>3 DEF Truth
<1>6. CASE mm.at = "reply" /\ Born /\ u = mm.who /\ Reachable(u, "FORK")
  <2>1. mem[MM].type.pid = 0 /\ Living(mm.src)
    BY <1>0, <1>3, <1>6, LifeOf DEF HandlerInv, MmReplyInv, Born, Sending, MmFree
  <2> QED
    BY <1>6, <2>1 DEF Truth, Reachable, Born, Pending
<1>7. CASE mm.at = "free" /\ u = p_parent[mm.who] /\ Reachable(u, "WAIT")
  <2>1. mm.who \in Slot /\ mem[MM].type = Ret(mm.who, exit_status[mm.who])
    BY <1>0, <1>3, <1>7 DEF HandlerInv, CleanupInv, MmFree, Sending
  <2> QED
    BY <1>0, <1>7, <2>1 DEF Truth, Reachable, Ret
<1> QED
  BY <1>3, <1>4, <1>5, <1>6, <1>7 DEF MmAnswers

LEMMA ReceiveTells ==
  ASSUME TableInv, NEW p \in Proc, NEW src, ReceiveStep(p, src)
  PROVE  p_flags[p] = {} /\ \A x \in Proc \ {p} : mem'[x] = mem[x]
BY DEF ReceiveStep, ReceiveInterrupt, ReceiveFetch, ReceiveBlock, CanCall, TableInv

LEMMA OthersTellNothing ==
  ASSUME Up, MmNext, NEW x \in User, Told(x)
  PROVE  \/ MmReply \/ ForkBirth \/ CleanupTell \/ WaitNoChild
         \/ \E u \in User : UserReceive(u)
<1>0. /\ TableInv /\ FS \in Proc /\ MM \in Proc /\ FS # MM /\ x \in Proc /\ x # FS /\ x # MM
      /\ \A u \in User : u \in Proc /\ u # MM
  BY Numbers DEF Up
<1>1. mem'[x] # mem[x] /\ mem'[x].source = MM
  BY DEF Told
<1>2. \A p \in Proc \ {MM} : \A d, m : ~SendStep(p, d, m)
  <2> SUFFICES ASSUME NEW p \in Proc \ {MM}, NEW d, NEW m, SendStep(p, d, m) PROVE FALSE
    OBVIOUS
  <2>1. mem'[p].source = p /\ (x # p => mem'[x] = Stamped(p, m))
    BY <1>0, <1>1, SendTells
  <2>2. Stamped(p, m).source = p
    BY DEF Stamped
  <2> QED
    BY <1>1, <2>1, <2>2
<1>3. \A m : ~SendStep(MM, FS, m)
  BY <1>0, <1>1, SendTells
<1>4. \A p \in {FS, MM} : \A s : ~ReceiveStep(p, s)
  BY <1>0, <1>1, ReceiveTells
<1>5. ~FsStep
  <2>1. ~FsSuspend
    BY <1>1 DEF FsSuspend
  <2> QED
    BY <1>0, <1>2, <1>4, <2>1 DEF FsStep, FsReceive, FsReply
<1>6. ASSUME NEW u \in User, UserStep(u) PROVE UserReceive(u)
  BY <1>0, <1>1, <1>2, <1>6 DEF UserStep, UserSend, UserRunTorn, UserReturn
<1>7. ~(\/ MmReceive \/ ForkTellFs \/ ForkFsDone \/ ExitTellFs \/ ExitFsDone
        \/ ExecStat \/ ExecStatDone \/ ExecOpen \/ ExecOpenDone \/ ExecRead \/ ExecReadDone)
  BY <1>3, <1>4 DEF MmReceive, ForkTellFs, ForkFsDone, ExitTellFs, ExitFsDone, ExecStat,
     ExecStatDone, ExecOpen, ExecOpenDone, ExecRead, ExecReadDone, MmSend, MmAwait
<1>8. ~(\/ ForkNoSlot \/ ForkNoMemory \/ ExitBegin \/ ExitMark \/ ExitReparent \/ CleanupFree
        \/ WaitZombie \/ WaitForChild \/ ExecBegin \/ ExecFail \/ ExecLoad \/ ExecEnter
        \/ ForkImage)
  BY <1>1 DEF ForkNoSlot, ForkNoMemory, ExitBegin, ExitMark, ExitReparent, CleanupFree,
     WaitZombie, WaitForChild, ExecBegin, ExecFail, ExecLoad, ExecEnter, ForkImage, TableUnchanged
<1>9. ~ForkCopy
  <2> SUFFICES ASSUME ForkCopy PROVE FALSE
    OBVIOUS
  <2>1. Caller \in User /\ Pending(Caller, "FORK") /\ UserInv(Caller)
    BY AskedOf DEF ForkCopy, Up, TalkInv
  <2>2. mem[Caller].source # MM
    BY <2>1 DEF UserInv, Pending, RECEIVING
  <2>3. mem' = [mem EXCEPT ![LowestFree] = mem[Caller]]
    BY DEF ForkCopy
  <2> QED
    BY <1>0, <1>1, <2>2, <2>3 DEF TableInv
<1> QED
  BY <1>5, <1>6, <1>7, <1>8, <1>9 DEF MmNext, MmStep, ForkStep, ExitStep, CleanupStep, WaitStep, ExecStep

(* What MM tells a process is true when the process gets it, however long  *)
(* MM was blocked with it: fork() yields a living child of the caller, and *)
(* 0 in the child; wait() yields a dead child of the caller with its       *)
(* status, or no child if there is none; exit() yields nothing.            *)
THEOREM RepliesAreTrue == MmSpec => ReplyTruth
<1>1. MmInv /\ [MmNext]_mmvars => [ReplyTruthStep]_mmvars
  <2> SUFFICES ASSUME MmInv, MmNext, NEW x \in User, Told(x) PROVE Truth(x, mem'[x].type)
    BY DEF ReplyTruthStep, Truth
  <2>1. Up
    BY OnlyWhenUp
  <2> QED
    BY <2>1, OthersTellNothing, MmAnswersTruly, FetchedIsTrue
<1> QED
  BY <1>1, MmInvariance, PTL DEF MmSpec, ReplyTruth

-----------------------------------------------------------------------------
(* Who gets a message is runnable.                                         *)

LEMMA WhoIsBlocked ==
  ASSUME Up, MmNext
  PROVE  /\ panic' = "no" \/ p_flags' = p_flags
         /\ RECEIVING \in p_flags[FS] => fs' = fs
         /\ RECEIVING \in p_flags[MM] => mm' = mm
         /\ \A u \in User : RECEIVING \in p_flags[u] => pc'[u] \in {pc[u], Running}
<1> USE DEF RECEIVING, FREE_SLOT
<1>0. /\ panic = "no" /\ FS \in Proc /\ MM \in Proc /\ \A u \in User : u \in Proc
      /\ pc \in [User -> [at : {"run", "sent", "wait", "spin"},
                          op : {"FORK", "EXIT", "WAIT", "EXEC", "none"}]]
  BY Numbers DEF Up, MmTypeOK
<1>1. \A p \in Proc : \A x, m : SendStep(p, x, m) =>
         p_flags[p] = {} /\ (panic' = "no" \/ p_flags' = p_flags)
  BY <1>0 DEF SendStep, SendDeadlock, SendDeliver, SendBlock, CanCall
<1>2. \A p \in Proc : \A x : ReceiveStep(p, x) => p_flags[p] = {} /\ panic' = "no"
  BY <1>0 DEF ReceiveStep, ReceiveInterrupt, ReceiveFetch, ReceiveBlock, CanCall
<1>3. CASE FsStep
  BY <1>0, <1>1, <1>2, <1>3 DEF FsStep, FsReceive, FsReply, FsSuspend, CanCall
<1>4. ASSUME NEW u \in User, UserStep(u)
      PROVE  /\ p_flags[u] = {} /\ (panic' = "no" \/ p_flags' = p_flags)
             /\ mm' = mm /\ fs' = fs /\ \A x \in User \ {u} : pc'[x] = pc[x]
  BY <1>0, <1>1, <1>2, <1>4 DEF UserStep, UserSend, UserReceive, UserRunTorn, UserReturn, CanCall
<1>5. CASE MmReceive \/ MmReply
  BY <1>0, <1>1, <1>2, <1>5 DEF MmReceive, MmReply, MmSend, MmAwait, OthersIdle
<1>6. CASE ForkCopy
  <2>1. PICK c \in Slot : c = LowestFree /\ p_flags[c] = {FREE_SLOT}
    <3>1. FreeSlots \in SUBSET Slot /\ FreeSlots # {}
      BY <1>6 DEF FreeSlots, ForkCopy
    <3> QED
      BY <3>1, FirstOf DEF LowestFree, FreeSlots
  <2>2. /\ p_flags[MM] = {} /\ panic' = panic /\ fs' = fs
        /\ pc' = [pc EXCEPT ![c] = pc[Caller]]
    BY <1>6, <2>1 DEF ForkCopy, Asked, MmAtStep, CanCall
  <2> QED
    BY <1>0, <2>1, <2>2
<1>7. CASE ForkNoSlot \/ ForkNoMemory \/ ForkImage \/ ForkTellFs \/ ForkFsDone \/ ForkBirth
  BY <1>0, <1>1, <1>2, <1>7
     DEF ForkNoSlot, ForkNoMemory, ForkImage, ForkTellFs, ForkFsDone, ForkBirth, Asked, MmAtStep, CanCall,
         MmSend, MmAwait, OthersIdle, TableUnchanged
<1>8. CASE ExitStep
  BY <1>0, <1>1, <1>2, <1>8
     DEF ExitStep, ExitBegin, ExitTellFs, ExitFsDone, ExitMark, ExitReparent, Asked, MmAtStep,
         CanCall, MmSend, MmAwait, OthersIdle, TableUnchanged
<1>9. CASE CleanupStep \/ WaitStep
  BY <1>0, <1>1, <1>2, <1>9
     DEF CleanupStep, CleanupTell, CleanupFree, WaitStep, WaitZombie, WaitForChild, WaitNoChild,
         Asked, MmAtStep, CanCall, MmSend, OthersIdle, TableUnchanged
<1>10. CASE ExecEnter
  <2>1. /\ p_flags[MM] = {} /\ panic' = panic /\ fs' = fs
        /\ pc' = [pc EXCEPT ![mm.src] = Running]
    BY <1>10 DEF ExecEnter, MmAtStep, CanCall, TableUnchanged
  <2> QED
    BY <1>0, <2>1
<1>11. CASE \/ ExecBegin \/ ExecStat \/ ExecStatDone \/ ExecFail \/ ExecOpen \/ ExecOpenDone
            \/ ExecRead \/ ExecReadDone \/ ExecLoad
  BY <1>0, <1>1, <1>2, <1>11
     DEF ExecBegin, ExecStat, ExecStatDone, ExecFail, ExecOpen, ExecOpenDone, ExecRead,
         ExecReadDone, ExecLoad, Asked, MmAtStep, CanCall, MmSend, MmAwait, OthersIdle, TableUnchanged
<1> QED
  BY <1>3, <1>4, <1>5, <1>6, <1>7, <1>8, <1>9, <1>10, <1>11 DEF MmNext, MmStep, ForkStep, ExecStep

(* Whoever gets a message is runnable, whatever he was blocked for and     *)
(* whatever MM had made of his flags in the meantime: nobody stays WAITING *)
(* or HANGING behind a message that he has received (the assertions of     *)
(* msg_send() and unblock() hold).                                         *)
THEOREM MessagesMakeRunnable == MmSpec => MessageMakesRunnable
<1>1. MmInv /\ MmInv' /\ [MmNext]_mmvars => [RunnableStep]_mmvars
  <2> USE DEF SENDING, RECEIVING, WAITING, HANGING, FREE_SLOT
  <2> SUFFICES ASSUME MmInv, MmInv', MmNext, NEW p \in Proc,
                      RECEIVING \in p_flags[p], RECEIVING \notin p_flags'[p]
               PROVE  p_flags'[p] \in {{}, {FREE_SLOT}}
    BY DEF RunnableStep
  <2>1. Up
    BY OnlyWhenUp
  <2>2. panic' = "no" /\ Up'
    BY <2>1, WhoIsBlocked DEF MmInv, Up
  <2>3. CASE p = FS
    <3>1. FsInv /\ FsInv' /\ fs' = fs
      BY <2>1, <2>2, <2>3, WhoIsBlocked DEF Up, TalkInv
    <3> QED
      BY <2>3, <3>1 DEF FsInv, FsIdle, FsServes, FsAnswers
  <2>4. CASE p = MM
    <3>1. mm' = mm
      BY <2>1, <2>4, WhoIsBlocked
    <3>2. MmReceiving
      BY <2>1, <2>4, MmBlocked DEF MmFree, MmReceiving, MmAsksFs, MmAnswers, MmSendsTo
    <3> QED
      BY <2>2, <2>4, <3>1, <3>2
         DEF Up, TalkInv, HandlerInv, DispatchInv, FsInv, MmFree, MmReceiving
  <2>5. CASE p \in User
    <3>1. UserInv(p) /\ UserInv(p)' /\ pc'[p] \in {pc[p], Running}
      BY <2>1, <2>2, <2>5, WhoIsBlocked DEF Up, TalkInv
    <3>2. pc[p].at # "sent" /\ pc'[p].at # "sent"
      BY <3>1 DEF UserInv, Running
    <3> QED
      BY <3>1, <3>2 DEF UserInv
  <2> QED
    BY <2>3, <2>4, <2>5, Numbers
<1> QED
  BY <1>1, MmInvariance, PTL DEF MmSpec, MessageMakesRunnable

-----------------------------------------------------------------------------
(* MM implements Family.                                                   *)

Parent(s) ==
  IF ~Used(s) THEN NO_TASK ELSE IF Exiting(p_parent[s]) THEN INIT ELSE p_parent[s]
ExitStatus(s) == IF Life(s) = "zombie" THEN exit_status[s] ELSE 0

SameFamily(s) ==
  Life(s)' = Life(s) /\ Parent(s)' = Parent(s) /\ ExitStatus(s)' = ExitStatus(s)

LEMMA FamilyStutters ==
  ASSUME \A s \in Slot : SameFamily(s)
  PROVE  UNCHANGED Families!vars
<1>1. \A s \in Slot : Parent(s)' = Parent(s)
  BY DEF SameFamily
<1>2. \A s \in Slot : ExitStatus(s)' = ExitStatus(s)
  BY DEF SameFamily
<1>3. \A s \in Slot : Life(s)' = Life(s)
  BY DEF SameFamily
<1>4. [s \in Slot |-> Life(s)]' = [s \in Slot |-> Life(s)]
  BY <1>3
<1>5. [s \in Slot |-> Parent(s)]' = [s \in Slot |-> Parent(s)]
  BY <1>1
<1>6. [s \in Slot |-> ExitStatus(s)]' = [s \in Slot |-> ExitStatus(s)]
  BY <1>2
<1> QED
  BY <1>4, <1>5, <1>6 DEF Families!vars, Parent, ExitStatus

(* Of what a SEND or a RECEIVE changes, Family sees nothing.               *)
SameLot == \A x \in Proc : /\ Used(x)' <=> Used(x)
                           /\ HANGING \in p_flags'[x] <=> HANGING \in p_flags[x]

LEMMA TalkKeepsLot ==
  ASSUME FlagsOK, NEW p \in Proc, NEW x,
         ReceiveStep(p, x) \/ \E m : SendStep(p, x, m)
  PROVE  SameLot
<1> USE DEF SENDING, RECEIVING, HANGING, FREE_SLOT, FlagsOK, SameLot, Used
<1>1. CASE ReceiveStep(p, x)
  BY <1>1 DEF ReceiveStep, ReceiveInterrupt, ReceiveFetch, ReceiveBlock
<1>2. ASSUME NEW m, SendStep(p, x, m) PROVE SameLot
  BY <1>2 DEF SendStep, SendDeadlock, SendDeliver, SendBlock
<1> QED
  BY <1>1, <1>2

(* The steps that are none of Family's.                                    *)
Elsewhere == {"cleanup", "free", "reparent"}
Aside ==
  /\ UNCHANGED <<p_parent, exit_status>> /\ SameLot
  /\ \/ mm' = mm
     \/ mm.at = "cleanup" /\ mm'.at = "free" /\ mm'.src = mm.src /\ mm'.who = mm.who
     \/ mm.at \notin Elsewhere /\ mm'.at \notin Elsewhere
     \/ /\ mm.at = "dispatch" /\ mm'.at = "cleanup" /\ mm'.src = 0
        /\ mm'.who \in Slot /\ HANGING \in p_flags[mm'.who]

LEMMA AsideIsStutter ==
  ASSUME Up, Aside
  PROVE  UNCHANGED Families!vars
<1>1. ASSUME NEW s \in Slot PROVE SameFamily(s)
  <2>1. /\ Used(s)' <=> Used(s)
        /\ HANGING \in p_flags'[s] <=> HANGING \in p_flags[s]
    BY Numbers DEF Aside, SameLot
  <2>2. Used(s) => p_parent[s] \in User /\ p_parent[s] # 0
    BY Numbers DEF Up, KinInv
  <2>3. (Reported(s) \/ HANGING \in p_flags[s])' <=> (Reported(s) \/ HANGING \in p_flags[s])
    BY <2>1 DEF Aside, Reported, Elsewhere
  <2>4. Life(s)' = Life(s)
    BY <2>1, <2>3 DEF Life
  <2>5. Used(s) => (Exiting(p_parent[s])' <=> Exiting(p_parent[s]))
    BY <2>2 DEF Aside, Exiting, Elsewhere
  <2>6. p_parent' = p_parent /\ exit_status' = exit_status
    BY DEF Aside
  <2>7. Parent(s)' = Parent(s)
    BY <2>1, <2>5, <2>6 DEF Parent
  <2> QED
    BY <2>4, <2>6, <2>7 DEF SameFamily, ExitStatus
<1> QED
  BY <1>1, FamilyStutters

LEMMA StepsAside ==
  ASSUME Up, MmNext
  PROVE  Aside \/ ForkCopy \/ ExitMark \/ ExitReparent \/ CleanupFree
<1> USE DEF Aside, Elsewhere
<1>0. /\ FlagsOK /\ MmTypeOK /\ FS \in Proc /\ MM \in Proc /\ \A u \in User : u \in Proc
      /\ mm \in [at : MmAt, src : User \cup {0}, who : Slot \cup {0}, val : Status \cup {0, -1}]
  BY Numbers DEF Up, MmTypeOK, FlagsOK
<1>1. \A p \in Proc : \A x, m : SendStep(p, x, m) \/ ReceiveStep(p, x) => SameLot
  BY <1>0, TalkKeepsLot
<1>2. UNCHANGED p_flags => SameLot
  BY DEF SameLot, Used
<1>3. CASE FsStep
  BY <1>0, <1>1, <1>2, <1>3 DEF FsStep, FsReceive, FsReply, FsSuspend, lifecycle
<1>4. ASSUME NEW u \in User, UserStep(u) PROVE Aside
  BY <1>0, <1>1, <1>2, <1>4 DEF UserStep, UserSend, UserReceive, UserRunTorn, UserReturn, lifecycle
<1>5. ASSUME NEW from \in MmAt \ Elsewhere, NEW to \in MmAt \ Elsewhere, NEW x,
             mm.at = from, mm' = [mm EXCEPT !.at = to], UNCHANGED lifecycle,
             ReceiveStep(MM, x) \/ \E m : SendStep(MM, x, m)
      PROVE  Aside
  BY <1>0, <1>1, <1>5 DEF lifecycle
<1>6. CASE MmReceive \/ MmReply \/ ForkTellFs \/ ForkFsDone \/ ForkBirth
  BY <1>5, <1>6 DEF MmReceive, MmReply, ForkTellFs, ForkFsDone, ForkBirth, MmSend, MmAwait, MmAt
<1>7. CASE \/ ExitTellFs \/ ExitFsDone \/ ExecStat \/ ExecStatDone \/ ExecOpen \/ ExecOpenDone
           \/ ExecRead \/ ExecReadDone
  BY <1>5, <1>7 DEF ExitTellFs, ExitFsDone, ExecStat, ExecStatDone, ExecOpen, ExecOpenDone,
     ExecRead, ExecReadDone, MmSend, MmAwait, MmAt, MmAtStep
<1>8. CASE ForkNoSlot \/ ForkNoMemory \/ ExitBegin \/ ExecBegin
  BY <1>0, <1>2, <1>8 DEF ForkNoSlot, ForkNoMemory, ExitBegin, ExecBegin, MmIdle, Asked, MmAtStep,
     TableUnchanged, lifecycle
<1>9. CASE ExecFail \/ ExecLoad \/ ExecEnter \/ ForkImage
  BY <1>0, <1>2, <1>9 DEF ExecFail, ExecLoad, ExecEnter, ForkImage, MmAtStep, TableUnchanged, lifecycle, MmTypeOK
<1>10. CASE CleanupTell
  BY <1>0, <1>1, <1>10 DEF CleanupTell, MmSend, lifecycle, MmTypeOK
<1>11. CASE WaitZombie
  <2>1. /\ Asked("WAIT") /\ Hanging(Children(Caller)) # {}
        /\ mm' = [at |-> "cleanup", src |-> 0, who |-> First(Hanging(Children(Caller))), val |-> 0]
        /\ TableUnchanged /\ UNCHANGED lifecycle
    BY <1>11 DEF WaitZombie, MmIdle
  <2>2. Hanging(Children(Caller)) \in SUBSET Slot
    BY <2>1, AskedOf, ZombieChild
  <2>3. First(Hanging(Children(Caller))) \in Hanging(Children(Caller))
    BY <2>1, <2>2, FirstOf
  <2> QED
    BY <1>2, <2>1, <2>2, <2>3 DEF Hanging, Asked, MmAtStep, TableUnchanged, lifecycle
<1>12. CASE WaitForChild
  <2>1. SameLot
    BY <1>0, <1>12 DEF WaitForChild, SameLot, Used, FlagsOK, WAITING, HANGING, FREE_SLOT
  <2> QED
    BY <1>12, <2>1 DEF WaitForChild, Asked, MmAtStep, MmIdle, lifecycle
<1>13. CASE WaitNoChild
  BY <1>0, <1>1, <1>13 DEF WaitNoChild, Asked, MmAtStep, MmIdle, lifecycle
<1> QED
  BY <1>3, <1>4, <1>6, <1>7, <1>8, <1>9, <1>10, <1>11, <1>12, <1>13
     DEF MmNext, MmStep, ForkStep, ExitStep, CleanupStep, WaitStep, ExecStep

(* The slots whose lot a step of MM leaves alone.                          *)
LEMMA OthersKept ==
  ASSUME NEW s \in Slot, Used(s)' <=> Used(s),
         (Reported(s) \/ HANGING \in p_flags[s])' <=> (Reported(s) \/ HANGING \in p_flags[s])
  PROVE  /\ Life(s)' = Life(s)
         /\ exit_status'[s] = exit_status[s] => ExitStatus(s)' = ExitStatus(s)
<1>1. Life(s)' = Life(s)
  BY DEF Life
<1> QED
  BY <1>1 DEF ExitStatus

LEMMA ForkMaps ==
  ASSUME Up, ForkCopy
  PROVE  \E p \in Slot \cup {INIT}, c \in Slot : Families!Fork(p, c)
<1> USE DEF SENDING, RECEIVING, WAITING, HANGING, FREE_SLOT
<1>1. /\ Asked("FORK") /\ FreeSlots # {}
      /\ mm.at = "dispatch" /\ Caller \in User /\ Pending(Caller, "FORK")
  BY AskedOf DEF ForkCopy
<1>2. PICK p \in User, c \in Slot : p = Caller /\ c = LowestFree /\ p_flags[c] = {FREE_SLOT}
  <2>1. FreeSlots \in SUBSET Slot
    BY DEF FreeSlots
  <2> QED
    BY <1>1, <2>1, FirstOf DEF LowestFree, FreeSlots
<1>3. /\ p_flags' = [p_flags EXCEPT ![c] = p_flags[p]]
      /\ exit_status' = [exit_status EXCEPT ![c] = exit_status[p]]
      /\ p_parent' = [p_parent EXCEPT ![c] = p]
      /\ mm' = [at |-> "image", src |-> p, who |-> c, val |-> 0]
  BY <1>2 DEF ForkCopy, MmIdle
<1>4. /\ FlagsOK /\ MmTypeOK /\ KinInv /\ Living(p)
      /\ p \in Proc /\ c \in Proc /\ c \in User /\ \A s \in Slot : s \in Proc
  BY <1>1, <1>2, LifeOf, Numbers DEF Up, MmTypeOK, FlagsOK, TalkInv
<1>5. /\ p_flags'[c] = p_flags[p] /\ \A x \in Proc \ {c} : p_flags'[x] = p_flags[x]
      /\ p_parent'[c] = p /\ \A x \in Proc \ {c} : p_parent'[x] = p_parent[x]
      /\ \A x \in Proc \ {c} : exit_status'[x] = exit_status[x]
  BY <1>3, <1>4 DEF FlagsOK, MmTypeOK
<1>6. \A x : ~Reported(x) /\ ~Reported(x)' /\ ~Exiting(x) /\ ~Exiting(x)'
  BY <1>1, <1>3 DEF Reported, Exiting
<1>7. Life(c) = "free" /\ Parent(c) = NO_TASK /\ ExitStatus(c) = 0
  BY <1>2 DEF Life, Used, Parent, ExitStatus
<1>8. Life(c)' = "alive" /\ Parent(c)' = p /\ ExitStatus(c)' = 0
  <2>1. Life(c)' = "alive" /\ Used(c)'
    BY <1>4, <1>5, <1>6 DEF Life, Used, Living
  <2> QED
    BY <1>5, <1>6, <2>1 DEF Parent, ExitStatus
<1>9. ASSUME NEW s \in Slot \ {c} PROVE SameFamily(s)
  <2>1. Life(s)' = Life(s) /\ ExitStatus(s)' = ExitStatus(s)
    BY <1>4, <1>5, <1>6, OthersKept DEF Used
  <2>2. Parent(s)' = Parent(s)
    BY <1>4, <1>5, <1>6 DEF Parent, Used
  <2> QED
    BY <2>1, <2>2 DEF SameFamily
<1>10. [s \in Slot |-> Life(s)]' = [[s \in Slot |-> Life(s)] EXCEPT ![c] = "alive"]
  BY <1>8, <1>9 DEF SameFamily
<1>11. [s \in Slot |-> Parent(s)]' = [[s \in Slot |-> Parent(s)] EXCEPT ![c] = p]
  BY <1>8, <1>9 DEF SameFamily
<1>12. [s \in Slot |-> ExitStatus(s)]' = [s \in Slot |-> ExitStatus(s)]
  BY <1>7, <1>8, <1>9 DEF SameFamily
<1>13. p = INIT \/ (p \in Slot /\ Life(p) = "alive")
  BY <1>4, <1>6 DEF Life, Living, User
<1>14. Families!Fork(p, c)
  BY <1>7, <1>10, <1>11, <1>12, <1>13 DEF Families!Fork, Families!Alive, Parent, ExitStatus
<1> QED
  BY <1>14 DEF User

LEMMA ExitMaps ==
  ASSUME Up, ExitMark
  PROVE  \E c \in Slot, st \in Status : Families!Exit(c, st)
<1> USE DEF SENDING, RECEIVING, WAITING, HANGING, FREE_SLOT
<1>1. PICK c \in Slot, st \in Status :
         /\ c = mm.src /\ Pending(c, "EXIT") /\ st = mm.val /\ Living(c)
         /\ p_parent[c] \in User /\ mm.at = "exit"
  <2>1. mm.at = "exit" /\ mm.src \in Slot /\ Pending(mm.src, "EXIT") /\ mm.val \in Status
    BY DEF Up, TalkInv, HandlerInv, ExitInv, ExitMark, MmAtStep
  <2>2. Living(mm.src)
    BY <2>1, LifeOf, Numbers DEF Up, TalkInv
  <2> QED
    BY <2>1, <2>2 DEF Up, KinInv, Living
<1>2. PICK u \in User : u = p_parent[c]
  BY <1>1
<1>3. /\ exit_status' = [exit_status EXCEPT ![c] = st] /\ p_parent' = p_parent
      /\ \/ /\ p_flags' = [p_flags EXCEPT ![u] = @ \ {WAITING}]
            /\ mm' = [mm EXCEPT !.at = "cleanup", !.who = c]
         \/ /\ p_flags' = [p_flags EXCEPT ![c] = @ \cup {HANGING}]
            /\ mm' = [mm EXCEPT !.at = "reparent"]
  BY <1>1, <1>2 DEF ExitMark
<1>4. /\ FlagsOK /\ MmTypeOK /\ KinInv /\ c \in Proc /\ u \in Proc /\ c \in User
      /\ \A s \in Slot : s \in Proc
  BY Numbers DEF Up, MmTypeOK, FlagsOK
<1>5. \A x \in Proc : /\ Used(x)' <=> Used(x)
                      /\ x # c => (HANGING \in p_flags'[x] <=> HANGING \in p_flags[x])
  BY <1>3, <1>4 DEF Used, FlagsOK
<1>6. /\ \A x : ~Reported(x) /\ ~Exiting(x)
      /\ \A x : (Reported(x)' => x = c) /\ (Exiting(x)' <=> x = c)
      /\ Reported(c)' \/ HANGING \in p_flags'[c]
  <2>1. /\ mm'.src = c
        /\ \/ mm'.at = "cleanup" /\ mm'.who = c
           \/ mm'.at = "reparent" /\ HANGING \in p_flags'[c]
    <3>1. mm \in [at : MmAt, src : User \cup {0}, who : Slot \cup {0}, val : Status \cup {0, -1}]
      BY <1>4 DEF MmTypeOK
    <3>2. CASE mm' = [mm EXCEPT !.at = "cleanup", !.who = c]
      BY <1>1, <3>1, <3>2
    <3>3. CASE /\ p_flags' = [p_flags EXCEPT ![c] = @ \cup {HANGING}]
               /\ mm' = [mm EXCEPT !.at = "reparent"]
      <4>1. HANGING \in p_flags'[c]
        BY <1>4, <3>3 DEF FlagsOK
      <4> QED
        BY <1>1, <3>1, <3>3, <4>1
    <3> QED
      BY <1>3, <3>2, <3>3
  <2> QED
    BY <1>1, <2>1 DEF Reported, Exiting
<1>7. Life(c) = "alive" /\ Life(c)' = "zombie" /\ ExitStatus(c)' = st
  <2>1. Life(c) = "alive"
    BY <1>1, <1>6 DEF Life, Living
  <2>2. Life(c)' = "zombie"
    BY <1>1, <1>4, <1>5, <1>6 DEF Life, Living
  <2>3. exit_status'[c] = st
    BY <1>3, <1>4 DEF MmTypeOK
  <2> QED
    BY <2>1, <2>2, <2>3 DEF ExitStatus
<1>8. ASSUME NEW s \in Slot \ {c} PROVE Life(s)' = Life(s) /\ ExitStatus(s)' = ExitStatus(s)
  <2>1. exit_status'[s] = exit_status[s]
    BY <1>3, <1>4 DEF MmTypeOK
  <2> QED
    BY <1>4, <1>5, <1>6, <2>1, OthersKept
<1>9. ASSUME NEW s \in Slot PROVE Parent(s)' = IF Parent(s) = c THEN INIT ELSE Parent(s)
  <2>1. CASE ~Used(s)
    <3>1. Parent(s)' = NO_TASK /\ Parent(s) = NO_TASK
      BY <1>4, <1>5, <2>1 DEF Parent
    <3> QED
      BY <1>4, <3>1, Numbers
  <2>2. CASE Used(s)
    <3>1. Parent(s) = p_parent[s]
      BY <1>6, <2>2 DEF Parent
    <3>2. Parent(s)' = IF p_parent[s] = c THEN INIT ELSE p_parent[s]
      BY <1>3, <1>4, <1>5, <1>6, <2>2 DEF Parent
    <3> QED
      BY <3>1, <3>2
  <2> QED
    BY <2>1, <2>2
<1>10. [s \in Slot |-> Life(s)]' = [[s \in Slot |-> Life(s)] EXCEPT ![c] = "zombie"]
  BY <1>7, <1>8
<1>11. [s \in Slot |-> ExitStatus(s)]' = [[s \in Slot |-> ExitStatus(s)] EXCEPT ![c] = st]
  BY <1>7, <1>8
<1>12. [s \in Slot |-> Parent(s)]'
         = [d \in Slot |-> IF [s \in Slot |-> Parent(s)][d] = c THEN INIT
                           ELSE [s \in Slot |-> Parent(s)][d]]
  BY <1>9
<1>13. Families!Exit(c, st)
  BY <1>7, <1>10, <1>11, <1>12 DEF Families!Exit, Parent, ExitStatus
<1> QED
  BY <1>1, <1>13

(* Family has the children of the dead adopted already.                    *)
LEMMA ReparentStutters ==
  ASSUME Up, ExitReparent
  PROVE  UNCHANGED Families!vars
<1> USE DEF SENDING, RECEIVING, WAITING, HANGING, FREE_SLOT
<1>1. PICK p \in Slot : p = mm.src /\ mm.at = "reparent"
  BY DEF Up, TalkInv, HandlerInv, ExitInv, ExitReparent, MmAtStep
<1> DEFINE kids == Children(p)
           dead == Hanging(kids)
<1>2. /\ p_parent' = [c \in Proc |-> IF c \in kids THEN INIT ELSE p_parent[c]]
      /\ exit_status' = exit_status
      /\ \/ /\ dead # {}
            /\ p_flags' = [p_flags EXCEPT ![INIT] = @ \ {WAITING}]
            /\ mm' = [at |-> "cleanup", src |-> 0, who |-> First(dead), val |-> 0]
         \/ p_flags' = p_flags /\ mm' = MmIdle
  BY <1>1 DEF ExitReparent, MmIdle
<1>3. /\ FlagsOK /\ KinInv /\ p \in User /\ INIT \in Proc /\ \A s \in Slot : s \in Proc
      /\ 0 \notin User /\ INIT \in User
  BY Numbers DEF Up, MmTypeOK, FlagsOK
<1>4. dead \in SUBSET Slot
  BY <1>3, ZombieChild
<1>5. \A x \in Proc : /\ Used(x)' <=> Used(x)
                      /\ HANGING \in p_flags'[x] <=> HANGING \in p_flags[x]
  BY <1>2, <1>3 DEF Used, FlagsOK
<1>6. /\ \A x : ~Reported(x) /\ (Exiting(x) <=> x = p)
      /\ \A x : Reported(x)' => HANGING \in p_flags[x]
      /\ \A x \in User : ~Exiting(x)'
  <2>1. dead # {} => HANGING \in p_flags[First(dead)]
    BY <1>4, FirstOf DEF Hanging
  <2> QED
    BY <1>1, <1>2, <1>3, <2>1 DEF Reported, Exiting, MmIdle
<1>7. ASSUME NEW s \in Slot PROVE SameFamily(s)
  <2>1. Life(s)' = Life(s) /\ ExitStatus(s)' = ExitStatus(s)
    BY <1>2, <1>3, <1>5, <1>6, OthersKept
  <2>2. Parent(s)' = Parent(s)
    <3>1. CASE ~Used(s)
      BY <1>3, <1>5, <3>1 DEF Parent
    <3>2. CASE Used(s)
      <4>1. p_parent[s] \in User /\ p_parent'[s] \in User
            /\ p_parent'[s] = IF p_parent[s] = p THEN INIT ELSE p_parent[s]
        BY <1>2, <1>3, <3>2 DEF KinInv, Children
      <4>2. Parent(s)' = p_parent'[s]
        BY <1>3, <1>5, <1>6, <3>2, <4>1 DEF Parent
      <4>3. Parent(s) = IF p_parent[s] = p THEN INIT ELSE p_parent[s]
        BY <1>6, <3>2 DEF Parent
      <4> QED
        BY <4>1, <4>2, <4>3
    <3> QED
      BY <3>1, <3>2
  <2> QED
    BY <2>1, <2>2 DEF SameFamily
<1> QED
  BY <1>7, FamilyStutters

LEMMA FreeMaps ==
  ASSUME Up, CleanupFree
  PROVE  \E c \in Slot : Families!Reap(c)
<1> USE DEF SENDING, RECEIVING, WAITING, HANGING, FREE_SLOT
<1>1. PICK c \in Slot : /\ c = mm.who /\ p_parent[c] # c /\ mm.at = "free"
                        /\ mm.src \in {0, c}
                        /\ (Pending(c, "EXIT") \/ HANGING \in p_flags[c])
  <2>1. CleanupInv /\ mm.at = "free"
    BY DEF Up, TalkInv, HandlerInv, CleanupFree, MmAtStep
  <2> QED
    BY <2>1 DEF CleanupInv
<1>2. /\ p_flags' = [p_flags EXCEPT ![c] = {FREE_SLOT}]
      /\ mm' = IF mm.src = c THEN [mm EXCEPT !.at = "reparent"] ELSE MmIdle
      /\ p_parent' = p_parent /\ exit_status' = exit_status
  BY <1>1 DEF CleanupFree, lifecycle
<1>3. /\ FlagsOK /\ KinInv /\ MmTypeOK /\ c \in Proc /\ c \in User /\ \A s \in Slot : s \in Proc
      /\ 0 \notin User /\ UserInv(c)
  BY Numbers DEF Up, MmTypeOK, FlagsOK, TalkInv
<1>4. Used(c) /\ p_parent[c] \in User /\ Living(p_parent[c])
  <2>1. Used(c)
    BY <1>1, <1>3, LifeOf DEF Living
  <2> QED
    BY <1>1, <1>3, <2>1 DEF KinInv
<1>5. p_flags'[c] = {FREE_SLOT} /\ \A x \in Proc \ {c} : p_flags'[x] = p_flags[x]
  BY <1>2, <1>3 DEF FlagsOK
<1>6. /\ \A x : Reported(x) <=> x = c
      /\ \A x : ~Reported(x)'
      /\ \A x \in User : Exiting(x)' <=> Exiting(x)
      /\ ~Exiting(p_parent[c])
  BY <1>1, <1>2, <1>3, <1>4 DEF Reported, Exiting, MmIdle, MmTypeOK
<1>7. Life(c) = "zombie" /\ Parent(c) = p_parent[c]
  BY <1>4, <1>6 DEF Life, Parent
<1>8. Life(c)' = "free" /\ Parent(c)' = NO_TASK /\ ExitStatus(c)' = 0
  BY <1>5 DEF Life, Parent, ExitStatus, Used
<1>9. ASSUME NEW s \in Slot \ {c} PROVE SameFamily(s)
  <2>1. Used(s)' <=> Used(s)
    BY <1>3, <1>5 DEF Used
  <2>2. Life(s)' = Life(s) /\ ExitStatus(s)' = ExitStatus(s)
    BY <1>2, <1>3, <1>5, <1>6, <2>1, OthersKept
  <2>3. Parent(s)' = Parent(s)
    <3>1. Used(s) => (Exiting(p_parent[s])' <=> Exiting(p_parent[s]))
      BY <1>2, <1>3, <1>6 DEF KinInv
    <3> QED
      BY <1>2, <2>1, <3>1 DEF Parent
  <2> QED
    BY <2>2, <2>3 DEF SameFamily
<1>10. [s \in Slot |-> Life(s)]' = [[s \in Slot |-> Life(s)] EXCEPT ![c] = "free"]
  BY <1>8, <1>9 DEF SameFamily
<1>11. [s \in Slot |-> Parent(s)]' = [[s \in Slot |-> Parent(s)] EXCEPT ![c] = NO_TASK]
  BY <1>8, <1>9 DEF SameFamily
<1>12. [s \in Slot |-> ExitStatus(s)]' = [[s \in Slot |-> ExitStatus(s)] EXCEPT ![c] = 0]
  BY <1>8, <1>9 DEF SameFamily
<1>13. p_parent[c] = INIT \/ (p_parent[c] \in Slot /\ Life(p_parent[c]) = "alive")
  BY <1>1, <1>4, <1>6 DEF Life, Living, User
<1>14. Families!Reap(c)
  BY <1>7, <1>10, <1>11, <1>12, <1>13 DEF Families!Reap, Families!Alive, Parent, ExitStatus
<1> QED
  BY <1>14

LEMMA MmInitMaps == MmInit => Families!Init
<1> SUFFICES ASSUME MmInit PROVE Families!Init
  OBVIOUS
<1>1. \A s \in Slot : ~Used(s)
  BY Numbers DEF MmInit, Used
<1>2. \A s \in Slot : Life(s) = "free"
  BY <1>1 DEF Life
<1> QED
  BY <1>1, <1>2 DEF Families!Init

LEMMA MmNextMaps == MmInv /\ [MmNext]_mmvars => [Families!Next]_(Families!vars)
<1> SUFFICES ASSUME MmInv, [MmNext]_mmvars PROVE [Families!Next]_(Families!vars)
  OBVIOUS
<1>1. CASE UNCHANGED mmvars
  <2>1. ASSUME NEW s \in Slot PROVE SameFamily(s)
    BY <1>1 DEF mmvars, SameFamily, Life, Parent, ExitStatus, Used, Reported, Exiting
  <2> QED
    BY <2>1, FamilyStutters
<1>2. CASE MmNext
  <2>1. Up
    BY <1>2, OnlyWhenUp
  <2>2. CASE Aside \/ ExitReparent
    BY <2>1, <2>2, AsideIsStutter, ReparentStutters
  <2>3. CASE ForkCopy
    BY <2>1, <2>3, ForkMaps DEF Families!Next
  <2>4. CASE ExitMark
    BY <2>1, <2>4, ExitMaps DEF Families!Next
  <2>5. CASE CleanupFree
    BY <2>1, <2>5, FreeMaps DEF Families!Next
  <2> QED
    BY <1>2, <2>1, <2>2, <2>3, <2>4, <2>5, StepsAside
<1> QED
  BY <1>1, <1>2

(* Every behaviour of MM, of FS and of the processes that ask MM for fork, *)
(* exit, wait and exec is one of Family, for any number of slots: no slot  *)
(* is reused before its zombie was reaped by a living parent, no status    *)
(* changes after the exit, and a parent only ever changes to INIT, at the  *)
(* parent's own exit.                                                      *)
THEOREM MmImplementsFamily == MmSpec => ImplementsFamily
<1> QED
  BY MmInitMaps, MmNextMaps, MmInvariance, PTL DEF MmSpec, ImplementsFamily, Families!Spec
=============================================================================
