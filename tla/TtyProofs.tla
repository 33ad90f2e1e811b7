----------------------------- MODULE TtyProofs ------------------------------
(***************************************************************************)
(* Readers of terminals are kept, answers are to the request at hand and   *)
(* the machine stops over one thing only, for any number of processes,     *)
(* any lengths and any keys.                                               *)
(***************************************************************************)
EXTENDS Tty, IpcProofs

-----------------------------------------------------------------------------
(* The inductive invariant.                                                *)

LocalOK ==
  /\ kb_in \in Seq(Key) /\ Len(kb_in) <= KB_IN_BYTES /\ key_pressed \in {0, 1}
  /\ current \in Console
  /\ tty \in [Console -> [procnr : User \cup {NO_TASK}, left : Nat, trans : Nat]]
  /\ ttypc \in [at : {"service", "resume", "receive", "got"}, t : Console]
  /\ fspc \in [at : {"loop", "got", "sent", "back"}, src : User \cup {NO_TASK}, len : Nat]
  /\ pc \in [User -> [at : {"run", "sent", "wait"}, op : {"none", "OPEN", "READ", "WRITE"}, len : Nat]]

OnlyTty == \A p \in Proc : p # TTY => has_int_msg[p] = 0

(* u's request has been taken by FS, and u has not got its answer.         *)
Busy(u) ==
  \/ pc[u].at = "sent" /\ p_flags[u] = {}
  \/ pc[u].at = "wait" /\ p_flags[u] = {RECEIVING}

Writing(u) == pc[u].op = "WRITE"

(* The messages that there are on u's behalf.                              *)
RequestOf(u) == Stamped(u, Msg(pc[u].op, TtyOf[u], u, pc[u].len))
DevRequestOf(u) == Stamped(FS, Msg(DevOp(pc[u].op), TtyOf[u], u, pc[u].len))
AnswerTo(u) ==
  Stamped(TTY, IF Reading(u) THEN Msg("SUSPEND_PROC", 0, NO_TASK, pc[u].len) ELSE Ret(pc[u].len))
IsLineOf(u, m) == \E n \in 0..pc[u].len : m = Stamped(TTY, Msg("RESUME_PROC", 0, u, n))

(* Where they are: TTY stores characters for u, TTY is blocked with its    *)
(* line; FS has taken its request, is serving it, has taken its line, is   *)
(* blocked with the answer.                                                *)
HasReader(t) == tty[t].left > 0 \/ (ttypc.at = "resume" /\ ttypc.t = t)
Kept(u) == HasReader(TtyOf[u]) /\ tty[TtyOf[u]].procnr = u
Resuming(u) == p_flags[TTY] = {SENDING} /\ IsLineOf(u, mem[TTY])
FsHas(u) == fspc.at = "got" /\ p_flags[FS] = {} /\ mem[FS] = RequestOf(u)
FsServes(u) == fspc.at \in {"sent", "back"} /\ fspc.src = u
FsHasLine(u) == fspc.at = "got" /\ p_flags[FS] = {} /\ IsLineOf(u, mem[FS])
FsTells(u) == fspc.at = "loop" /\ p_flags[FS] = {SENDING} /\ p_sendto[FS] = u

(* TTY has nothing to do with u.                                           *)
Fresh(u) == Busy(u) /\ ~Kept(u) /\ ~Resuming(u)

UserOK(u) ==
  /\ \/ pc[u].at = "run" /\ p_flags[u] = {}
     \/ pc[u].at = "sent" /\ p_flags[u] \in {{}, {SENDING}}
     \/ pc[u].at = "wait" /\ p_flags[u] \in {{}, {RECEIVING}}
  /\ pc[u].at # "run" => pc[u].op \in OpsOf[u] /\ pc[u].len \in LensOf(pc[u].op)
  /\ SENDING \in p_flags[u] => p_sendto[u] = FS /\ mem[u] = RequestOf(u)
  /\ RECEIVING \in p_flags[u] => p_recvfrom[u] = FS

ReaderOK(t) ==
  HasReader(t) =>
    LET u == tty[t].procnr IN
    /\ u \in User /\ TtyOf[u] = t /\ Busy(u) /\ Reading(u)
    /\ tty[t].left + tty[t].trans = pc[u].len

(* Somebody sees to u.                                                     *)
Seen(u) ==
  FsHas(u) \/ FsServes(u) \/ Kept(u) \/ Resuming(u) \/ FsHasLine(u) \/ FsTells(u)

(* TTY has FS's request in hand, and FS is in its RECEIVE of the answer or *)
(* still in front of it.                                                   *)
TtyHas(u) == ttypc.at = "got" /\ p_flags[TTY] = {} /\ mem[TTY] = DevRequestOf(u)
FsAwaits(u) ==
  \/ fspc.at = "sent" /\ fspc.src = u /\ p_flags[FS] = {}
  \/ fspc.at = "back" /\ fspc.src = u /\ p_flags[FS] = {RECEIVING} /\ p_recvfrom[FS] = TTY
TtyAnswers(u) ==
  /\ p_flags[TTY] = {SENDING} /\ mem[TTY] = AnswerTo(u)
  /\ fspc.at = "sent" /\ fspc.src = u /\ p_flags[FS] = {}

FsLoopInv ==
  fspc.at = "loop" =>
    p_flags[FS] = {} \/ \E u \in User : FsTells(u) /\ Fresh(u) /\ p_flags[u] = {}
FsGotInv ==
  fspc.at = "got" =>
    \/ p_flags[FS] = {RECEIVING} /\ p_recvfrom[FS] = ANY
    \/ \E u \in User : FsHas(u) /\ Fresh(u)
    \/ \E u \in User : FsHasLine(u) /\ Fresh(u) /\ Reading(u)
FsServeInv ==
  fspc.at \in {"sent", "back"} =>
    LET u == fspc.src IN
    /\ u \in User /\ Busy(u) /\ fspc.len = pc[u].len
    /\ \/ /\ fspc.at = "sent" /\ p_flags[FS] = {SENDING} /\ p_sendto[FS] = TTY
          /\ mem[FS] = DevRequestOf(u) /\ Fresh(u)
       \/ FsAwaits(u) /\ TtyHas(u) /\ Fresh(u)
       \/ TtyAnswers(u) /\ (Reading(u) => Kept(u))
       \/ /\ fspc.at = "back" /\ p_flags[FS] = {} /\ mem[FS] = AnswerTo(u)
          /\ Reading(u) => Kept(u) \/ Resuming(u)

TtyInv ==
  \/ /\ p_flags[TTY] = {}
     /\ ttypc.at = "got" => mem[TTY].type = HARD_INT \/ \E u \in User : TtyHas(u) /\ FsAwaits(u)
  \/ p_flags[TTY] = {RECEIVING} /\ p_recvfrom[TTY] = ANY /\ ttypc.at = "got"
  \/ /\ p_flags[TTY] = {SENDING} /\ p_sendto[TTY] = FS /\ ttypc.at \in {"service", "receive"}
     /\ \/ \E u \in User : Resuming(u) /\ Busy(u) /\ Reading(u) /\ ~Kept(u)
        \/ \E u \in User : TtyAnswers(u)

TalkInv ==
  /\ \A u \in User : UserOK(u) /\ (Busy(u) => Seen(u))
  /\ \A t \in Console : ReaderOK(t)
  /\ FsLoopInv /\ FsGotInv /\ FsServeInv /\ TtyInv

TInv ==
  /\ IInv /\ LocalOK /\ OnlyTty /\ ReaderStillWaits /\ OnlyResumeDeadlocks
  /\ panic = "no" => TalkInv

-----------------------------------------------------------------------------
(* Processes and messages.                                                 *)

LEMMA Names ==
  /\ Proc = {TTY, FS} \cup User /\ TTY \in IrqTask /\ TTY # FS /\ TTY \notin User /\ FS \notin User
  /\ {ANY, INTERRUPT, NO_TASK} \cap Proc = {} /\ ANY # NO_TASK /\ ANY # INTERRUPT
  /\ Console \subseteq Nat /\ 0 \in Console
  /\ SENDING # RECEIVING
BY TtyAssumption, PseudoProcAssumption DEF Console, SENDING, RECEIVING

LEMMA Flags ==
  ASSUME IInv, NEW p \in Proc
  PROVE  p_flags[p] \in {{}, {SENDING}, {RECEIVING}}
<1>1. p_flags[p] \in SUBSET {SENDING, RECEIVING} /\ p_flags[p] # {SENDING, RECEIVING}
  BY DEF IInv, TypeOK, BlockedStateAgrees
<1> QED
  BY <1>1

(* What a call says of its length.                                         *)
LEMMA Lengths ==
  ASSUME NEW op \in {"OPEN", "READ", "WRITE"}
  PROVE  /\ LensOf(op) \subseteq (Lens \cup {0}) /\ LensOf(op) \subseteq Nat
         /\ op = "OPEN" => LensOf(op) = {0}
         /\ op # "OPEN" => LensOf(op) = Lens
BY TtyAssumption DEF LensOf

(* Every message sent is of the types that there are, and no interrupt's.  *)
LEMMA Types ==
  ASSUME NEW u \in User, NEW op \in {"OPEN", "READ", "WRITE"}, NEW n \in LensOf(op)
  PROVE  /\ Msg(op, TtyOf[u], u, n) \in Type
         /\ Msg(DevOp(op), TtyOf[u], u, n) \in Type
         /\ Ret(n) \in Type /\ Msg("SUSPEND_PROC", 0, NO_TASK, n) \in Type
         /\ \A m \in 0..n : Msg("RESUME_PROC", 0, u, m) \in Type /\ Ret(m) \in Type
<1>1. TtyOf[u] \in Console /\ n \in Lens \cup {0} /\ n \in Nat /\ n \in 0..n
  <2>1. n \in Lens \cup {0} /\ n \in Nat
    BY Lengths
  <2> QED
    BY <2>1, TtyAssumption
<1>2. \A m \in 0..n : m \in Counts
  <2>1. CASE n \in Lens
    BY <2>1 DEF Counts
  <2>2. CASE n = 0
    BY <2>2 DEF Counts
  <2> QED
    BY <1>1, <2>1, <2>2
<1>3. DevOp(op) \in {"DEV_OPEN", "DEV_READ", "DEV_WRITE"}
  BY DEF DevOp
<1>4. \A o \in {"OPEN", "READ", "WRITE", "DEV_OPEN", "DEV_READ", "DEV_WRITE"} :
        Msg(o, TtyOf[u], u, n) \in MessageType
  BY <1>1 DEF MessageType
<1>5. \A m \in 0..n : Msg("RESUME_PROC", 0, u, m) \in MessageType
  BY <1>2 DEF MessageType
<1>6. \A m \in 0..n : Ret(m) \in MessageType /\ Msg("SUSPEND_PROC", 0, NO_TASK, m) \in MessageType
  BY <1>2 DEF MessageType, Ret
<1> QED
  BY <1>1, <1>3, <1>4, <1>5, <1>6, MessageAssumption

(* Messages tell whose they are and what they are.                         *)
LEMMA Messages ==
  ASSUME NEW u \in User, NEW v \in User, NEW m
  PROVE  /\ IsLineOf(u, m) /\ IsLineOf(v, m) => u = v
         /\ IsLineOf(u, m) => m # AnswerTo(v) /\ m # RequestOf(v) /\ m.source = TTY
                              /\ m.type.op = "RESUME_PROC" /\ m.type.who = u
         /\ RequestOf(u) = RequestOf(v) => u = v
         /\ DevRequestOf(u) = DevRequestOf(v) => u = v
         /\ RequestOf(u).source = u /\ RequestOf(u).type.op = pc[u].op
         /\ RequestOf(u).type.cnt = pc[u].len /\ RequestOf(u).type.tty = TtyOf[u]
         /\ DevRequestOf(u).source = FS /\ DevRequestOf(u).type.op = DevOp(pc[u].op)
         /\ DevRequestOf(u).type.cnt = pc[u].len /\ DevRequestOf(u).type.tty = TtyOf[u]
         /\ DevRequestOf(u).type.who = u
         /\ AnswerTo(u).type.op = (IF Reading(u) THEN "SUSPEND_PROC" ELSE "SYSCALL_RET")
         /\ AnswerTo(u).type.cnt = pc[u].len
BY Names DEF IsLineOf, AnswerTo, RequestOf, DevRequestOf, Stamped, Msg, Ret

(* They stay what they are as long as the process is in the same call.     *)
LEMMA MessagesKept ==
  ASSUME NEW u \in User, pc'[u] = pc[u]
  PROVE  /\ RequestOf(u)' = RequestOf(u) /\ DevRequestOf(u)' = DevRequestOf(u)
         /\ AnswerTo(u)' = AnswerTo(u) /\ (Reading(u)' <=> Reading(u))
         /\ \A m : IsLineOf(u, m)' <=> IsLineOf(u, m)
BY DEF RequestOf, DevRequestOf, AnswerTo, Reading, IsLineOf

-----------------------------------------------------------------------------
(* What a SEND and a RECEIVE do, process by process.                       *)

(* The kernel stops the machine instead of p blocking.                     *)
Circle(p, dest, t) ==
  /\ deadlock(p, dest) /\ panic' = "DEADLOCK"
  /\ UNCHANGED <<p_flags, p_recvfrom, p_sendto>>
  /\ mem'[p] = Stamped(p, t) /\ \A x \in Proc \ {p} : mem'[x] = mem[x]

(* dest has the message.                                                   *)
Delivered(p, dest, t) ==
  /\ panic' = "no"
  /\ p_flags[dest] = {RECEIVING} /\ p_recvfrom[dest] \in {p, ANY}
  /\ p_flags'[dest] = {}
  /\ \A x \in Proc \ {dest} : p_flags'[x] = p_flags[x] /\ p_recvfrom'[x] = p_recvfrom[x]
  /\ p_sendto' = p_sendto
  /\ mem'[dest] = Stamped(p, t)
  /\ \A x \in Proc \ {p, dest} : mem'[x] = mem[x]

(* p is blocked with it.                                                   *)
Blocked(p, dest, t) ==
  /\ panic' = "no" /\ ~deadlock(p, dest)
  /\ ~Awaits(dest, p)
  /\ p_flags'[p] = {SENDING} /\ p_sendto'[p] = dest /\ mem'[p] = Stamped(p, t)
  /\ \A x \in Proc \ {p} :
        p_flags'[x] = p_flags[x] /\ p_sendto'[x] = p_sendto[x] /\ mem'[x] = mem[x]
  /\ p_recvfrom' = p_recvfrom

(* p has the message of from, which was blocked with it.                   *)
Taken(p, src, from) ==
  /\ src \in {from, ANY} /\ from # p
  /\ p_flags[from] = {SENDING} /\ p_sendto[from] = p /\ p_flags'[from] = {}
  /\ \A x \in Proc \ {from} : p_flags'[x] = p_flags[x] /\ p_sendto'[x] = p_sendto[x]
  /\ p_recvfrom' = p_recvfrom
  /\ mem'[p] = mem[from] /\ \A x \in Proc \ {p} : mem'[x] = mem[x]

(* p is blocked until one comes.                                           *)
Waits(p, src) ==
  /\ \A x \in Proc : p_flags[x] = {SENDING} /\ p_sendto[x] = p => src \notin {x, ANY}
  /\ p_flags'[p] = {RECEIVING} /\ p_recvfrom'[p] = src
  /\ \A x \in Proc \ {p} :
        p_flags'[x] = p_flags[x] /\ p_recvfrom'[x] = p_recvfrom[x] /\ mem'[x] = mem[x]
  /\ p_sendto' = p_sendto

(* p has an interrupt's message.                                           *)
Interrupts(p, src) ==
  /\ has_int_msg[p] = 1 /\ src \in {ANY, INTERRUPT}
  /\ mem'[p] = IntMessage /\ \A x \in Proc \ {p} : mem'[x] = mem[x]
  /\ UNCHANGED <<p_flags, p_recvfrom, p_sendto>>

LEMMA SendOutcome ==
  ASSUME IInv, NEW p \in Proc, NEW dest \in Proc, NEW t \in Type, SendStep(p, dest, t)
  PROVE  /\ panic = "no" /\ p_flags[p] = {} /\ p # dest /\ has_int_msg' = has_int_msg
         /\ Circle(p, dest, t) \/ Delivered(p, dest, t) \/ Blocked(p, dest, t)
         /\ IInv'
<1>0. panic = "no" /\ p_flags[p] = {} /\ p # dest
  BY DEF SendStep, SendDeadlock, SendDeliver, SendBlock, CanCall
<1>1. IInv'
  BY StepIInv DEF Next
<1>2. DOMAIN mem = Proc /\ DOMAIN p_flags = Proc /\ DOMAIN p_recvfrom = Proc /\ DOMAIN p_sendto = Proc
  BY DEF IInv, TypeOK
<1>3. CASE SendDeadlock(p, dest, t)
  BY <1>0, <1>1, <1>2, <1>3 DEF SendDeadlock, Circle
<1>4. CASE SendDeliver(p, dest, t)
  <2>1. /\ p_flags[dest] = {RECEIVING}
        /\ p_flags' = [p_flags EXCEPT ![dest] = {}]
        /\ p_recvfrom' = [p_recvfrom EXCEPT ![dest] = NO_TASK]
        /\ UNCHANGED <<p_sendto, q_sending, has_int_msg, panic>>
    BY <1>4, DeliverEffect
  <2>2. p_recvfrom[dest] \in {p, ANY}
        /\ mem' = [mem EXCEPT ![p] = Stamped(p, t), ![dest] = Stamped(p, t)]
    BY <1>4 DEF SendDeliver, Awaits
  <2>3. mem'[dest] = Stamped(p, t) /\ \A x \in Proc \ {p, dest} : mem'[x] = mem[x]
    BY <1>2, <2>2
  <2> QED
    BY <1>0, <1>1, <1>2, <2>1, <2>2, <2>3 DEF Delivered
<1>5. CASE SendBlock(p, dest, t)
  <2>1. p_flags'[p] = {SENDING} /\ \A x \in Proc \ {p} : p_flags'[x] = p_flags[x]
    BY <1>0, <1>2, <1>5 DEF SendBlock
  <2> QED
    BY <1>0, <1>1, <1>2, <1>5, <2>1 DEF SendBlock, Blocked
<1> QED
  BY <1>3, <1>4, <1>5 DEF SendStep

LEMMA ReceiveOutcome ==
  ASSUME IInv, NEW p \in Proc, NEW src \in Proc \cup {ANY}, ReceiveStep(p, src)
  PROVE  /\ panic = "no" /\ panic' = "no" /\ p_flags[p] = {}
         /\ \A x \in Proc \ {p} : has_int_msg'[x] = has_int_msg[x]
         /\ Waits(p, src) \/ Interrupts(p, src) \/ \E from \in Proc : Taken(p, src, from)
         /\ IInv'
<1>0. panic = "no" /\ p_flags[p] = {} /\ src \in Source
  BY DEF ReceiveStep, ReceiveInterrupt, ReceiveFetch, ReceiveBlock, CanCall, Source
<1>1. IInv'
  BY <1>0, StepIInv DEF Next
<1>2. /\ DOMAIN mem = Proc /\ DOMAIN p_flags = Proc /\ DOMAIN p_recvfrom = Proc
      /\ DOMAIN p_sendto = Proc /\ DOMAIN has_int_msg = Proc
      /\ q_sending[p] \in Seq(Proc) /\ QueueExact
  BY DEF IInv, TypeOK
<1>3. CASE ReceiveInterrupt(p, src)
  BY <1>0, <1>1, <1>2, <1>3 DEF ReceiveInterrupt, TakesInt, Interrupts
<1>4. CASE ReceiveFetch(p, src)
  <2>1. PICK from \in Proc : Fetched(p, src, from)
    BY <1>0, <1>4, FetchEffect
  <2>2. /\ src \in {from, ANY} /\ Sending(from) /\ p_sendto[from] = p
        /\ mem' = [mem EXCEPT ![p] = mem[from]]
        /\ p_sendto' = [p_sendto EXCEPT ![from] = NO_TASK]
        /\ p_flags' = [p_flags EXCEPT ![from] = {}]
        /\ UNCHANGED <<p_recvfrom, has_int_msg, panic>>
    BY <2>1 DEF Fetched, Sending
  <2>3. p_flags[from] = {SENDING} /\ from # p
    BY <1>0, <2>2, Flags, Names DEF Sending
  <2>4. /\ mem'[p] = mem[from] /\ \A x \in Proc \ {p} : mem'[x] = mem[x]
        /\ p_flags'[from] = {}
        /\ \A x \in Proc \ {from} : p_flags'[x] = p_flags[x] /\ p_sendto'[x] = p_sendto[x]
    BY <1>2, <2>2
  <2> QED
    BY <1>0, <1>1, <2>2, <2>3, <2>4 DEF Taken
<1>5. CASE ReceiveBlock(p, src)
  <2>1. p_flags'[p] = {RECEIVING} /\ \A x \in Proc \ {p} : p_flags'[x] = p_flags[x]
    BY <1>0, <1>2, <1>5 DEF ReceiveBlock
  <2>2. \A x \in Proc : p_flags[x] = {SENDING} /\ p_sendto[x] = p => src \notin {x, ANY}
    <3> SUFFICES ASSUME NEW x \in Proc, p_flags[x] = {SENDING}, p_sendto[x] = p
                 PROVE  src \notin {x, ANY}
      OBVIOUS
    <3>1. ~CopyOk(p, src) /\ Sending(x)
      BY <1>5 DEF ReceiveBlock, Sending
    <3>2. q_sending[p] # << >>
      <4>1. \E i \in 1..Len(q_sending[p]) : q_sending[p][i] = x
        BY <1>2, <3>1 DEF QueueExact
      <4> QED
        BY <4>1
    <3> QED
      BY <3>1, <3>2, Names DEF CopyOk
  <2> QED
    BY <1>0, <1>1, <1>2, <1>5, <2>1, <2>2 DEF ReceiveBlock, Waits
<1> QED
  BY <1>3, <1>4, <1>5 DEF ReceiveStep

-----------------------------------------------------------------------------
(* The start, and steps between messages.                                  *)

LEMMA InitTInv == TtyInit => TInv
<1> SUFFICES ASSUME TtyInit PROVE TInv
  OBVIOUS
<1> USE Names DEF TtyInit, Init
<1>1. IInv
  BY InitIInv
<1>2. LocalOK
  BY TtyAssumption DEF LocalOK, NoReader
<1>3. \A u \in User : p_flags[u] = {} /\ pc[u].at = "run" /\ ~Busy(u)
  BY DEF Busy
<1>4. \A t \in Console : ~HasReader(t)
  BY DEF HasReader, NoReader
<1>5. TalkInv
  BY <1>3, <1>4 DEF TalkInv, UserOK, ReaderOK, FsLoopInv, FsGotInv, FsServeInv, TtyInv
<1>6. OnlyTty /\ ReaderStillWaits /\ OnlyResumeDeadlocks
  BY <1>4 DEF OnlyTty, ReaderStillWaits, OnlyResumeDeadlocks, HasReader
<1> QED
  BY <1>1, <1>2, <1>5, <1>6 DEF TInv

(* Whoever stores characters for a process stores them for one that waits. *)
LEMMA WaitersOK ==
  ASSUME \A t \in Console : ReaderOK(t)
  PROVE  ReaderStillWaits
BY DEF ReaderOK, ReaderStillWaits, HasReader, Busy, RECEIVING

(* A step that leads to order again, with the machine up.                  *)
LEMMA UpIsTInv ==
  ASSUME IInv', LocalOK', panic' = "no", TalkInv', OnlyTty,
         \A x \in Proc \ {TTY} : has_int_msg'[x] = has_int_msg[x]
  PROVE  TInv'
<1>1. ReaderStillWaits'
  BY WaitersOK, PTL DEF TalkInv
<1> QED
  BY <1>1 DEF TInv, OnlyTty, OnlyResumeDeadlocks

(* What the conversations are about.                                       *)
talk == <<p_flags, p_recvfrom, p_sendto, mem, tty, ttypc, fspc, pc>>

LEMMA TalkKept == TalkInv /\ UNCHANGED talk => TalkInv'
<1> SUFFICES ASSUME TalkInv, UNCHANGED talk PROVE TalkInv'
  OBVIOUS
<1>1. /\ UNCHANGED <<p_flags, p_recvfrom, p_sendto, mem, tty, ttypc, fspc, pc>>
      /\ \A u \in User : /\ (Busy(u)' <=> Busy(u)) /\ (Reading(u)' <=> Reading(u))
                         /\ RequestOf(u)' = RequestOf(u) /\ DevRequestOf(u)' = DevRequestOf(u)
                         /\ AnswerTo(u)' = AnswerTo(u) /\ \A m : IsLineOf(u, m)' <=> IsLineOf(u, m)
  BY DEF talk, Busy, Reading, RequestOf, DevRequestOf, AnswerTo, IsLineOf
<1>2. \A t \in Console : HasReader(t)' <=> HasReader(t)
  BY <1>1 DEF HasReader
<1>3. \A u \in User : /\ Kept(u)' <=> Kept(u)
                      /\ Resuming(u)' <=> Resuming(u)
                      /\ FsHas(u)' <=> FsHas(u)
                      /\ FsServes(u)' <=> FsServes(u)
                      /\ FsHasLine(u)' <=> FsHasLine(u)
                      /\ FsTells(u)' <=> FsTells(u)
                      /\ TtyHas(u)' <=> TtyHas(u)
                      /\ FsAwaits(u)' <=> FsAwaits(u)
                      /\ TtyAnswers(u)' <=> TtyAnswers(u)
  BY <1>1, <1>2, TtyAssumption
     DEF Kept, Resuming, FsHas, FsServes, FsHasLine, FsTells, TtyHas, FsAwaits, TtyAnswers
<1>4. \A u \in User : (Fresh(u)' <=> Fresh(u)) /\ (Seen(u)' <=> Seen(u))
  BY <1>1, <1>3 DEF Fresh, Seen
<1>5. \A u \in User : UserOK(u)' /\ (Busy(u)' => Seen(u)')
  BY <1>1, <1>4 DEF TalkInv, UserOK
<1>6. \A t \in Console : ReaderOK(t)'
  BY <1>1, <1>2 DEF TalkInv, ReaderOK
<1>7. FsLoopInv' /\ FsGotInv'
  BY <1>1, <1>3, <1>4 DEF TalkInv, FsLoopInv, FsGotInv
<1>8. FsServeInv'
  BY <1>1, <1>3, <1>4 DEF TalkInv, FsServeInv
<1>9. TtyInv'
  BY <1>1, <1>3 DEF TalkInv, TtyInv
<1> QED
  BY <1>5, <1>6, <1>7, <1>8, <1>9 DEF TalkInv

LEMMA keyboard_handlerKeeps ==
  ASSUME TInv, NEW k \in Keys, keyboard_handler(k)
  PROVE  TInv'
<1>1. IInv' /\ panic = "no" /\ panic' = "no" /\ OnlyTty /\ has_int_msg' = has_int_msg
  <2>1. UNCHANGED vars /\ panic = "no"
    BY DEF keyboard_handler, ipcvars, vars
  <2> QED
    BY <2>1, StepIInv DEF TInv, vars
<1>2. LocalOK'
  <2>1. k \in Key
    BY KeysAssumption
  <2>2. kb_in' \in Seq(Key) /\ Len(kb_in') <= KB_IN_BYTES
    BY <2>1, TtyAssumption DEF keyboard_handler, TInv, LocalOK
  <2> QED
    BY <2>2 DEF keyboard_handler, ttyvars, TInv, LocalOK, Key
<1>3. TalkInv'
  BY <1>1, TalkKept DEF TInv, keyboard_handler, ipcvars, ttyvars, talk
<1> QED
  BY <1>1, <1>2, <1>3, UpIsTInv

(* What TTY and FS have to do with a process is in its call.               *)
LEMMA Involved ==
  ASSUME TalkInv, NEW u \in User, ~Busy(u)
  PROVE  /\ ~Kept(u) /\ ~Resuming(u) /\ ~FsHas(u) /\ ~FsServes(u) /\ ~FsHasLine(u) /\ ~FsTells(u)
<1>1. ~Kept(u)
  BY TtyAssumption DEF TalkInv, ReaderOK, Kept
<1>2. ~Resuming(u)
  <2> SUFFICES ASSUME Resuming(u) PROVE FALSE
    OBVIOUS
  <2>1. ~ \E v \in User : TtyAnswers(v)
    BY Messages DEF Resuming, TtyAnswers
  <2>2. PICK v \in User : Resuming(v) /\ Busy(v)
    BY <2>1, Names DEF TalkInv, TtyInv, Resuming
  <2> QED
    BY <2>2, Messages DEF Resuming
<1>3. ~FsServes(u) /\ ~FsTells(u)
  BY Names DEF TalkInv, FsServeInv, FsLoopInv, FsServes, FsTells, Fresh
<1>4. ~FsHas(u) /\ ~FsHasLine(u)
  <2> SUFFICES ASSUME FsHas(u) \/ FsHasLine(u) PROVE FALSE
    OBVIOUS
  <2>1. PICK v \in User : (FsHas(v) \/ FsHasLine(v)) /\ Busy(v)
    BY Names DEF TalkInv, FsGotInv, FsHas, FsHasLine, Fresh
  <2> QED
    BY <2>1, Messages DEF FsHas, FsHasLine
<1> QED
  BY <1>1, <1>2, <1>3, <1>4

LEMMA NobodySendsTo ==
  ASSUME NEW src, NEW dest \in Proc,
         \A x \in Proc : Sending(x) => p_sendto[x] \in Proc \ {src}
  PROVE  ~deadlock(src, dest)
<1>1. ChainClosed(Proc) /\ {t \in Proc : Sending(t) /\ p_sendto[t] = src} = {}
  BY DEF ChainClosed
<1> QED
  BY <1>1 DEF deadlock

LEMMA NotSending ==
  ASSUME NEW src, NEW dest \in Proc, ~Sending(dest)
  PROVE  ~deadlock(src, dest)
<1>1. ChainClosed({dest}) /\ {dest} \in SUBSET Proc
  BY DEF ChainClosed
<1>2. {t \in {dest} : Sending(t) /\ p_sendto[t] = src} = {}
  OBVIOUS
<1> QED
  BY <1>1, <1>2 DEF deadlock

LEMMA SendingElsewhere ==
  ASSUME NEW src, NEW dest \in Proc, NEW x \in Proc, p_sendto[dest] = x, x # src, ~Sending(x)
  PROVE  ~deadlock(src, dest)
<1>1. ChainClosed({dest, x}) /\ {dest, x} \in SUBSET Proc
  BY DEF ChainClosed
<1>2. {t \in {dest, x} : Sending(t) /\ p_sendto[t] = src} = {}
  OBVIOUS
<1> QED
  BY <1>1, <1>2 DEF deadlock

(* Who is sending to whom.                                                 *)
LEMMA WhoSends ==
  ASSUME TalkInv, IInv, LocalOK, NEW x \in Proc, Sending(x)
  PROVE  /\ x \in User \cup {TTY} => p_sendto[x] = FS
         /\ x = FS => \/ p_sendto[FS] = TTY /\ fspc.at = "sent" /\ mem[FS] = DevRequestOf(fspc.src)
                         /\ fspc.src \in User /\ Fresh(fspc.src)
                      \/ p_sendto[FS] \in User /\ p_flags[p_sendto[FS]] = {}
                         /\ FsTells(p_sendto[FS]) /\ Fresh(p_sendto[FS])
<1>1. p_flags[x] = {SENDING}
  BY Flags DEF Sending, SENDING, RECEIVING
<1>2. x \in User => p_sendto[x] = FS
  BY <1>1 DEF TalkInv, UserOK
<1>3. x = TTY => p_sendto[x] = FS
  BY <1>1, Names DEF TalkInv, TtyInv
<1>4. ASSUME x = FS
      PROVE  \/ p_sendto[FS] = TTY /\ fspc.at = "sent" /\ mem[FS] = DevRequestOf(fspc.src)
                  /\ fspc.src \in User /\ Fresh(fspc.src)
             \/ p_sendto[FS] \in User /\ p_flags[p_sendto[FS]] = {}
                  /\ FsTells(p_sendto[FS]) /\ Fresh(p_sendto[FS])
  <2>1. p_flags[FS] = {SENDING}
    BY <1>1, <1>4
  <2>2. fspc.at \in {"loop", "sent"}
    BY <2>1, Names DEF LocalOK, TalkInv, FsGotInv, FsServeInv, FsHas, FsHasLine, FsAwaits, TtyAnswers
  <2>3. CASE fspc.at = "loop"
    BY <2>1, <2>3 DEF TalkInv, FsLoopInv, FsTells
  <2>4. CASE fspc.at = "sent"
    BY <2>1, <2>4, Names DEF TalkInv, FsServeInv, FsAwaits, TtyAnswers
  <2> QED
    BY <2>1, <2>2, <2>3, <2>4
<1> QED
  BY <1>2, <1>3, <1>4, Names

-----------------------------------------------------------------------------
(* Processes.                                                              *)

(* What a process does neither changes who TTY stores for nor its line.    *)
LEMMA NotInCall ==
  ASSUME TalkInv, NEW u \in User, ~Kept(u), UNCHANGED <<tty, ttypc>>,
         p_flags'[TTY] = p_flags[TTY], mem'[TTY] = mem[TTY],
         \A v \in User \ {u} : pc'[v] = pc[v] /\ p_flags'[v] = p_flags[v]
  PROVE  /\ \A t \in Console : ReaderOK(t)'
         /\ \A v \in User \ {u} : /\ Busy(v)' <=> Busy(v)
                                  /\ Kept(v)' <=> Kept(v)
                                  /\ Resuming(v)' <=> Resuming(v)
                                  /\ Reading(v)' <=> Reading(v)
         /\ ~Kept(u)'
<1>1. \A t \in Console : HasReader(t)' <=> HasReader(t)
  BY DEF HasReader
<1>2. \A v \in User : TtyOf[v] \in Console
  BY TtyAssumption
<1>3. \A v \in User : Kept(v)' <=> Kept(v)
  BY <1>1, <1>2 DEF Kept
<1>4. \A v \in User \ {u} : Busy(v)' <=> Busy(v)
  BY DEF Busy
<1>5. \A v \in User \ {u} : Resuming(v)' <=> Resuming(v)
  BY MessagesKept DEF Resuming
<1>6. \A v \in User \ {u} : Reading(v)' <=> Reading(v)
  BY DEF Reading
<1>7. \A t \in Console : ReaderOK(t)'
  <2> SUFFICES ASSUME NEW t \in Console, HasReader(t)' PROVE ReaderOK(t)'
    BY DEF ReaderOK
  <2>1. /\ tty[t].procnr \in User /\ TtyOf[tty[t].procnr] = t /\ Busy(tty[t].procnr)
        /\ Reading(tty[t].procnr) /\ tty[t].left + tty[t].trans = pc[tty[t].procnr].len
    BY <1>1 DEF TalkInv, ReaderOK
  <2>2. tty[t].procnr # u
    BY <1>1, <2>1 DEF Kept
  <2> QED
    BY <1>4, <1>6, <2>1, <2>2 DEF ReaderOK
<1> QED
  BY <1>3, <1>4, <1>5, <1>6, <1>7

(* Nor what is said about the others, nor about it itself unless it enters *)
(* or leaves its call.                                                     *)
LEMMA UserSide ==
  ASSUME TalkInv, NEW u \in User, UNCHANGED <<tty, ttypc, fspc>>,
         \A p \in {TTY, FS} : /\ p_flags'[p] = p_flags[p] /\ mem'[p] = mem[p]
                              /\ p_recvfrom'[p] = p_recvfrom[p] /\ p_sendto'[p] = p_sendto[p],
         \A v \in User \ {u} : /\ pc'[v] = pc[v] /\ p_flags'[v] = p_flags[v] /\ mem'[v] = mem[v]
                               /\ p_recvfrom'[v] = p_recvfrom[v] /\ p_sendto'[v] = p_sendto[v],
         UserOK(u)',
         \/ ~Busy(u) /\ ~Busy(u)'
         \/ /\ Busy(u) /\ Busy(u)' /\ ~FsTells(u)
            /\ pc'[u].op = pc[u].op /\ pc'[u].len = pc[u].len
  PROVE  TalkInv'
<1>1. \A v \in User : Busy(v)' <=> Busy(v)
  BY DEF Busy
<1>2. ASSUME NEW v \in User, Busy(v)
      PROVE  /\ RequestOf(v)' = RequestOf(v) /\ DevRequestOf(v)' = DevRequestOf(v)
             /\ AnswerTo(v)' = AnswerTo(v) /\ (\A m : IsLineOf(v, m)' <=> IsLineOf(v, m))
             /\ (Reading(v)' <=> Reading(v)) /\ pc'[v].len = pc[v].len
  BY <1>2 DEF RequestOf, DevRequestOf, AnswerTo, IsLineOf, Reading
<1>3. \A t \in Console : HasReader(t)' <=> HasReader(t)
  BY DEF HasReader
<1>4. ASSUME NEW v \in User, Busy(v)
      PROVE  /\ Kept(v)' <=> Kept(v)
             /\ Resuming(v)' <=> Resuming(v)
             /\ FsHas(v)' <=> FsHas(v)
             /\ FsServes(v)' <=> FsServes(v)
             /\ FsHasLine(v)' <=> FsHasLine(v)
             /\ FsTells(v)' <=> FsTells(v)
             /\ Fresh(v)' <=> Fresh(v)
             /\ TtyHas(v)' <=> TtyHas(v)
             /\ FsAwaits(v)' <=> FsAwaits(v)
             /\ TtyAnswers(v)' <=> TtyAnswers(v)
  <2>1. TtyOf[v] \in Console
    BY TtyAssumption
  <2> QED
    BY <1>1, <1>2, <1>3, <1>4, <2>1
       DEF Kept, Resuming, FsHas, FsServes, FsHasLine, FsTells, Fresh, TtyHas, FsAwaits, TtyAnswers
<1>5. \A v \in User : UserOK(v)'
  <2>1. ASSUME NEW v \in User \ {u} PROVE UserOK(v)'
    BY <2>1 DEF TalkInv, UserOK, RequestOf
  <2> QED
    BY <2>1
<1>6. \A v \in User : Busy(v)' => Seen(v)'
  BY <1>1, <1>4 DEF TalkInv, Seen
<1>7. \A t \in Console : ReaderOK(t)'
  BY <1>1, <1>2, <1>3 DEF TalkInv, ReaderOK
<1>8. FsLoopInv'
  <2>1. \A v \in User : FsTells(v) /\ Fresh(v) => v # u
    BY DEF Fresh
  <2> QED
    BY <1>4, <2>1 DEF TalkInv, FsLoopInv, Fresh
<1>9. FsGotInv'
  BY <1>2, <1>4 DEF TalkInv, FsGotInv, Fresh
<1>10. FsServeInv'
  BY <1>1, <1>2, <1>4 DEF TalkInv, FsServeInv
<1>11. TtyInv'
  <2>1. \A v \in User : FsAwaits(v) \/ TtyAnswers(v) => Busy(v)
    BY DEF TalkInv, FsServeInv, FsAwaits, TtyAnswers
  <2> QED
    BY <1>1, <1>2, <1>4, <2>1 DEF TalkInv, TtyInv
<1> QED
  BY <1>5, <1>6, <1>7, <1>8, <1>9, <1>10, <1>11 DEF TalkInv

LEMMA UserSendKeeps ==
  ASSUME TInv, NEW u \in User, NEW op \in OpsOf[u], NEW n \in LensOf(op), UserSend(u, op, n)
  PROVE  TInv'
<1> DEFINE t == Msg(op, TtyOf[u], u, n)
<1>1. op \in {"OPEN", "READ", "WRITE"} /\ n \in Nat /\ u \in Proc /\ FS \in Proc /\ u # FS /\ u # TTY
  <2>1. op \in {"OPEN", "READ", "WRITE"}
    BY TtyAssumption
  <2> QED
    BY <2>1, Lengths, Names
<1>2. t \in Type
  BY <1>1, Types
<1> HIDE DEF t
<1>3. SendStep(u, FS, t) /\ pc[u].at = "run" /\ UNCHANGED <<kb_in, key_pressed, current, tty, ttypc, fspc>>
  BY DEF UserSend, kbvars, ttyvars, t
<1>4. pc' = [pc EXCEPT ![u] = [at |-> "sent", op |-> op, len |-> n]]
  BY DEF UserSend
<1>5. /\ panic = "no" /\ p_flags[u] = {} /\ has_int_msg' = has_int_msg /\ IInv'
      /\ Circle(u, FS, t) \/ Delivered(u, FS, t) \/ Blocked(u, FS, t)
  BY <1>1, <1>2, <1>3, SendOutcome DEF TInv
<1>6. TalkInv /\ IInv /\ LocalOK /\ OnlyTty
  BY <1>5 DEF TInv
<1>7. ~Circle(u, FS, t)
  <2>1. \A x \in Proc : Sending(x) => p_sendto[x] \in Proc \ {u}
    BY <1>1, <1>3, <1>6, WhoSends, Names DEF Fresh, Busy
  <2> QED
    BY <1>1, <2>1, NobodySendsTo DEF Circle
<1>8. /\ pc'[u] = [at |-> "sent", op |-> op, len |-> n]
      /\ \A v \in User \ {u} : pc'[v] = pc[v]
      /\ LocalOK'
  BY <1>1, <1>3, <1>4, <1>6 DEF LocalOK
<1>9. RequestOf(u)' = Stamped(u, t) /\ ~Busy(u)
  BY <1>3, <1>8 DEF RequestOf, t, Busy
<1>10. \A v \in User \ {u} :
         /\ RequestOf(v)' = RequestOf(v) /\ DevRequestOf(v)' = DevRequestOf(v)
         /\ AnswerTo(v)' = AnswerTo(v) /\ \A m : IsLineOf(v, m)' <=> IsLineOf(v, m)
  BY <1>8, MessagesKept
<1>11. CASE Delivered(u, FS, t)
  <2>1. panic' = "no" /\ fspc.at = "got" /\ p_recvfrom[FS] = ANY
    BY <1>1, <1>6, <1>11, Names
       DEF Delivered, TalkInv, FsLoopInv, FsServeInv, FsTells, FsGotInv, FsHas, FsHasLine, FsAwaits,
           TtyAnswers, LocalOK
  <2>2. /\ p_flags'[FS] = {} /\ p_flags'[TTY] = p_flags[TTY] /\ mem'[FS] = RequestOf(u)'
        /\ mem'[TTY] = mem[TTY] /\ p_recvfrom'[TTY] = p_recvfrom[TTY] /\ p_sendto' = p_sendto
        /\ p_flags'[u] = {}
        /\ \A v \in User \ {u} : p_flags'[v] = p_flags[v] /\ mem'[v] = mem[v]
                                 /\ p_recvfrom'[v] = p_recvfrom[v]
    BY <1>1, <1>5, <1>9, <1>11, Names DEF Delivered
  <2>3. /\ \A t1 \in Console : ReaderOK(t1)'
        /\ \A v \in User \ {u} : /\ Busy(v)' <=> Busy(v)
                                 /\ Kept(v)' <=> Kept(v)
                                 /\ Resuming(v)' <=> Resuming(v)
                                 /\ Reading(v)' <=> Reading(v)
        /\ ~Kept(u)'
    <3>1. ~Kept(u)
      BY <1>6, <1>9, Involved
    <3> QED
      BY <1>3, <1>6, <1>8, <2>2, <3>1, NotInCall
  <2>4. ~Resuming(u)' /\ Busy(u)' /\ FsHas(u)'
    <3>1. ASSUME p_flags[TTY] = {SENDING}, IsLineOf(u, mem[TTY])' PROVE FALSE
      <4>1. PICK v \in User : Resuming(v) /\ Busy(v)
        BY <1>6, <2>1, <3>1, Names DEF TalkInv, TtyInv, TtyAnswers
      <4>2. v # u
        BY <1>9, <4>1
      <4>3. IsLineOf(v, mem[TTY])
        BY <4>1 DEF Resuming
      <4>4. mem[TTY].type.who = v
        BY <4>3, Messages
      <4>5. mem'[TTY].type.who = u
        BY <3>1 DEF IsLineOf, Stamped, Msg
      <4> QED
        BY <2>2, <4>2, <4>4, <4>5
    <3> QED
      BY <1>3, <1>8, <2>1, <2>2, <3>1 DEF Resuming, Busy, FsHas
  <2>5. \A v \in User : UserOK(v)'
    <3>1. ASSUME NEW v \in User, v # u PROVE UserOK(v)'
      BY <1>6, <1>8, <1>10, <2>2, <3>1 DEF TalkInv, UserOK
    <3>2. UserOK(u)'
      BY <1>8, <2>2, Names DEF UserOK
    <3> QED
      BY <3>1, <3>2
  <2>6. \A v \in User : Busy(v)' => Seen(v)'
    <3>1. ASSUME NEW v \in User, v # u, Busy(v) PROVE Seen(v)'
      <4>1. Seen(v) /\ ~FsHas(v) /\ ~FsServes(v) /\ ~FsHasLine(v) /\ ~FsTells(v)
        BY <1>6, <1>11, <2>1, <3>1, Names
           DEF TalkInv, Delivered, FsHas, FsServes, FsHasLine, FsTells
      <4> QED
        BY <2>3, <3>1, <4>1 DEF Seen
    <3> QED
      BY <2>3, <2>4, <3>1 DEF Seen
  <2>7. FsLoopInv' /\ FsGotInv' /\ FsServeInv'
    BY <1>3, <2>1, <2>3, <2>4 DEF FsLoopInv, FsGotInv, FsServeInv, Fresh
  <2>8. TtyInv'
    <3>1. ASSUME NEW v \in User, Resuming(v), Busy(v), Reading(v), ~Kept(v)
          PROVE  Resuming(v)' /\ Busy(v)' /\ Reading(v)' /\ ~Kept(v)'
      BY <1>9, <2>3, <3>1
    <3> QED
      BY <1>3, <1>6, <2>1, <2>2, <3>1 DEF TalkInv, TtyInv, TtyAnswers, FsAwaits
  <2> QED
    BY <1>5, <1>6, <1>8, <2>1, <2>3, <2>5, <2>6, <2>7, <2>8, UpIsTInv DEF TalkInv
<1>12. CASE Blocked(u, FS, t)
  <2>2. /\ p_flags'[FS] = p_flags[FS] /\ p_flags'[TTY] = p_flags[TTY] /\ mem'[FS] = mem[FS]
        /\ mem'[TTY] = mem[TTY] /\ p_recvfrom' = p_recvfrom
        /\ p_sendto'[FS] = p_sendto[FS] /\ p_sendto'[TTY] = p_sendto[TTY]
        /\ p_flags'[u] = {SENDING} /\ p_sendto'[u] = FS /\ mem'[u] = RequestOf(u)'
        /\ \A v \in User \ {u} : p_flags'[v] = p_flags[v] /\ mem'[v] = mem[v]
                                 /\ p_sendto'[v] = p_sendto[v]
        /\ panic' = "no"
    BY <1>1, <1>5, <1>9, <1>12, Names DEF Blocked
  <2>3. ~Busy(u)' /\ UserOK(u)'
    BY <1>8, <2>2, Names DEF Busy, UserOK
  <2>4. TalkInv'
    BY <1>3, <1>6, <1>8, <1>9, <2>2, <2>3, UserSide
  <2> QED
    BY <1>5, <1>6, <1>8, <2>2, <2>4, UpIsTInv
<1> QED
  BY <1>5, <1>7, <1>11, <1>12

(* Only TTY has interrupts to take.                                        *)
LEMMA QuietReceive ==
  ASSUME TInv, NEW p \in Proc \ {TTY}, NEW src \in Proc \cup {ANY}, ReceiveStep(p, src)
  PROVE  /\ panic = "no" /\ panic' = "no" /\ p_flags[p] = {} /\ has_int_msg' = has_int_msg
         /\ Waits(p, src) \/ \E from \in Proc : Taken(p, src, from)
         /\ IInv' /\ IInv /\ TalkInv /\ LocalOK /\ OnlyTty
<1>1. IInv /\ OnlyTty /\ has_int_msg[p] = 0
  BY DEF TInv, OnlyTty
<1>2. /\ panic = "no" /\ panic' = "no" /\ p_flags[p] = {} /\ IInv'
      /\ Waits(p, src) \/ \E from \in Proc : Taken(p, src, from)
  BY <1>1, ReceiveOutcome DEF Interrupts
<1>3. has_int_msg' = has_int_msg
  BY <1>1 DEF ReceiveStep, ReceiveInterrupt, TakesInt, ReceiveFetch, ReceiveBlock
<1> QED
  BY <1>1, <1>2, <1>3 DEF TInv

LEMMA UserReceiveKeeps ==
  ASSUME TInv, NEW u \in User, UserReceive(u)
  PROVE  TInv'
<1>1. u \in Proc /\ FS \in Proc /\ TTY \in Proc /\ u # FS /\ u # TTY /\ FS # TTY
      /\ FS # ANY /\ FS # INTERRUPT
  BY Names
<1>2. /\ ReceiveStep(u, FS) /\ pc[u].at = "sent"
      /\ UNCHANGED <<kb_in, key_pressed, current, tty, ttypc, fspc>>
      /\ pc' = [pc EXCEPT ![u].at = "wait"]
  BY DEF UserReceive, kbvars, ttyvars
<1>3. /\ panic = "no" /\ panic' = "no" /\ p_flags[u] = {} /\ IInv' /\ has_int_msg' = has_int_msg
      /\ Waits(u, FS) \/ \E from \in Proc : Taken(u, FS, from)
  BY <1>1, <1>2, QuietReceive
<1>4. TalkInv /\ IInv /\ LocalOK /\ OnlyTty
  BY <1>1, <1>2, QuietReceive
<1>5. /\ pc'[u] = [pc[u] EXCEPT !.at = "wait"]
      /\ \A v \in User \ {u} : pc'[v] = pc[v]
      /\ pc[u] \in [at : {"run", "sent", "wait"}, op : {"none", "OPEN", "READ", "WRITE"}, len : Nat]
  BY <1>2, <1>4 DEF LocalOK
<1>6. pc'[u].at = "wait" /\ pc'[u].op = pc[u].op /\ pc'[u].len = pc[u].len
  BY <1>5
<1>7. LocalOK'
  BY <1>2, <1>4 DEF LocalOK
<1>8. Busy(u) /\ UserOK(u)
  BY <1>2, <1>3, <1>4 DEF Busy, TalkInv
<1>9. CASE Waits(u, FS)
  <2>1. /\ p_flags'[u] = {RECEIVING} /\ p_recvfrom'[u] = FS /\ p_sendto' = p_sendto
        /\ \A x \in Proc \ {u} : p_flags'[x] = p_flags[x] /\ p_recvfrom'[x] = p_recvfrom[x]
                                 /\ mem'[x] = mem[x]
        /\ ~FsTells(u)
    BY <1>1, <1>9 DEF Waits, FsTells
  <2>2. Busy(u)' /\ UserOK(u)'
    BY <1>2, <1>5, <1>6, <1>7, <1>8, <2>1, Names DEF Busy, UserOK
  <2>3. TalkInv'
    BY <1>1, <1>2, <1>4, <1>5, <1>6, <1>7, <1>8, <2>1, <2>2, UserSide, Names
  <2> QED
    BY <1>3, <1>4, <1>5, <1>6, <1>7, <2>3, UpIsTInv
<1>10. CASE \E from \in Proc : Taken(u, FS, from)
  <2>1. Taken(u, FS, FS)
    BY <1>1, <1>10 DEF Taken
  <2>2. /\ p_flags[FS] = {SENDING} /\ p_sendto[FS] = u /\ p_flags'[FS] = {} /\ p_flags'[u] = {}
        /\ p_recvfrom' = p_recvfrom
        /\ \A x \in Proc \ {FS} : p_flags'[x] = p_flags[x] /\ p_sendto'[x] = p_sendto[x]
        /\ \A x \in Proc \ {u} : mem'[x] = mem[x]
    BY <1>1, <1>3, <2>1 DEF Taken
  <2>3. fspc.at = "loop" /\ FsTells(u) /\ Fresh(u)
    <3>1. Sending(FS)
      BY <2>2 DEF Sending
    <3>2. p_sendto[FS] # TTY
      BY <1>1, <2>2
    <3> QED
      BY <1>1, <1>4, <2>2, <3>1, <3>2, WhoSends DEF FsTells
  <2>4. ~Kept(u) /\ ~Resuming(u)
    BY <2>3 DEF Fresh
  <2>5. /\ \A t1 \in Console : ReaderOK(t1)'
        /\ \A v \in User \ {u} : /\ Busy(v)' <=> Busy(v)
                                 /\ Kept(v)' <=> Kept(v)
                                 /\ Resuming(v)' <=> Resuming(v)
                                 /\ Reading(v)' <=> Reading(v)
        /\ ~Kept(u)'
    <3>1. \A v \in User \ {u} : p_flags'[v] = p_flags[v]
      BY <1>1, <2>2, Names
    <3>2. p_flags'[TTY] = p_flags[TTY] /\ mem'[TTY] = mem[TTY]
      BY <1>1, <2>2
    <3> QED
      BY <1>2, <1>4, <1>5, <1>6, <1>7, <2>4, <3>1, <3>2, NotInCall
  <2>6. ~Busy(u)' /\ UserOK(u)'
    BY <1>1, <1>5, <1>6, <1>7, <1>8, <2>2, Names DEF Busy, UserOK
  <2>7. \A v \in User : UserOK(v)'
    <3>1. ASSUME NEW v \in User \ {u} PROVE UserOK(v)'
      BY <1>1, <1>4, <1>5, <1>6, <1>7, <2>2, <3>1, Names DEF TalkInv, UserOK, RequestOf
    <3> QED
      BY <2>6, <3>1
  <2>8. \A v \in User : Busy(v)' => Seen(v)'
    <3>1. ASSUME NEW v \in User \ {u}, Busy(v) PROVE Kept(v)' \/ Resuming(v)'
      <4>1. Seen(v)
        BY <1>4, <3>1 DEF TalkInv
      <4> QED
        BY <2>2, <2>3, <2>5, <3>1, <4>1 DEF Seen, FsHas, FsServes, FsHasLine, FsTells
    <3> QED
      BY <2>5, <2>6, <3>1 DEF Seen
  <2>9. FsLoopInv' /\ FsGotInv' /\ FsServeInv'
    BY <1>2, <2>2, <2>3 DEF FsLoopInv, FsGotInv, FsServeInv
  <2>10. TtyInv'
    <3>1. \A v \in User : ~FsAwaits(v) /\ ~TtyAnswers(v)
      BY <2>3 DEF FsAwaits, TtyAnswers
    <3>2. \A v \in User : Resuming(v) => v # u
      BY <2>4
    <3>3. mem'[TTY] = mem[TTY] /\ p_flags'[TTY] = p_flags[TTY] /\ p_sendto'[TTY] = p_sendto[TTY]
      BY <1>1, <2>2
    <3> QED
      BY <1>2, <1>4, <2>2, <2>5, <3>1, <3>2, <3>3 DEF TalkInv, TtyInv
  <2> QED
    BY <1>3, <1>4, <1>5, <1>6, <1>7, <2>5, <2>7, <2>8, <2>9, <2>10, UpIsTInv DEF TalkInv
<1> QED
  BY <1>3, <1>9, <1>10

LEMMA UserReturnKeeps ==
  ASSUME TInv, NEW u \in User, UserReturn(u)
  PROVE  TInv'
<1>1. /\ pc[u].at = "wait" /\ p_flags[u] = {} /\ panic = "no" /\ UNCHANGED vars
      /\ UNCHANGED <<kb_in, key_pressed, current, tty, ttypc, fspc>>
      /\ pc' = [pc EXCEPT ![u] = [at |-> "run", op |-> "none", len |-> 0]]
  BY DEF UserReturn, CanCall, ipcvars, kbvars, ttyvars, vars
<1>2. IInv' /\ panic' = "no" /\ has_int_msg' = has_int_msg
      /\ UNCHANGED <<p_flags, p_recvfrom, p_sendto, mem>>
  BY <1>1, StepIInv DEF TInv, vars
<1>3. TalkInv /\ LocalOK /\ OnlyTty
  BY <1>1 DEF TInv
<1>4. /\ pc'[u] = [at |-> "run", op |-> "none", len |-> 0]
      /\ \A v \in User \ {u} : pc'[v] = pc[v]
      /\ LocalOK'
  BY <1>1, <1>3 DEF LocalOK
<1>5. ~Busy(u) /\ ~Busy(u)' /\ UserOK(u)'
  BY <1>1, <1>2, <1>4, Names DEF Busy, UserOK
<1>6. TalkInv'
  BY <1>1, <1>2, <1>3, <1>4, <1>5, UserSide
<1> QED
  BY <1>2, <1>3, <1>4, <1>6, UpIsTInv

-----------------------------------------------------------------------------
(* FS and TTY.                                                             *)

(* What they do leaves processes in their calls.                           *)
LEMMA SystemSide ==
  ASSUME TalkInv, pc' = pc, 
         \A u \in User : /\ p_flags'[u] = p_flags[u] /\ mem'[u] = mem[u]
                         /\ p_recvfrom'[u] = p_recvfrom[u] /\ p_sendto'[u] = p_sendto[u]
  PROVE  \A u \in User :
           /\ UserOK(u)' /\ (Busy(u)' <=> Busy(u)) /\ (Reading(u)' <=> Reading(u))
           /\ RequestOf(u)' = RequestOf(u) /\ DevRequestOf(u)' = DevRequestOf(u)
           /\ AnswerTo(u)' = AnswerTo(u) /\ \A m : IsLineOf(u, m)' <=> IsLineOf(u, m)
BY DEF TalkInv, UserOK, Busy, Reading, RequestOf, DevRequestOf, AnswerTo, IsLineOf

(* And what FS does, TTY's readers.                                        *)
LEMMA ReadersSide ==
  ASSUME TalkInv, pc' = pc, UNCHANGED <<tty, ttypc>>,
         \A u \in User : Busy(u) => Busy(u)'
  PROVE  (\A t \in Console : ReaderOK(t)') /\ \A u \in User : Kept(u)' <=> Kept(u)
<1>1. \A t \in Console : HasReader(t)' <=> HasReader(t)
  BY DEF HasReader
<1>2. \A u \in User : TtyOf[u] \in Console
  BY TtyAssumption
<1> QED
  BY <1>1, <1>2 DEF TalkInv, ReaderOK, Kept, Reading

LEMMA clock_handlerKeeps ==
  ASSUME TInv, clock_handler
  PROVE  TInv'
<1>1. InformStep(TTY) /\ UNCHANGED <<kb_in, key_pressed, current, tty, ttypc, fspc, pc>> /\ panic = "no"
  BY DEF clock_handler, kbvars, ttyvars, InformStep, InformDeliver, InformPend
<1>2. IInv' /\ TalkInv /\ LocalOK /\ OnlyTty /\ IInv
  BY <1>1, Names, StepIInv DEF TInv, Next
<1>3. LocalOK'
  BY <1>1, <1>2 DEF LocalOK
<1>4. DOMAIN mem = Proc /\ DOMAIN p_flags = Proc /\ DOMAIN p_recvfrom = Proc /\ DOMAIN has_int_msg = Proc
  BY <1>2 DEF IInv, TypeOK
<1>5. panic' = "no" /\ \A x \in Proc \ {TTY} : has_int_msg'[x] = has_int_msg[x]
  BY <1>1, <1>4 DEF InformStep, InformDeliver, InformPend
<1>6. CASE InformPend(TTY)
  BY <1>1, <1>2, <1>3, <1>5, <1>6, TalkKept, UpIsTInv DEF InformPend, talk
<1>7. CASE InformDeliver(TTY)
  <2>1. p_flags[TTY] = {RECEIVING}
    BY <1>2, <1>7, Names, Flags DEF InformDeliver, Informs
  <2>2. /\ p_flags'[TTY] = {} /\ mem'[TTY] = IntMessage /\ p_sendto' = p_sendto
        /\ \A x \in Proc \ {TTY} : p_flags'[x] = p_flags[x] /\ mem'[x] = mem[x]
                                   /\ p_recvfrom'[x] = p_recvfrom[x]
    BY <1>4, <1>7, <2>1, Names DEF InformDeliver
  <2>3. \A u \in User :
           /\ UserOK(u)' /\ (Busy(u)' <=> Busy(u)) /\ (Reading(u)' <=> Reading(u))
           /\ RequestOf(u)' = RequestOf(u) /\ DevRequestOf(u)' = DevRequestOf(u)
           /\ AnswerTo(u)' = AnswerTo(u) /\ \A m : IsLineOf(u, m)' <=> IsLineOf(u, m)
    BY <1>1, <1>2, <2>2, Names, SystemSide
  <2>4. (\A t \in Console : ReaderOK(t)') /\ \A u \in User : Kept(u)' <=> Kept(u)
    BY <1>1, <1>2, <2>3, ReadersSide
  <2>5. \A u \in User : ~Resuming(u) /\ ~Resuming(u)' /\ ~TtyHas(u) /\ ~TtyAnswers(u)
    BY <2>1, <2>2, Names DEF Resuming, TtyHas, TtyAnswers
  <2>6. p_flags'[FS] = p_flags[FS] /\ mem'[FS] = mem[FS] /\ p_recvfrom'[FS] = p_recvfrom[FS]
    BY <2>2, Names
  <2>7. \A u \in User : /\ FsHas(u)' <=> FsHas(u)
                        /\ FsServes(u)' <=> FsServes(u)
                        /\ FsHasLine(u)' <=> FsHasLine(u)
                        /\ FsTells(u)' <=> FsTells(u)
                        /\ Fresh(u)' <=> Fresh(u)
    BY <1>1, <2>2, <2>3, <2>4, <2>5, <2>6 DEF FsHas, FsServes, FsHasLine, FsTells, Fresh
  <2>8. \A u \in User : Busy(u)' => Seen(u)'
    BY <1>2, <2>3, <2>4, <2>5, <2>7 DEF TalkInv, Seen
  <2>9. FsLoopInv' /\ FsGotInv'
    BY <1>1, <1>2, <2>2, <2>3, <2>6, <2>7, Names DEF TalkInv, FsLoopInv, FsGotInv
  <2>10. FsServeInv'
    BY <1>1, <1>2, <2>2, <2>3, <2>4, <2>5, <2>6, <2>7 DEF TalkInv, FsServeInv
  <2>11. TtyInv'
    BY <2>2 DEF TtyInv, IntMessage
  <2> QED
    BY <1>2, <1>3, <1>5, <2>3, <2>4, <2>8, <2>9, <2>10, <2>11, UpIsTInv DEF TalkInv
<1> QED
  BY <1>1, <1>6, <1>7 DEF InformStep

LEMMA FsReceiveKeeps ==
  ASSUME TInv, FsReceive
  PROVE  TInv'
<1>1. FS \in Proc \ {TTY} /\ TTY \in Proc /\ User \subseteq Proc \ {TTY, FS} /\ TTY # FS
  BY Names
<1>2. /\ fspc.at = "loop" /\ ReceiveStep(FS, ANY) /\ fspc' = [fspc EXCEPT !.at = "got"]
      /\ UNCHANGED <<kb_in, key_pressed, current, tty, ttypc, pc>>
  BY DEF FsReceive, kbvars, ttyvars
<1>3. /\ panic = "no" /\ panic' = "no" /\ p_flags[FS] = {} /\ IInv' /\ has_int_msg' = has_int_msg
      /\ Waits(FS, ANY) \/ \E from \in Proc : Taken(FS, ANY, from)
      /\ TalkInv /\ IInv /\ LocalOK /\ OnlyTty
  BY <1>1, <1>2, QuietReceive
<1>4. fspc'.at = "got" /\ LocalOK'
  BY <1>2, <1>3 DEF LocalOK
<1>5. \A u \in User : /\ ~FsHas(u) /\ ~FsServes(u) /\ ~FsHasLine(u) /\ ~FsTells(u)
                      /\ ~FsAwaits(u) /\ ~TtyAnswers(u)
                      /\ Busy(u) => Kept(u) \/ Resuming(u)
  BY <1>2, <1>3, Names
     DEF FsHas, FsServes, FsHasLine, FsTells, FsAwaits, TtyAnswers, Seen, TalkInv
<1>6. FsLoopInv' /\ FsServeInv'
  BY <1>4 DEF FsLoopInv, FsServeInv
<1>7. CASE Waits(FS, ANY)
  <2>1. /\ p_flags'[FS] = {RECEIVING} /\ p_recvfrom'[FS] = ANY /\ p_sendto' = p_sendto
        /\ \A x \in Proc \ {FS} : p_flags'[x] = p_flags[x] /\ p_recvfrom'[x] = p_recvfrom[x]
                                  /\ mem'[x] = mem[x]
    BY <1>7 DEF Waits
  <2>2. \A u \in User :
           /\ UserOK(u)' /\ (Busy(u)' <=> Busy(u)) /\ (Reading(u)' <=> Reading(u))
           /\ RequestOf(u)' = RequestOf(u) /\ DevRequestOf(u)' = DevRequestOf(u)
           /\ AnswerTo(u)' = AnswerTo(u) /\ \A m : IsLineOf(u, m)' <=> IsLineOf(u, m)
    BY <1>1, <1>2, <1>3, <2>1, SystemSide
  <2>3. (\A t \in Console : ReaderOK(t)') /\ \A u \in User : Kept(u)' <=> Kept(u)
    BY <1>2, <1>3, <2>2, ReadersSide
  <2>4. \A u \in User : Resuming(u)' <=> Resuming(u)
    BY <1>1, <2>1, <2>2 DEF Resuming
  <2>5. \A u \in User : Busy(u)' => Seen(u)'
    BY <1>5, <2>2, <2>3, <2>4 DEF Seen
  <2>6. FsGotInv'
    BY <2>1 DEF FsGotInv
  <2>7. TtyInv'
    BY <1>1, <1>2, <1>3, <1>5, <2>1, <2>2, <2>3, <2>4 DEF TalkInv, TtyInv
  <2> QED
    BY <1>3, <1>4, <1>6, <2>2, <2>3, <2>5, <2>6, <2>7, UpIsTInv DEF TalkInv
<1>8. ASSUME NEW u \in User, Taken(FS, ANY, u)
      PROVE  TInv'
  <2>1. /\ p_flags[u] = {SENDING} /\ p_sendto[u] = FS /\ p_flags'[u] = {} /\ p_flags'[FS] = {}
        /\ p_recvfrom' = p_recvfrom
        /\ \A x \in Proc \ {u} : p_flags'[x] = p_flags[x] /\ p_sendto'[x] = p_sendto[x]
        /\ mem'[FS] = mem[u] /\ \A x \in Proc \ {FS} : mem'[x] = mem[x]
    BY <1>1, <1>3, <1>8 DEF Taken
  <2>2. mem[u] = RequestOf(u) /\ pc[u].at = "sent" /\ ~Busy(u)
    BY <1>3, <2>1, Names DEF TalkInv, UserOK, Busy
  <2>3. ~Kept(u)
    BY <1>3, <2>2, Involved
  <2>4. /\ \A t \in Console : ReaderOK(t)'
        /\ \A v \in User \ {u} : /\ Busy(v)' <=> Busy(v)
                                 /\ Kept(v)' <=> Kept(v)
                                 /\ Resuming(v)' <=> Resuming(v)
                                 /\ Reading(v)' <=> Reading(v)
        /\ ~Kept(u)'
    BY <1>1, <1>2, <1>3, <2>1, <2>3, NotInCall
  <2>5. /\ \A v \in User :
             /\ RequestOf(v)' = RequestOf(v) /\ DevRequestOf(v)' = DevRequestOf(v)
             /\ AnswerTo(v)' = AnswerTo(v) /\ (Reading(v)' <=> Reading(v))
             /\ \A m : IsLineOf(v, m)' <=> IsLineOf(v, m)
    BY <1>2, MessagesKept
  <2>6. Busy(u)' /\ FsHas(u)' /\ UserOK(u)'
    <3>1. UserOK(u)
      BY <1>3 DEF TalkInv
    <3> QED
      BY <1>2, <1>4, <2>1, <2>2, <2>5, <3>1, Names DEF Busy, FsHas, UserOK
  <2>7. ~Resuming(u)'
    <3>1. ~Resuming(u)
      BY <1>3, <2>2, Involved
    <3> QED
      BY <1>1, <2>1, <2>5, <3>1 DEF Resuming
  <2>8. \A v \in User : UserOK(v)'
    <3>1. ASSUME NEW v \in User \ {u} PROVE UserOK(v)'
      BY <1>1, <1>2, <1>3, <2>1, <2>5, <3>1 DEF TalkInv, UserOK
    <3> QED
      BY <2>6, <3>1
  <2>9. \A v \in User : Busy(v)' => Seen(v)'
    BY <1>5, <2>4, <2>6 DEF Seen
  <2>10. FsGotInv'
    BY <2>4, <2>6, <2>7 DEF FsGotInv, Fresh
  <2>11. TtyInv'
    <3>1. \A v \in User : Busy(v) => v # u
      BY <2>2
    <3> QED
      BY <1>1, <1>2, <1>3, <1>5, <2>1, <2>4, <3>1 DEF TalkInv, TtyInv
  <2> QED
    BY <1>3, <1>4, <1>6, <2>4, <2>8, <2>9, <2>10, <2>11, UpIsTInv DEF TalkInv
<1>9. ASSUME Taken(FS, ANY, TTY)
      PROVE  TInv'
  <2>1. /\ p_flags[TTY] = {SENDING} /\ p_flags'[TTY] = {} /\ p_flags'[FS] = {}
        /\ p_recvfrom' = p_recvfrom
        /\ \A x \in Proc \ {TTY} : p_flags'[x] = p_flags[x] /\ p_sendto'[x] = p_sendto[x]
        /\ mem'[FS] = mem[TTY] /\ \A x \in Proc \ {FS} : mem'[x] = mem[x]
    BY <1>1, <1>3, <1>9 DEF Taken
  <2>2. ttypc.at \in {"service", "receive"}
        /\ \E u \in User : Resuming(u) /\ Busy(u) /\ Reading(u) /\ ~Kept(u)
    BY <1>3, <1>5, <2>1, Names DEF TalkInv, TtyInv
  <2>3. PICK u \in User : Resuming(u) /\ Busy(u) /\ Reading(u) /\ ~Kept(u)
    BY <2>2
  <2>4. \A v \in User :
           /\ UserOK(v)' /\ (Busy(v)' <=> Busy(v)) /\ (Reading(v)' <=> Reading(v))
           /\ RequestOf(v)' = RequestOf(v) /\ DevRequestOf(v)' = DevRequestOf(v)
           /\ AnswerTo(v)' = AnswerTo(v) /\ \A m : IsLineOf(v, m)' <=> IsLineOf(v, m)
    BY <1>1, <1>2, <1>3, <2>1, SystemSide
  <2>5. (\A t \in Console : ReaderOK(t)') /\ \A v \in User : Kept(v)' <=> Kept(v)
    BY <1>2, <1>3, <2>4, ReadersSide
  <2>6. FsHasLine(u)' /\ \A v \in User : ~Resuming(v)'
    BY <1>4, <2>1, <2>3, <2>4, Names DEF FsHasLine, Resuming
  <2>7. \A v \in User : Busy(v)' => Seen(v)'
    <3>1. ASSUME NEW v \in User, Resuming(v) PROVE v = u
      BY <2>3, <3>1, Messages DEF Resuming
    <3> QED
      BY <1>5, <2>4, <2>5, <2>6, <3>1 DEF Seen
  <2>8. FsGotInv'
    BY <2>3, <2>4, <2>5, <2>6 DEF FsGotInv, Fresh
  <2>9. TtyInv'
    BY <1>2, <2>1, <2>2 DEF TtyInv
  <2> QED
    BY <1>3, <1>4, <1>6, <2>4, <2>5, <2>7, <2>8, <2>9, UpIsTInv DEF TalkInv
<1>10. ~Taken(FS, ANY, FS)
  BY DEF Taken
<1> QED
  BY <1>3, <1>7, <1>8, <1>9, <1>10, Names

(* A step that stops the machine.                                          *)
LEMMA DownIsTInv ==
  ASSUME IInv', LocalOK', panic' # "no", OnlyResumeDeadlocks', OnlyTty, has_int_msg' = has_int_msg,
         ReaderStillWaits, p_flags' = p_flags, pc' = pc,
         \A t \in Console : tty'[t].left > 0 => tty'[t] = tty[t]
  PROVE  TInv'
<1>1. ReaderStillWaits'
  BY DEF ReaderStillWaits, Reading
<1> QED
  BY <1>1 DEF TInv, OnlyTty

(* A message between FS and TTY is no interrupt's.                         *)
LEMMA NoInterrupts ==
  ASSUME TalkInv, NEW u \in User, Busy(u)
  PROVE  /\ pc[u].op \in {"OPEN", "READ", "WRITE"} /\ pc[u].len \in LensOf(pc[u].op)
         /\ RequestOf(u).type \in Type \ {HARD_INT}
         /\ DevRequestOf(u).type \in Type \ {HARD_INT}
         /\ AnswerTo(u).type \in Type \ {HARD_INT}
         /\ \A m : IsLineOf(u, m) => m.type \in Type \ {HARD_INT}
<1>1. pc[u].op \in {"OPEN", "READ", "WRITE"} /\ pc[u].len \in LensOf(pc[u].op)
  BY TtyAssumption DEF TalkInv, UserOK, Busy
<1> QED
  BY <1>1, Types, TypeAssumption DEF RequestOf, DevRequestOf, AnswerTo, IsLineOf, Stamped

LEMMA FsForwardKeeps ==
  ASSUME TInv, FsForward
  PROVE  TInv'
<1>1. FS \in Proc \ {TTY} /\ TTY \in Proc /\ User \subseteq Proc \ {TTY, FS} /\ TTY # FS
  BY Names
<1>2. /\ fspc.at = "got" /\ panic = "no" /\ p_flags[FS] = {}
      /\ mem[FS].type.op \in {"OPEN", "READ", "WRITE"}
      /\ UNCHANGED <<kb_in, key_pressed, current, tty, ttypc, pc>>
  BY DEF FsForward, Requested, FsGot, CanCall, kbvars, ttyvars
<1>3. TalkInv /\ IInv /\ LocalOK /\ OnlyTty /\ ReaderStillWaits
  BY <1>2 DEF TInv
<1>4. PICK u \in User : FsHas(u) /\ Fresh(u)
  <2>1. \A v \in User : ~FsHasLine(v)
    BY <1>2, Messages DEF FsHasLine
  <2> QED
    BY <1>2, <1>3, <2>1, Names DEF TalkInv, FsGotInv
<1>5. /\ pc[u].op \in {"OPEN", "READ", "WRITE"} /\ pc[u].len \in Nat /\ mem[FS] = RequestOf(u)
      /\ DevRequestOf(u).type \in Type \ {HARD_INT} /\ Busy(u) /\ ~Kept(u) /\ ~Resuming(u)
  BY <1>3, <1>4, NoInterrupts, Lengths DEF Fresh, FsHas
<1> DEFINE t == DevRequestOf(u).type
<1>6. /\ Stamped(FS, t) = DevRequestOf(u)
      /\ SendStep(FS, TTY, t)
      /\ fspc' = [at |-> "sent", src |-> u, len |-> pc[u].len]
  BY <1>5 DEF FsForward, RequestOf, DevRequestOf, Stamped, Msg
<1> HIDE DEF t
<1>7. /\ has_int_msg' = has_int_msg /\ IInv' /\ t \in Type
      /\ Circle(FS, TTY, t) \/ Delivered(FS, TTY, t) \/ Blocked(FS, TTY, t)
  BY <1>1, <1>3, <1>5, <1>6, SendOutcome DEF t
<1>8. LocalOK'
  BY <1>2, <1>3, <1>5, <1>6, TtyAssumption DEF LocalOK
<1>9. \A v \in User : /\ ~FsServes(v) /\ ~FsHasLine(v) /\ ~FsTells(v) /\ ~FsAwaits(v) /\ ~TtyAnswers(v)
                      /\ v # u => ~FsHas(v)
                      /\ Busy(v) /\ v # u => Kept(v) \/ Resuming(v)
  <2>1. ASSUME NEW v \in User
        PROVE  ~FsServes(v) /\ ~FsHasLine(v) /\ ~FsTells(v) /\ ~FsAwaits(v) /\ ~TtyAnswers(v)
    BY <1>2, Messages DEF FsServes, FsHasLine, FsTells, FsAwaits, TtyAnswers
  <2>2. ASSUME NEW v \in User, v # u PROVE ~FsHas(v)
    BY <1>5, <2>2, Messages DEF FsHas
  <2> QED
    BY <1>3, <2>1, <2>2 DEF TalkInv, Seen
<1>10. CASE Circle(FS, TTY, t)
  <2>1. /\ deadlock(FS, TTY) /\ panic' = "DEADLOCK" /\ p_flags' = p_flags
        /\ mem'[FS] = DevRequestOf(u) /\ mem'[TTY] = mem[TTY]
    BY <1>1, <1>6, <1>10 DEF Circle
  <2>2. p_flags[TTY] = {SENDING}
    <3>1. Sending(TTY)
      BY <1>1, <2>1, NotSending
    <3> QED
      BY <1>1, <1>3, <3>1, Flags, Names DEF Sending
  <2>3. PICK v \in User : Resuming(v) /\ Busy(v)
    BY <1>3, <1>9, <2>2, Names DEF TalkInv, TtyInv
  <2>4. mem[TTY].type # HARD_INT /\ mem[TTY].type.op = "RESUME_PROC"
    BY <1>3, <2>3, NoInterrupts, Messages DEF Resuming
  <2>5. OnlyResumeDeadlocks'
    BY <1>5, <2>1, <2>2, <2>4, Messages DEF OnlyResumeDeadlocks, Sending, DevOp
  <2> QED
    BY <1>2, <1>3, <1>7, <1>8, <2>1, <2>5, DownIsTInv
<1>11. ASSUME panic' = "no",
              \A x \in Proc \ {TTY, FS} : /\ p_flags'[x] = p_flags[x] /\ mem'[x] = mem[x]
                                          /\ p_recvfrom'[x] = p_recvfrom[x] /\ p_sendto'[x] = p_sendto[x],
              \A v \in User : Resuming(v) <=> p_flags'[TTY] = {SENDING} /\ IsLineOf(v, mem'[TTY]),
              \/ /\ p_flags'[FS] = {SENDING} /\ p_sendto'[FS] = TTY /\ mem'[FS] = DevRequestOf(u)
                 /\ p_flags'[TTY] = p_flags[TTY] /\ mem'[TTY] = mem[TTY]
                 /\ p_recvfrom'[TTY] = p_recvfrom[TTY] /\ p_sendto'[TTY] = p_sendto[TTY]
              \/ p_flags'[FS] = {} /\ p_flags'[TTY] = {} /\ mem'[TTY] = DevRequestOf(u) /\ ttypc.at = "got"
       PROVE  TInv'
  <2>1. \A v \in User :
           /\ UserOK(v)' /\ (Busy(v)' <=> Busy(v)) /\ (Reading(v)' <=> Reading(v))
           /\ RequestOf(v)' = RequestOf(v) /\ DevRequestOf(v)' = DevRequestOf(v)
           /\ AnswerTo(v)' = AnswerTo(v) /\ \A m : IsLineOf(v, m)' <=> IsLineOf(v, m)
    BY <1>1, <1>2, <1>3, <1>11, SystemSide
  <2>2. (\A t1 \in Console : ReaderOK(t1)') /\ \A v \in User : Kept(v)' <=> Kept(v)
    BY <1>2, <1>3, <2>1, ReadersSide
  <2>3. \A v \in User : Resuming(v)' <=> Resuming(v)
    BY <1>11, <2>1 DEF Resuming
  <2>4. FsServes(u)' /\ Fresh(u)'
    BY <1>5, <1>6, <2>1, <2>2, <2>3 DEF FsServes, Fresh
  <2>5. \A v \in User : Busy(v)' => Seen(v)'
    BY <1>9, <2>1, <2>2, <2>3, <2>4 DEF Seen
  <2>6. FsLoopInv' /\ FsGotInv'
    BY <1>6 DEF FsLoopInv, FsGotInv
  <2>7. FsServeInv'
    BY <1>2, <1>5, <1>6, <1>11, <2>1, <2>4 DEF FsServeInv, FsAwaits, TtyHas
  <2>8. TtyInv'
    <3>1. CASE p_flags'[TTY] = p_flags[TTY] /\ mem'[TTY] = mem[TTY]
               /\ p_recvfrom'[TTY] = p_recvfrom[TTY] /\ p_sendto'[TTY] = p_sendto[TTY]
      BY <1>2, <1>3, <1>9, <2>1, <2>2, <2>3, <3>1 DEF TalkInv, TtyInv
    <3>2. CASE p_flags'[FS] = {} /\ p_flags'[TTY] = {} /\ mem'[TTY] = DevRequestOf(u) /\ ttypc.at = "got"
      BY <1>2, <1>6, <2>1, <3>2 DEF TtyInv, TtyHas, FsAwaits
    <3> QED
      BY <1>11, <3>1, <3>2
  <2> QED
    BY <1>3, <1>7, <1>8, <1>11, <2>1, <2>2, <2>5, <2>6, <2>7, <2>8, UpIsTInv DEF TalkInv
<1>12. CASE Delivered(FS, TTY, t)
  <2>1. p_flags[TTY] = {RECEIVING} /\ ttypc.at = "got"
    BY <1>3, <1>12, Names DEF Delivered, TalkInv, TtyInv
  <2>2. /\ panic' = "no" /\ p_flags'[FS] = {} /\ p_flags'[TTY] = {} /\ mem'[TTY] = DevRequestOf(u)
        /\ \A x \in Proc \ {TTY, FS} : /\ p_flags'[x] = p_flags[x] /\ mem'[x] = mem[x]
                                       /\ p_recvfrom'[x] = p_recvfrom[x] /\ p_sendto'[x] = p_sendto[x]
    BY <1>1, <1>2, <1>6, <1>12 DEF Delivered
  <2>3. \A v \in User : Resuming(v) <=> p_flags'[TTY] = {SENDING} /\ IsLineOf(v, mem'[TTY])
    BY <2>1, <2>2, Names DEF Resuming
  <2> QED
    BY <1>11, <2>1, <2>2, <2>3
<1>13. CASE Blocked(FS, TTY, t)
  <2>1. /\ panic' = "no" /\ p_flags'[FS] = {SENDING} /\ p_sendto'[FS] = TTY /\ mem'[FS] = DevRequestOf(u)
        /\ p_flags'[TTY] = p_flags[TTY] /\ mem'[TTY] = mem[TTY]
        /\ p_recvfrom'[TTY] = p_recvfrom[TTY] /\ p_sendto'[TTY] = p_sendto[TTY]
        /\ \A x \in Proc \ {TTY, FS} : /\ p_flags'[x] = p_flags[x] /\ mem'[x] = mem[x]
                                       /\ p_recvfrom'[x] = p_recvfrom[x] /\ p_sendto'[x] = p_sendto[x]
    BY <1>1, <1>6, <1>13 DEF Blocked
  <2>2. \A v \in User : Resuming(v) <=> p_flags'[TTY] = {SENDING} /\ IsLineOf(v, mem'[TTY])
    BY <2>1 DEF Resuming
  <2> QED
    BY <1>11, <2>1, <2>2
<1> QED
  BY <1>7, <1>10, <1>12, <1>13

LEMMA FsAwaitKeeps ==
  ASSUME TInv, FsAwait
  PROVE  TInv'
<1>1. FS \in Proc \ {TTY} /\ TTY \in Proc /\ User \subseteq Proc \ {TTY, FS} /\ TTY # FS /\ TTY # ANY
  BY Names
<1>2. /\ fspc.at = "sent" /\ ReceiveStep(FS, TTY) /\ fspc' = [fspc EXCEPT !.at = "back"]
      /\ UNCHANGED <<kb_in, key_pressed, current, tty, ttypc, pc>>
  BY DEF FsAwait, kbvars, ttyvars
<1>3. /\ panic = "no" /\ panic' = "no" /\ p_flags[FS] = {} /\ IInv' /\ has_int_msg' = has_int_msg
      /\ Waits(FS, TTY) \/ \E from \in Proc : Taken(FS, TTY, from)
      /\ TalkInv /\ IInv /\ LocalOK /\ OnlyTty
  BY <1>1, <1>2, QuietReceive
<1>4. fspc'.at = "back" /\ fspc'.src = fspc.src /\ fspc'.len = fspc.len /\ LocalOK'
  BY <1>2, <1>3 DEF LocalOK
<1>5. PICK u \in User :
      /\ u = fspc.src /\ Busy(u) /\ fspc.len = pc[u].len
      /\ (FsAwaits(u) /\ TtyHas(u) /\ Fresh(u)) \/ (TtyAnswers(u) /\ (Reading(u) => Kept(u)))
  BY <1>2, <1>3, Names DEF TalkInv, FsServeInv
<1>6. \A v \in User : /\ ~FsHas(v) /\ ~FsHasLine(v) /\ ~FsTells(v)
                      /\ FsServes(v) => v = u
                      /\ Busy(v) /\ v # u => Kept(v) \/ Resuming(v)
  BY <1>2, <1>3, <1>5 DEF FsHas, FsHasLine, FsTells, FsServes, Seen, TalkInv
<1>7. FsLoopInv' /\ FsGotInv'
  BY <1>4 DEF FsLoopInv, FsGotInv
<1>8. FsServes(u)'
  BY <1>4, <1>5 DEF FsServes
<1>9. CASE Waits(FS, TTY)
  <2>1. /\ p_flags'[FS] = {RECEIVING} /\ p_recvfrom'[FS] = TTY /\ p_sendto' = p_sendto
        /\ \A x \in Proc \ {FS} : p_flags'[x] = p_flags[x] /\ p_recvfrom'[x] = p_recvfrom[x]
                                  /\ mem'[x] = mem[x]
        /\ ~(p_flags[TTY] = {SENDING} /\ p_sendto[TTY] = FS)
    BY <1>1, <1>9 DEF Waits
  <2>2. \A v \in User :
           /\ UserOK(v)' /\ (Busy(v)' <=> Busy(v)) /\ (Reading(v)' <=> Reading(v))
           /\ RequestOf(v)' = RequestOf(v) /\ DevRequestOf(v)' = DevRequestOf(v)
           /\ AnswerTo(v)' = AnswerTo(v) /\ \A m : IsLineOf(v, m)' <=> IsLineOf(v, m)
    BY <1>1, <1>2, <1>3, <2>1, SystemSide
  <2>3. (\A t \in Console : ReaderOK(t)') /\ \A v \in User : Kept(v)' <=> Kept(v)
    BY <1>2, <1>3, <2>2, ReadersSide
  <2>4. \A v \in User : Resuming(v)' <=> Resuming(v)
    BY <1>1, <2>1, <2>2 DEF Resuming
  <2>5. FsAwaits(u) /\ TtyHas(u) /\ Fresh(u)
    BY <1>3, <1>5, <2>1, Names DEF TtyAnswers, TalkInv, TtyInv
  <2>6. FsAwaits(u)' /\ TtyHas(u)' /\ Fresh(u)'
    BY <1>1, <1>2, <1>4, <1>5, <2>1, <2>2, <2>3, <2>4, <2>5 DEF FsAwaits, TtyHas, Fresh
  <2>7. \A v \in User : Busy(v)' => Seen(v)'
    BY <1>6, <1>8, <2>2, <2>3, <2>4 DEF Seen
  <2>8. FsServeInv'
    BY <1>2, <1>4, <1>5, <2>2, <2>6 DEF FsServeInv
  <2>9. TtyInv'
    BY <1>5, <2>6 DEF TtyInv, TtyHas
  <2> QED
    BY <1>3, <1>4, <1>7, <2>2, <2>3, <2>7, <2>8, <2>9, UpIsTInv DEF TalkInv
<1>10. CASE Taken(FS, TTY, TTY)
  <2>1. /\ p_flags[TTY] = {SENDING} /\ p_flags'[TTY] = {} /\ p_flags'[FS] = {}
        /\ p_recvfrom' = p_recvfrom
        /\ \A x \in Proc \ {TTY} : p_flags'[x] = p_flags[x] /\ p_sendto'[x] = p_sendto[x]
        /\ mem'[FS] = mem[TTY] /\ \A x \in Proc \ {FS} : mem'[x] = mem[x]
    BY <1>1, <1>3, <1>10 DEF Taken
  <2>2. TtyAnswers(u) /\ (Reading(u) => Kept(u)) /\ ttypc.at \in {"service", "receive"}
    BY <1>3, <1>5, <2>1, Names DEF TtyHas, TalkInv, TtyInv
  <2>3. \A v \in User :
           /\ UserOK(v)' /\ (Busy(v)' <=> Busy(v)) /\ (Reading(v)' <=> Reading(v))
           /\ RequestOf(v)' = RequestOf(v) /\ DevRequestOf(v)' = DevRequestOf(v)
           /\ AnswerTo(v)' = AnswerTo(v) /\ \A m : IsLineOf(v, m)' <=> IsLineOf(v, m)
    BY <1>1, <1>2, <1>3, <2>1, SystemSide
  <2>4. (\A t \in Console : ReaderOK(t)') /\ \A v \in User : Kept(v)' <=> Kept(v)
    BY <1>2, <1>3, <2>3, ReadersSide
  <2>5. \A v \in User : ~Resuming(v)
    BY <1>5, <2>2, Messages DEF Resuming, TtyAnswers
  <2>6. \A v \in User : Busy(v)' => Seen(v)'
    BY <1>6, <1>8, <2>3, <2>4, <2>5 DEF Seen
  <2>7. FsServeInv'
    <3>1. mem'[FS] = AnswerTo(u)'
      BY <1>5, <2>1, <2>2, <2>3 DEF TtyAnswers
    <3> QED
      BY <1>2, <1>4, <1>5, <2>1, <2>2, <2>3, <2>4, <3>1 DEF FsServeInv
  <2>8. TtyInv'
    BY <1>2, <2>1, <2>2 DEF TtyInv
  <2> QED
    BY <1>3, <1>4, <1>7, <2>3, <2>4, <2>6, <2>7, <2>8, UpIsTInv DEF TalkInv
<1> QED
  BY <1>1, <1>3, <1>9, <1>10 DEF Taken

(* FS's answer to a process finds it in front of its RECEIVE or in it.     *)
LEMMA TellKeeps ==
  ASSUME TInv, NEW u \in User, NEW n, Ret(n) \in Type, SendStep(FS, u, Ret(n)), fspc' = FsIdle,
         UNCHANGED <<kb_in, key_pressed, current, tty, ttypc, pc>>,
         Fresh(u), fspc.at \in {"got", "back"}, panic = "no", p_flags[FS] = {},
         \A v \in User \ {u} : ~FsHas(v) /\ ~FsServes(v) /\ ~FsHasLine(v)
  PROVE  TInv'
<1>1. FS \in Proc \ {TTY} /\ TTY \in Proc /\ User \subseteq Proc \ {TTY, FS} /\ TTY # FS
  BY Names
<1>2. TalkInv /\ IInv /\ LocalOK /\ OnlyTty
  BY DEF TInv
<1>3. /\ has_int_msg' = has_int_msg /\ IInv'
      /\ Circle(FS, u, Ret(n)) \/ Delivered(FS, u, Ret(n)) \/ Blocked(FS, u, Ret(n))
  BY <1>1, <1>2, SendOutcome
<1>4. /\ fspc'.at = "loop" /\ LocalOK'
  BY <1>2 DEF LocalOK, FsIdle
<1>5. Busy(u) /\ UserOK(u) /\ ~Kept(u) /\ ~Resuming(u)
  BY <1>2 DEF Fresh, TalkInv
<1>6. \A v \in User : /\ ~FsTells(v) /\ ~FsAwaits(v) /\ ~TtyAnswers(v)
                      /\ Busy(v) /\ v # u => Kept(v) \/ Resuming(v)
  <2>1. \A v \in User : ~FsTells(v) /\ ~FsAwaits(v) /\ ~TtyAnswers(v)
    BY Names DEF FsTells, FsAwaits, TtyAnswers
  <2> QED
    BY <1>2, <2>1 DEF Seen, TalkInv
<1>7. FsGotInv' /\ FsServeInv'
  BY <1>4 DEF FsGotInv, FsServeInv
<1>8. ~Circle(FS, u, Ret(n))
  <2>1. ~Sending(u)
    BY <1>5, Names DEF Busy, Sending
  <2> QED
    BY <1>1, <2>1, NotSending DEF Circle
<1>9. ASSUME panic' = "no", p_flags'[TTY] = p_flags[TTY], mem'[TTY] = mem[TTY],
             p_recvfrom'[TTY] = p_recvfrom[TTY], p_sendto'[TTY] = p_sendto[TTY],
             \A v \in User \ {u} : /\ p_flags'[v] = p_flags[v] /\ mem'[v] = mem[v]
                                   /\ p_recvfrom'[v] = p_recvfrom[v] /\ p_sendto'[v] = p_sendto[v],
             UserOK(u)', FsLoopInv', Busy(u)' => FsTells(u)'
      PROVE  TInv'
  <2>1. /\ \A t1 \in Console : ReaderOK(t1)'
        /\ \A v \in User \ {u} : /\ Busy(v)' <=> Busy(v)
                                 /\ Kept(v)' <=> Kept(v)
                                 /\ Resuming(v)' <=> Resuming(v)
                                 /\ Reading(v)' <=> Reading(v)
        /\ ~Kept(u)'
    BY <1>2, <1>5, <1>9, NotInCall
  <2>2. \A v \in User : UserOK(v)'
    <3>1. ASSUME NEW v \in User \ {u} PROVE UserOK(v)'
      <4>1. RequestOf(v)' = RequestOf(v)
        BY MessagesKept
      <4> QED
        BY <1>2, <1>9, <3>1, <4>1 DEF TalkInv, UserOK
    <3> QED
      BY <1>9, <3>1
  <2>3. \A v \in User : Busy(v)' => Seen(v)'
    BY <1>6, <1>9, <2>1 DEF Seen
  <2>4. TtyInv'
    <3>1. \A v \in User : Resuming(v) => v # u
      BY <1>5
    <3> QED
      BY <1>2, <1>6, <1>9, <2>1, <3>1 DEF TalkInv, TtyInv
  <2> QED
    BY <1>2, <1>3, <1>4, <1>7, <1>9, <2>1, <2>2, <2>3, <2>4, UpIsTInv DEF TalkInv
<1>10. RequestOf(u)' = RequestOf(u) /\ pc'[u] = pc[u]
  BY MessagesKept
<1>11. CASE Delivered(FS, u, Ret(n))
  <2>1. /\ panic' = "no" /\ p_flags[u] = {RECEIVING} /\ p_flags'[u] = {} /\ p_sendto' = p_sendto
        /\ \A x \in Proc \ {u} : p_flags'[x] = p_flags[x] /\ p_recvfrom'[x] = p_recvfrom[x]
        /\ \A x \in Proc \ {FS, u} : mem'[x] = mem[x]
    BY <1>11 DEF Delivered
  <2>2. UserOK(u)' /\ ~Busy(u)'
    BY <1>5, <1>10, <2>1, Names DEF Busy, UserOK
  <2>3. FsLoopInv'
    BY <1>1, <2>1 DEF FsLoopInv
  <2>4. \A v \in User \ {u} : /\ p_flags'[v] = p_flags[v] /\ mem'[v] = mem[v]
                              /\ p_recvfrom'[v] = p_recvfrom[v] /\ p_sendto'[v] = p_sendto[v]
    BY <1>1, <2>1
  <2> QED
    BY <1>1, <1>9, <2>1, <2>2, <2>3, <2>4
<1>12. CASE Blocked(FS, u, Ret(n))
  <2>1. /\ panic' = "no" /\ ~Awaits(u, FS) /\ p_flags'[FS] = {SENDING} /\ p_sendto'[FS] = u
        /\ \A x \in Proc \ {FS} : p_flags'[x] = p_flags[x] /\ p_sendto'[x] = p_sendto[x]
                                  /\ mem'[x] = mem[x]
        /\ p_recvfrom' = p_recvfrom
    BY <1>12 DEF Blocked
  <2>2. p_flags[u] = {}
    BY <1>5, <2>1 DEF Busy, UserOK, Awaits
  <2>3. /\ p_flags'[u] = {} /\ p_recvfrom'[u] = p_recvfrom[u] /\ p_sendto'[u] = p_sendto[u]
        /\ mem'[u] = mem[u]
    BY <1>1, <2>1, <2>2
  <2>4. UserOK(u)' /\ Busy(u)' /\ FsTells(u)' /\ p_flags'[u] = {}
    BY <1>4, <1>5, <1>10, <2>1, <2>2, <2>3 DEF UserOK, Busy, FsTells
  <2>5. \A v \in User \ {u} : /\ p_flags'[v] = p_flags[v] /\ mem'[v] = mem[v]
                              /\ p_recvfrom'[v] = p_recvfrom[v] /\ p_sendto'[v] = p_sendto[v]
    BY <1>1, <2>1
  <2>6. /\ p_flags'[TTY] = p_flags[TTY] /\ mem'[TTY] = mem[TTY]
        /\ p_recvfrom'[TTY] = p_recvfrom[TTY] /\ p_sendto'[TTY] = p_sendto[TTY]
    BY <1>1, <2>1
  <2>7. Fresh(u)'
    <3>1. ~Kept(u)'
      BY <1>2, <1>5, <2>5, <2>6, NotInCall
    <3>2. ~Resuming(u)'
      BY <1>5, <2>6, MessagesKept DEF Resuming
    <3> QED
      BY <2>4, <3>1, <3>2 DEF Fresh
  <2>8. FsLoopInv'
    BY <2>4, <2>7 DEF FsLoopInv
  <2> QED
    BY <1>9, <2>1, <2>4, <2>5, <2>6, <2>8
<1> QED
  BY <1>3, <1>8, <1>11, <1>12

LEMMA FsReplyKeeps ==
  ASSUME TInv, FsReply
  PROVE  TInv'
<1>1. /\ fspc.at = "back" /\ panic = "no" /\ p_flags[FS] = {} /\ mem[FS].type.op # "SUSPEND_PROC"
      /\ SendStep(FS, fspc.src, Ret(mem[FS].type.cnt)) /\ fspc' = FsIdle
      /\ UNCHANGED <<kb_in, key_pressed, current, tty, ttypc, pc>>
  BY DEF FsReply, CanCall, kbvars, ttyvars
<1>2. TalkInv
  BY <1>1 DEF TInv
<1>3. PICK u \in User : /\ u = fspc.src /\ Busy(u) /\ mem[FS] = AnswerTo(u)
  BY <1>1, <1>2, Names DEF TalkInv, FsServeInv, FsAwaits, TtyAnswers
<1>4. ~Reading(u) /\ mem[FS].type.cnt = pc[u].len
  BY <1>1, <1>3, Messages
<1>5. ~Kept(u)
  BY <1>2, <1>4, TtyAssumption DEF TalkInv, ReaderOK, Kept
<1>6. ~Resuming(u)
  <2>1. ASSUME NEW v \in User, Resuming(u), Resuming(v) PROVE u = v
    BY <2>1, Messages DEF Resuming
  <2> QED
    BY <1>1, <1>2, <1>4, <2>1, Names DEF TalkInv, TtyInv, TtyAnswers, Resuming
<1>7. Ret(pc[u].len) \in Type
  BY <1>2, <1>3, NoInterrupts, Types
<1>8. \A v \in User \ {u} : ~FsHas(v) /\ ~FsServes(v) /\ ~FsHasLine(v)
  BY <1>1, <1>3 DEF FsHas, FsServes, FsHasLine
<1> QED
  BY <1>1, <1>3, <1>4, <1>5, <1>6, <1>7, <1>8, TellKeeps DEF Fresh

LEMMA FsResumeKeeps ==
  ASSUME TInv, FsResume
  PROVE  TInv'
<1>1. /\ fspc.at = "got" /\ panic = "no" /\ p_flags[FS] = {} /\ mem[FS].type.op = "RESUME_PROC"
      /\ SendStep(FS, mem[FS].type.who, Ret(mem[FS].type.cnt)) /\ fspc' = FsIdle
      /\ UNCHANGED <<kb_in, key_pressed, current, tty, ttypc, pc>>
  BY DEF FsResume, FsGot, CanCall, kbvars, ttyvars
<1>2. TalkInv
  BY <1>1 DEF TInv
<1>3. \A v \in User : FsHas(v) => ~Busy(v)
  <2> SUFFICES ASSUME NEW v \in User, FsHas(v), Busy(v) PROVE FALSE
    OBVIOUS
  <2>1. mem[FS].type.op = pc[v].op
    BY Messages DEF FsHas
  <2> QED
    BY <1>1, <1>2, <2>1, NoInterrupts
<1>4. PICK u \in User : FsHasLine(u) /\ Fresh(u)
  BY <1>1, <1>2, <1>3, Names DEF TalkInv, FsGotInv, Fresh
<1>5. mem[FS].type.who = u /\ \E n \in 0..pc[u].len : mem[FS].type.cnt = n
  BY <1>4 DEF FsHasLine, IsLineOf, Stamped, Msg
<1>6. Ret(mem[FS].type.cnt) \in Type
  BY <1>2, <1>4, <1>5, NoInterrupts, Types DEF Fresh
<1>7. \A v \in User \ {u} : ~FsHas(v) /\ ~FsServes(v) /\ ~FsHasLine(v)
  BY <1>1, <1>4, Messages DEF FsHas, FsServes, FsHasLine
<1> QED
  BY <1>1, <1>4, <1>5, <1>6, <1>7, TellKeeps

LEMMA FsSuspendKeeps ==
  ASSUME TInv, FsSuspend
  PROVE  TInv'
<1>1. /\ fspc.at = "back" /\ panic = "no" /\ p_flags[FS] = {} /\ mem[FS].type.op = "SUSPEND_PROC"
      /\ fspc' = FsIdle /\ UNCHANGED vars
      /\ UNCHANGED <<kb_in, key_pressed, current, tty, ttypc, pc>>
  BY DEF FsSuspend, CanCall, ipcvars, vars, kbvars, ttyvars
<1>2. TalkInv /\ LocalOK /\ OnlyTty
  BY <1>1 DEF TInv
<1>3. IInv' /\ panic' = "no" /\ UNCHANGED <<p_flags, p_recvfrom, p_sendto, mem, has_int_msg>>
  BY <1>1, StepIInv DEF TInv, vars
<1>4. fspc'.at = "loop" /\ LocalOK'
  BY <1>1, <1>2 DEF LocalOK, FsIdle
<1>5. PICK u \in User : u = fspc.src /\ (Kept(u) \/ Resuming(u))
  <2>1. PICK u \in User : /\ u = fspc.src /\ mem[FS] = AnswerTo(u)
                          /\ Reading(u) => Kept(u) \/ Resuming(u)
    BY <1>1, <1>2, Names DEF TalkInv, FsServeInv, FsAwaits, TtyAnswers
  <2> QED
    BY <1>1, <2>1, Messages
<1>6. \A v \in User : UserOK(v)' /\ (Busy(v)' <=> Busy(v)) /\ (Reading(v)' <=> Reading(v))
                      /\ \A m : IsLineOf(v, m)' <=> IsLineOf(v, m)
  BY <1>1, <1>2, <1>3, SystemSide
<1>7. (\A t \in Console : ReaderOK(t)') /\ \A v \in User : Kept(v)' <=> Kept(v)
  BY <1>1, <1>2, <1>6, ReadersSide
<1>8. \A v \in User : Resuming(v)' <=> Resuming(v)
  BY <1>3, <1>6 DEF Resuming
<1>9. \A v \in User : Busy(v)' => Seen(v)'
  <2>1. \A v \in User : Busy(v) => Kept(v) \/ Resuming(v)
    BY <1>1, <1>2, <1>5 DEF TalkInv, Seen, FsHas, FsServes, FsHasLine, FsTells
  <2> QED
    BY <1>6, <1>7, <1>8, <2>1 DEF Seen
<1>10. FsLoopInv' /\ FsGotInv' /\ FsServeInv'
  BY <1>1, <1>3, <1>4 DEF FsLoopInv, FsGotInv, FsServeInv
<1>11. TtyInv'
  <2>1. \A v \in User : ~FsAwaits(v) /\ ~TtyAnswers(v)
    BY <1>1, Names DEF FsAwaits, TtyAnswers
  <2> QED
    BY <1>1, <1>2, <1>3, <1>6, <1>7, <1>8, <2>1 DEF TalkInv, TtyInv
<1> QED
  BY <1>2, <1>3, <1>4, <1>6, <1>7, <1>9, <1>10, <1>11, UpIsTInv DEF TalkInv

(* TTY between two messages.                                               *)
LEMMA TtyQuiet ==
  ASSUME TInv, panic = "no", p_flags[TTY] = {}, UNCHANGED vars, UNCHANGED <<fspc, pc>>, LocalOK',
         ttypc.at # "got" \/ mem[TTY].type = HARD_INT, ttypc'.at # "got",
         \A t \in Console : ReaderOK(t)',
         \A u \in User : Kept(u)' <=> Kept(u)
  PROVE  TInv'
<1>1. TalkInv /\ OnlyTty
  BY DEF TInv
<1>2. IInv' /\ panic' = "no" /\ UNCHANGED <<p_flags, p_recvfrom, p_sendto, mem, has_int_msg>>
  BY StepIInv DEF TInv, vars
<1>3. \A v \in User :
         /\ UserOK(v)' /\ (Busy(v)' <=> Busy(v)) /\ (Reading(v)' <=> Reading(v))
         /\ RequestOf(v)' = RequestOf(v) /\ DevRequestOf(v)' = DevRequestOf(v)
         /\ AnswerTo(v)' = AnswerTo(v) /\ \A m : IsLineOf(v, m)' <=> IsLineOf(v, m)
  BY <1>1, <1>2, SystemSide
<1>4. \A v \in User : ~Resuming(v)' /\ ~Resuming(v) /\ ~TtyAnswers(v) /\ (Busy(v) => ~TtyHas(v))
  <2>1. ASSUME NEW v \in User, Busy(v), TtyHas(v) PROVE FALSE
    BY <1>1, <2>1, NoInterrupts DEF TtyHas
  <2> QED
    BY <1>2, <2>1 DEF Resuming, TtyAnswers
<1>5. \A v \in User : /\ FsHas(v)' <=> FsHas(v)
                      /\ FsServes(v)' <=> FsServes(v)
                      /\ FsHasLine(v)' <=> FsHasLine(v)
                      /\ FsTells(v)' <=> FsTells(v)
                      /\ Fresh(v)' <=> Fresh(v)
  BY <1>2, <1>3, <1>4 DEF FsHas, FsServes, FsHasLine, FsTells, Fresh
<1>6. \A v \in User : Busy(v)' => Seen(v)'
  BY <1>1, <1>3, <1>4, <1>5 DEF TalkInv, Seen
<1>7. FsLoopInv' /\ FsGotInv'
  BY <1>1, <1>2, <1>3, <1>5 DEF TalkInv, FsLoopInv, FsGotInv
<1>8. FsServeInv'
  BY <1>1, <1>2, <1>3, <1>4, <1>5 DEF TalkInv, FsServeInv
<1>9. TtyInv'
  BY <1>2 DEF TtyInv
<1> QED
  BY <1>1, <1>2, <1>3, <1>6, <1>7, <1>8, <1>9, UpIsTInv DEF TalkInv

LEMMA AfterService ==
  ASSUME NEW t \in Console
  PROVE  After(t).at \in {"service", "receive"} /\ After(t).t \in Console
                     /\ After(t) \in [at : {"service", "resume", "receive", "got"}, t : Console]
BY Names DEF After

LEMMA ServiceNothingKeeps ==
  ASSUME TInv, ServiceNothing
  PROVE  TInv'
<1>1. /\ ttypc.at = "service" /\ panic = "no" /\ p_flags[TTY] = {} /\ ttypc' = After(ttypc.t)
      /\ UNCHANGED vars /\ UNCHANGED <<kb_in, key_pressed, current, tty, fspc, pc>>
  BY DEF ServiceNothing, TtyAt, CanCall, ipcvars, kbvars, vars
<1>2. TalkInv /\ LocalOK
  BY <1>1 DEF TInv
<1>3. ttypc'.at \in {"service", "receive"} /\ LocalOK'
  BY <1>1, <1>2, AfterService DEF LocalOK
<1>4. \A t \in Console : HasReader(t)' <=> HasReader(t)
  BY <1>1, <1>3 DEF HasReader
<1>5. \A t \in Console : ReaderOK(t)'
  <2>1. pc' = pc /\ \A u \in User : (Busy(u)' <=> Busy(u)) /\ (Reading(u)' <=> Reading(u))
    BY <1>1 DEF Busy, Reading, vars
  <2> QED
    BY <1>1, <1>2, <1>4, <2>1 DEF TalkInv, ReaderOK
<1>6. \A u \in User : Kept(u)' <=> Kept(u)
  BY <1>1, <1>4, TtyAssumption DEF Kept
<1> QED
  BY <1>1, <1>3, <1>5, <1>6, TtyQuiet

(* A character changes neither whose line it is nor the sum of what it has *)
(* and lacks, and the last one completes it.                               *)
LEMMA TypedKeeps ==
  ASSUME NEW r \in [procnr : User \cup {NO_TASK}, left : Nat, trans : Nat], NEW k
  PROVE  /\ Typed(r, k) \in [procnr : User \cup {NO_TASK}, left : Nat, trans : Nat]
         /\ Typed(r, k).procnr = r.procnr
         /\ Typed(r, k).left + Typed(r, k).trans = r.left + r.trans
         /\ r.left > 0 <=> Typed(r, k).left > 0 \/ Complete(r, k)
<1>1. CASE r.left > 0 /\ k = "char"
  <2>1. Typed(r, k) = [procnr |-> r.procnr, left |-> r.left - 1, trans |-> r.trans + 1]
    BY <1>1 DEF Typed
  <2> QED
    BY <1>1, <2>1 DEF Complete
<1>2. CASE r.left > 0 /\ k = "backspace" /\ r.trans > 0
  <2>1. Typed(r, k) = [procnr |-> r.procnr, left |-> r.left + 1, trans |-> r.trans - 1]
    BY <1>2 DEF Typed
  <2> QED
    BY <1>2, <2>1 DEF Complete
<1>3. CASE ~(r.left > 0 /\ k = "char") /\ ~(r.left > 0 /\ k = "backspace" /\ r.trans > 0)
  BY <1>3 DEF Typed, Complete
<1> QED
  BY <1>1, <1>2, <1>3

LEMMA ServiceKeyKeeps ==
  ASSUME TInv, ServiceKey
  PROVE  TInv'
<1> DEFINE t == ttypc.t
           k == Head(kb_in)
<1>1. /\ ttypc.at = "service" /\ panic = "no" /\ p_flags[TTY] = {}
      /\ kb_in # << >> /\ kb_in' = Tail(kb_in) /\ current' = select_console(k)
      /\ tty' = [tty EXCEPT ![t] = Typed(@, k)]
      /\ ttypc' = IF Complete(tty[t], k) THEN [at |-> "resume", t |-> t] ELSE After(t)
      /\ UNCHANGED vars /\ UNCHANGED <<key_pressed, fspc, pc>>
  BY DEF ServiceKey, TtyAt, CanCall, ipcvars, vars
<1>2. TalkInv /\ LocalOK /\ t \in Console
  BY <1>1 DEF TInv, LocalOK
<1>3. ttypc'.at # "got" /\ ttypc' \in [at : {"service", "resume", "receive", "got"}, t : Console]
  BY <1>1, <1>2, AfterService
<1>4. /\ tty'[t] = Typed(tty[t], k) /\ \A c \in Console \ {t} : tty'[c] = tty[c]
      /\ tty' \in [Console -> [procnr : User \cup {NO_TASK}, left : Nat, trans : Nat]]
      /\ tty'[t].procnr = tty[t].procnr /\ tty'[t].left + tty'[t].trans = tty[t].left + tty[t].trans
      /\ tty[t].left > 0 <=> tty'[t].left > 0 \/ Complete(tty[t], k)
  <2>1. tty[t] \in [procnr : User \cup {NO_TASK}, left : Nat, trans : Nat]
    BY <1>2 DEF LocalOK
  <2>2. /\ Typed(tty[t], k) \in [procnr : User \cup {NO_TASK}, left : Nat, trans : Nat]
        /\ Typed(tty[t], k).procnr = tty[t].procnr
        /\ Typed(tty[t], k).left + Typed(tty[t], k).trans = tty[t].left + tty[t].trans
        /\ tty[t].left > 0 <=> Typed(tty[t], k).left > 0 \/ Complete(tty[t], k)
    BY <2>1, TypedKeeps
  <2>3. tty'[t] = Typed(tty[t], k) /\ \A c \in Console \ {t} : tty'[c] = tty[c]
    BY <1>1, <1>2 DEF LocalOK
  <2>4. tty' \in [Console -> [procnr : User \cup {NO_TASK}, left : Nat, trans : Nat]]
    BY <1>1, <1>2, <2>2 DEF LocalOK
  <2> HIDE DEF k
  <2> QED
    BY <2>2, <2>3, <2>4
<1>5. LocalOK'
  <2>1. kb_in' \in Seq(Key) /\ Len(kb_in') <= KB_IN_BYTES
    BY <1>1, <1>2, TtyAssumption DEF LocalOK
  <2>2. current' \in Console
    BY <1>1, <1>2 DEF LocalOK, select_console
  <2> QED
    BY <1>1, <1>2, <1>3, <1>4, <2>1, <2>2 DEF LocalOK
<1>6. PICK c \in Console : c = t
  BY <1>2
<1>7. \A d \in Console : HasReader(d)' <=> HasReader(d)
  <2>1. ttypc'.at = "resume" <=> Complete(tty[t], k)
    BY <1>1, <1>2, AfterService
  <2>2. ttypc'.at = "resume" => ttypc'.t = t
    BY <1>1, <2>1
  <2>3. HasReader(c)' <=> HasReader(c)
    BY <1>1, <1>4, <1>6, <2>1, <2>2 DEF HasReader
  <2>4. \A d \in Console \ {c} : HasReader(d)' <=> HasReader(d)
    BY <1>1, <1>4, <1>6, <2>2 DEF HasReader
  <2> QED
    BY <2>3, <2>4
<1>8. \A d \in Console : tty'[d].procnr = tty[d].procnr
                         /\ tty'[d].left + tty'[d].trans = tty[d].left + tty[d].trans
  BY <1>4
<1>9. \A d \in Console : ReaderOK(d)'
  <2>1. pc' = pc /\ \A u \in User : (Busy(u)' <=> Busy(u)) /\ (Reading(u)' <=> Reading(u))
    BY <1>1 DEF Busy, Reading, vars
  <2> QED
    BY <1>2, <1>7, <1>8, <2>1 DEF TalkInv, ReaderOK
<1>10. \A u \in User : Kept(u)' <=> Kept(u)
  BY <1>7, <1>8, TtyAssumption DEF Kept
<1> QED
  BY <1>1, <1>3, <1>5, <1>9, <1>10, TtyQuiet

LEMMA TtyInterruptKeeps ==
  ASSUME TInv, TtyInterrupt
  PROVE  TInv'
<1>1. /\ ttypc.at = "got" /\ panic = "no" /\ p_flags[TTY] = {} /\ mem[TTY].type = HARD_INT
      /\ ttypc' = Again /\ key_pressed' = 0
      /\ UNCHANGED vars /\ UNCHANGED <<kb_in, current, tty, fspc, pc>>
  BY DEF TtyInterrupt, TtyAt, CanCall, ipcvars, vars
<1>2. TalkInv /\ LocalOK
  BY <1>1 DEF TInv
<1>3. ttypc'.at = "service" /\ LocalOK'
  BY <1>1, <1>2, Names DEF LocalOK, Again
<1>4. \A t \in Console : HasReader(t)' <=> HasReader(t)
  BY <1>1, <1>3 DEF HasReader
<1>5. \A t \in Console : ReaderOK(t)'
  <2>1. pc' = pc /\ \A u \in User : (Busy(u)' <=> Busy(u)) /\ (Reading(u)' <=> Reading(u))
    BY <1>1 DEF Busy, Reading, vars
  <2> QED
    BY <1>1, <1>2, <1>4, <2>1 DEF TalkInv, ReaderOK
<1>6. \A u \in User : Kept(u)' <=> Kept(u)
  BY <1>1, <1>4, TtyAssumption DEF Kept
<1> QED
  BY <1>1, <1>3, <1>5, <1>6, TtyQuiet

LEMMA ResumeKeeps ==
  ASSUME TInv, Resume
  PROVE  TInv'
<1>1. FS \in Proc \ {TTY} /\ TTY \in Proc /\ User \subseteq Proc \ {TTY, FS} /\ TTY # FS
  BY Names
<1>2. /\ ttypc.at = "resume" /\ panic = "no" /\ p_flags[TTY] = {} /\ ttypc' = After(ttypc.t)
      /\ UNCHANGED <<kb_in, key_pressed, current, fspc, pc>>
  BY DEF Resume, TtyAt, CanCall, kbvars
<1>3. TalkInv /\ IInv /\ LocalOK /\ OnlyTty /\ ReaderStillWaits
  BY <1>2 DEF TInv
<1>4. PICK t \in Console : t = ttypc.t
  BY <1>3 DEF LocalOK
<1>5. HasReader(t) /\ ReaderOK(t)
  BY <1>2, <1>3, <1>4 DEF HasReader, TalkInv
<1>6. PICK u \in User : /\ u = tty[t].procnr /\ TtyOf[u] = t /\ Busy(u) /\ Reading(u) /\ Kept(u)
                        /\ tty[t].left + tty[t].trans = pc[u].len
  BY <1>5 DEF ReaderOK, Kept
<1> DEFINE line == Msg("RESUME_PROC", 0, u, tty[t].trans)
<1>7. IsLineOf(u, Stamped(TTY, line)) /\ line \in Type \ {HARD_INT} /\ line.op = "RESUME_PROC"
  <2>1. tty[t].trans \in 0..pc[u].len
    <3>1. tty[t].left \in Nat /\ tty[t].trans \in Nat /\ pc[u].len \in Nat
      BY <1>3 DEF LocalOK
    <3> QED
      BY <1>6, <3>1
  <2>2. IsLineOf(u, Stamped(TTY, line))
    BY <2>1 DEF IsLineOf
  <2> QED
    BY <1>3, <1>6, <2>2, NoInterrupts DEF Stamped, Msg
<1>8. /\ SendStep(TTY, FS, line) /\ tty' = [tty EXCEPT ![t] = NoReader]
  BY <1>4, <1>6 DEF Resume
<1> HIDE DEF line
<1>9. /\ has_int_msg' = has_int_msg /\ IInv'
      /\ Circle(TTY, FS, line) \/ Delivered(TTY, FS, line) \/ Blocked(TTY, FS, line)
  BY <1>1, <1>3, <1>7, <1>8, SendOutcome
<1>10. /\ ttypc'.at \in {"service", "receive"} /\ LocalOK'
       /\ tty'[t] = NoReader /\ \A c \in Console \ {t} : tty'[c] = tty[c]
  <2>1. NoReader \in [procnr : User \cup {NO_TASK}, left : Nat, trans : Nat]
    BY DEF NoReader
  <2> QED
    BY <1>2, <1>3, <1>4, <1>8, <2>1, AfterService DEF LocalOK
<1>11. ~HasReader(t)' /\ \A c \in Console \ {t} : HasReader(c)' <=> HasReader(c)
  BY <1>2, <1>4, <1>10 DEF HasReader, NoReader
<1>12. ~Kept(u)' /\ \A v \in User \ {u} : Kept(v)' <=> Kept(v)
  BY <1>6, <1>10, <1>11, TtyAssumption DEF Kept
<1>13. CASE Circle(TTY, FS, line)
  <2>1. /\ deadlock(TTY, FS) /\ panic' = "DEADLOCK" /\ UNCHANGED <<p_flags, p_sendto>>
        /\ mem'[TTY] = Stamped(TTY, line) /\ mem'[FS] = mem[FS]
    BY <1>1, <1>13 DEF Circle
  <2>2. Sending(FS)
    BY <1>1, <2>1, NotSending
  <2>3. p_sendto[FS] \notin User
    <3> SUFFICES ASSUME p_sendto[FS] \in User PROVE FALSE
      OBVIOUS
    <3>1. p_flags[p_sendto[FS]] = {}
      BY <1>1, <1>3, <2>2, WhoSends
    <3> QED
      BY <1>1, <2>1, <3>1, SendingElsewhere DEF Sending
  <2>4. PICK v \in User : mem[FS] = DevRequestOf(v)
    BY <1>1, <1>3, <2>2, <2>3, WhoSends
  <2>5. mem'[FS].type.op \in {"DEV_OPEN", "DEV_READ", "DEV_WRITE"}
    BY <2>1, <2>4, Messages DEF DevOp
  <2>6. OnlyResumeDeadlocks'
    BY <1>7, <2>1, <2>2, <2>5 DEF OnlyResumeDeadlocks, Sending, Stamped
  <2> QED
    BY <1>2, <1>3, <1>9, <1>10, <2>1, <2>6, DownIsTInv DEF NoReader
<1>14. ASSUME \A x \in Proc \ {TTY, FS} : /\ p_flags'[x] = p_flags[x] /\ mem'[x] = mem[x]
                                          /\ p_recvfrom'[x] = p_recvfrom[x] /\ p_sendto'[x] = p_sendto[x]
       PROVE  /\ \A v \in User :
                   /\ UserOK(v)' /\ (Busy(v)' <=> Busy(v)) /\ (Reading(v)' <=> Reading(v))
                   /\ RequestOf(v)' = RequestOf(v) /\ DevRequestOf(v)' = DevRequestOf(v)
                   /\ AnswerTo(v)' = AnswerTo(v) /\ \A m : IsLineOf(v, m)' <=> IsLineOf(v, m)
              /\ \A c \in Console : ReaderOK(c)'
  <2>1. \A v \in User :
          /\ UserOK(v)' /\ (Busy(v)' <=> Busy(v)) /\ (Reading(v)' <=> Reading(v))
          /\ RequestOf(v)' = RequestOf(v) /\ DevRequestOf(v)' = DevRequestOf(v)
          /\ AnswerTo(v)' = AnswerTo(v) /\ \A m : IsLineOf(v, m)' <=> IsLineOf(v, m)
    BY <1>1, <1>2, <1>3, <1>14, SystemSide
  <2>2. \A c \in Console : ReaderOK(c)'
    BY <1>2, <1>3, <1>10, <1>11, <2>1 DEF TalkInv, ReaderOK
  <2> QED
    BY <2>1, <2>2
<1>15. CASE Delivered(TTY, FS, line)
  <2>1. /\ panic' = "no" /\ p_flags[FS] = {RECEIVING} /\ p_flags'[FS] = {} /\ p_flags'[TTY] = {}
        /\ mem'[FS] = Stamped(TTY, line)
        /\ \A x \in Proc \ {TTY, FS} : /\ p_flags'[x] = p_flags[x] /\ mem'[x] = mem[x]
                                       /\ p_recvfrom'[x] = p_recvfrom[x] /\ p_sendto'[x] = p_sendto[x]
    BY <1>1, <1>2, <1>15 DEF Delivered
  <2>2. /\ \A v \in User :
              /\ UserOK(v)' /\ (Busy(v)' <=> Busy(v)) /\ (Reading(v)' <=> Reading(v))
              /\ \A m : IsLineOf(v, m)' <=> IsLineOf(v, m)
        /\ \A c \in Console : ReaderOK(c)'
    BY <1>14, <2>1
  <2>3. fspc.at = "got"
    <3>1. fspc.at # "loop"
      BY <1>3, <2>1, Names DEF TalkInv, FsLoopInv, FsTells
    <3>2. fspc.at \notin {"sent", "back"}
      BY <1>2, <1>3, <2>1, Names DEF TalkInv, FsServeInv, TtyHas, TtyAnswers
    <3> QED
      BY <1>3, <3>1, <3>2 DEF LocalOK
  <2>4. \A v \in User : ~Resuming(v) /\ ~Resuming(v)' /\ (Busy(v) => Kept(v))
    <3>1. \A v \in User : ~Resuming(v) /\ ~Resuming(v)'
      BY <1>2, <2>1 DEF Resuming
    <3> QED
      BY <1>3, <2>1, <2>3, <3>1, Names DEF TalkInv, Seen, FsHas, FsServes, FsHasLine, FsTells
  <2>5. FsHasLine(u)' /\ Fresh(u)' /\ Reading(u)' /\ Busy(u)'
    BY <1>2, <1>6, <1>7, <1>12, <2>1, <2>2, <2>3, <2>4 DEF FsHasLine, Fresh
  <2>6. \A v \in User : Busy(v)' => Seen(v)'
    BY <1>12, <2>2, <2>4, <2>5 DEF Seen
  <2>7. FsLoopInv' /\ FsGotInv' /\ FsServeInv'
    BY <1>2, <2>3, <2>5 DEF FsLoopInv, FsGotInv, FsServeInv
  <2>8. TtyInv'
    BY <1>10, <2>1 DEF TtyInv
  <2> QED
    BY <1>3, <1>9, <1>10, <2>1, <2>2, <2>6, <2>7, <2>8, UpIsTInv DEF TalkInv
<1>16. CASE Blocked(TTY, FS, line)
  <2>1. /\ panic' = "no" /\ p_flags'[TTY] = {SENDING} /\ p_sendto'[TTY] = FS
        /\ mem'[TTY] = Stamped(TTY, line)
        /\ p_flags'[FS] = p_flags[FS] /\ mem'[FS] = mem[FS]
        /\ p_recvfrom'[FS] = p_recvfrom[FS] /\ p_sendto'[FS] = p_sendto[FS]
        /\ \A x \in Proc \ {TTY, FS} : /\ p_flags'[x] = p_flags[x] /\ mem'[x] = mem[x]
                                       /\ p_recvfrom'[x] = p_recvfrom[x] /\ p_sendto'[x] = p_sendto[x]
    BY <1>1, <1>16 DEF Blocked
  <2>2. /\ \A v \in User :
              /\ UserOK(v)' /\ (Busy(v)' <=> Busy(v)) /\ (Reading(v)' <=> Reading(v))
              /\ RequestOf(v)' = RequestOf(v) /\ DevRequestOf(v)' = DevRequestOf(v)
              /\ AnswerTo(v)' = AnswerTo(v) /\ \A m : IsLineOf(v, m)' <=> IsLineOf(v, m)
        /\ \A c \in Console : ReaderOK(c)'
    BY <1>14, <2>1
  <2>3. Resuming(u)' /\ \A v \in User \ {u} : ~Resuming(v)'
    <3>1. Resuming(u)'
      BY <1>7, <2>1, <2>2 DEF Resuming
    <3>2. ASSUME NEW v \in User, IsLineOf(v, Stamped(TTY, line)) PROVE v = u
      BY <1>7, <3>2, Messages
    <3> QED
      BY <2>1, <2>2, <3>1, <3>2 DEF Resuming
  <2>4. \A v \in User : ~Resuming(v) /\ ~TtyHas(v) /\ ~TtyAnswers(v)
    BY <1>2 DEF Resuming, TtyHas, TtyAnswers
  <2>5. \A v \in User : /\ FsHas(v)' <=> FsHas(v)
                        /\ FsServes(v)' <=> FsServes(v)
                        /\ FsHasLine(v)' <=> FsHasLine(v)
                        /\ FsTells(v)' <=> FsTells(v)
                        /\ Fresh(v) => v # u /\ Fresh(v)'
    BY <1>2, <1>6, <1>12, <2>1, <2>2, <2>3 DEF FsHas, FsServes, FsHasLine, FsTells, Fresh
  <2>6. \A v \in User : Busy(v)' => Seen(v)'
    BY <1>3, <1>12, <2>2, <2>3, <2>4, <2>5 DEF TalkInv, Seen
  <2>7. FsLoopInv'
    <3>1. ASSUME NEW v \in User, p_flags[v] = {} PROVE p_flags'[v] = {}
      BY <1>1, <2>1, <3>1
    <3> QED
      BY <1>2, <1>3, <2>1, <2>5, <3>1 DEF TalkInv, FsLoopInv
  <2>8. FsGotInv'
    BY <1>2, <1>3, <2>1, <2>2, <2>5 DEF TalkInv, FsGotInv
  <2>9. FsServeInv'
    BY <1>2, <1>3, <1>12, <2>1, <2>2, <2>3, <2>4, <2>5 DEF TalkInv, FsServeInv
  <2>10. TtyInv'
    BY <1>6, <1>10, <1>12, <2>1, <2>2, <2>3 DEF TtyInv
  <2> QED
    BY <1>3, <1>9, <1>10, <2>1, <2>2, <2>6, <2>7, <2>8, <2>9, <2>10, UpIsTInv DEF TalkInv
<1> QED
  BY <1>9, <1>13, <1>15, <1>16

LEMMA TtyReceiveKeeps ==
  ASSUME TInv, TtyReceive
  PROVE  TInv'
<1>1. FS \in Proc \ {TTY} /\ TTY \in Proc /\ User \subseteq Proc \ {TTY, FS} /\ TTY # FS
  BY Names
<1>2. /\ ttypc.at = "receive" /\ ReceiveStep(TTY, ANY) /\ ttypc' = [ttypc EXCEPT !.at = "got"]
      /\ UNCHANGED <<kb_in, key_pressed, current, tty, fspc, pc>>
  BY DEF TtyReceive, kbvars
<1>3. panic = "no"
  BY <1>2 DEF ReceiveStep, ReceiveInterrupt, ReceiveFetch, ReceiveBlock, CanCall
<1>4. TalkInv /\ IInv /\ LocalOK /\ OnlyTty
  BY <1>3 DEF TInv
<1>5. /\ panic' = "no" /\ p_flags[TTY] = {} /\ IInv'
      /\ \A x \in Proc \ {TTY} : has_int_msg'[x] = has_int_msg[x]
      /\ Waits(TTY, ANY) \/ Interrupts(TTY, ANY) \/ \E from \in Proc : Taken(TTY, ANY, from)
  BY <1>1, <1>2, <1>4, ReceiveOutcome
<1>6. ttypc'.at = "got" /\ LocalOK'
  BY <1>2, <1>4 DEF LocalOK
<1>7. \A t \in Console : HasReader(t)' <=> HasReader(t)
  BY <1>2, <1>6 DEF HasReader
<1>8. \A u \in User : Kept(u)' <=> Kept(u)
  BY <1>2, <1>7, TtyAssumption DEF Kept
<1>9. \A u \in User : ~Resuming(u) /\ ~TtyAnswers(u) /\ ~TtyHas(u)
  BY <1>2, <1>5 DEF Resuming, TtyAnswers, TtyHas
<1>10. ASSUME \A u \in User : /\ p_flags'[u] = p_flags[u] /\ mem'[u] = mem[u]
                              /\ p_recvfrom'[u] = p_recvfrom[u] /\ p_sendto'[u] = p_sendto[u],
              p_recvfrom'[FS] = p_recvfrom[FS], mem'[FS] = mem[FS],
              p_flags'[TTY] \in {{}, {RECEIVING}},
              \/ /\ p_flags'[FS] = p_flags[FS] /\ p_sendto'[FS] = p_sendto[FS]
                 /\ \/ p_flags'[TTY] = {RECEIVING} /\ p_recvfrom'[TTY] = ANY
                    \/ p_flags'[TTY] = {} /\ mem'[TTY].type = HARD_INT
              \/ /\ p_flags[FS] = {SENDING} /\ p_sendto[FS] = TTY /\ p_flags'[FS] = {}
                 /\ p_flags'[TTY] = {} /\ mem'[TTY] = mem[FS]
       PROVE  TInv'
  <2>1. \A v \in User :
          /\ UserOK(v)' /\ (Busy(v)' <=> Busy(v)) /\ (Reading(v)' <=> Reading(v))
          /\ RequestOf(v)' = RequestOf(v) /\ DevRequestOf(v)' = DevRequestOf(v)
          /\ AnswerTo(v)' = AnswerTo(v) /\ \A m : IsLineOf(v, m)' <=> IsLineOf(v, m)
    BY <1>2, <1>4, <1>10, SystemSide
  <2>2. \A c \in Console : ReaderOK(c)'
    BY <1>2, <1>4, <1>7, <2>1 DEF TalkInv, ReaderOK
  <2>3. \A u \in User : ~Resuming(u)' /\ (Fresh(u)' <=> Fresh(u))
    BY <1>8, <1>9, <1>10, <2>1, Names DEF Resuming, Fresh
  <2>4. CASE /\ p_flags'[FS] = p_flags[FS] /\ p_sendto'[FS] = p_sendto[FS]
             /\ \/ p_flags'[TTY] = {RECEIVING} /\ p_recvfrom'[TTY] = ANY
                \/ p_flags'[TTY] = {} /\ mem'[TTY].type = HARD_INT
    <3>1. \A v \in User : /\ FsHas(v)' <=> FsHas(v)
                          /\ FsServes(v)' <=> FsServes(v)
                          /\ FsHasLine(v)' <=> FsHasLine(v)
                          /\ FsTells(v)' <=> FsTells(v)
      BY <1>2, <1>10, <2>1, <2>4 DEF FsHas, FsServes, FsHasLine, FsTells
    <3>2. \A v \in User : Busy(v)' => Seen(v)'
      BY <1>4, <1>8, <1>9, <2>1, <3>1 DEF TalkInv, Seen
    <3>3. FsLoopInv'
      BY <1>2, <1>4, <1>10, <2>3, <2>4, <3>1 DEF TalkInv, FsLoopInv
    <3>4. FsGotInv'
      BY <1>2, <1>4, <1>10, <2>1, <2>3, <2>4, <3>1 DEF TalkInv, FsGotInv
    <3>5. FsServeInv'
      BY <1>2, <1>4, <1>8, <1>9, <1>10, <2>1, <2>3, <2>4 DEF TalkInv, FsServeInv
    <3>6. TtyInv'
      BY <1>6, <2>4 DEF TtyInv
    <3> QED
      BY <1>4, <1>5, <1>6, <2>1, <2>2, <3>2, <3>3, <3>4, <3>5, <3>6, UpIsTInv DEF TalkInv
  <2>5. CASE /\ p_flags[FS] = {SENDING} /\ p_sendto[FS] = TTY /\ p_flags'[FS] = {}
             /\ p_flags'[TTY] = {} /\ mem'[TTY] = mem[FS]
    <3>1. fspc.at = "sent" /\ fspc.src \in User /\ mem[FS] = DevRequestOf(fspc.src) /\ Fresh(fspc.src)
      <4>1. Sending(FS)
        BY <2>5 DEF Sending
      <4> QED
        BY <1>1, <1>4, <2>5, <4>1, WhoSends
    <3>2. PICK u \in User : u = fspc.src /\ mem[FS] = DevRequestOf(u) /\ Fresh(u)
      BY <3>1
    <3>3. /\ FsAwaits(u)' /\ TtyHas(u)' /\ Fresh(u)' /\ FsServes(u)' /\ Busy(u)'
      BY <1>2, <1>6, <2>1, <2>3, <2>5, <3>1, <3>2 DEF FsAwaits, TtyHas, FsServes, Fresh
    <3>4. \A v \in User : Busy(v)' => Seen(v)'
      <4>1. ASSUME NEW v \in User, Busy(v), v # u PROVE Kept(v)
        BY <1>4, <1>9, <3>1, <3>2, <4>1
           DEF TalkInv, Seen, FsHas, FsServes, FsHasLine, FsTells
      <4> QED
        BY <1>8, <2>1, <3>3, <4>1 DEF Seen
    <3>5. FsLoopInv' /\ FsGotInv'
      BY <1>2, <3>1 DEF FsLoopInv, FsGotInv
    <3>6. FsServeInv'
      <4>1. fspc.len = pc[u].len
        BY <1>4, <3>1, <3>2 DEF TalkInv, FsServeInv
      <4> QED
        BY <1>2, <3>1, <3>2, <3>3, <4>1 DEF FsServeInv
    <3>7. TtyInv'
      BY <2>5, <3>3 DEF TtyInv
    <3> QED
      BY <1>4, <1>5, <1>6, <2>1, <2>2, <3>4, <3>5, <3>6, <3>7, UpIsTInv DEF TalkInv
  <2> QED
    BY <1>10, <2>4, <2>5
<1>11. CASE Waits(TTY, ANY)
  BY <1>1, <1>10, <1>11 DEF Waits
<1>12. CASE Interrupts(TTY, ANY)
  BY <1>1, <1>5, <1>10, <1>12 DEF Interrupts, IntMessage
<1>13. CASE \E from \in Proc : Taken(TTY, ANY, from)
  <2>1. PICK from \in Proc : Taken(TTY, ANY, from)
    BY <1>13
  <2>2. from = FS
    <3>1. Sending(from) /\ p_sendto[from] = TTY /\ from # TTY
      BY <2>1 DEF Taken, Sending
    <3> QED
      BY <1>1, <1>4, <3>1, WhoSends, Names
  <2> QED
    BY <1>1, <1>5, <1>10, <2>1, <2>2 DEF Taken
<1> QED
  BY <1>5, <1>11, <1>12, <1>13

(* TTY's answer finds FS in front of its RECEIVE or in it.                 *)
LEMMA AnswerKeeps ==
  ASSUME TInv, panic = "no", p_flags[TTY] = {}, NEW u \in User, FsAwaits(u), Busy(u),
         fspc.len = pc[u].len,
         SendStep(TTY, FS, AnswerTo(u).type), ttypc' = Again, LocalOK', UNCHANGED <<fspc, pc>>,
         \A t \in Console : HasReader(t)' =>
            \/ HasReader(t) /\ tty'[t] = tty[t]
            \/ t = TtyOf[u] /\ Reading(u) /\ tty'[t] = [procnr |-> u, left |-> pc[u].len, trans |-> 0],
         \A v \in User \ {u} : Kept(v) => Kept(v)',
         Reading(u) => Kept(u)'
  PROVE  TInv'
<1>1. FS \in Proc \ {TTY} /\ TTY \in Proc /\ User \subseteq Proc \ {TTY, FS} /\ TTY # FS
  BY Names
<1>2. TalkInv /\ IInv /\ LocalOK /\ OnlyTty
  BY DEF TInv
<1> DEFINE t == AnswerTo(u).type
<1>3. t \in Type /\ Stamped(TTY, t) = AnswerTo(u)
  BY <1>2, NoInterrupts DEF AnswerTo, Stamped
<1>4. SendStep(TTY, FS, t)
  OBVIOUS
<1> HIDE DEF t
<1>5. /\ has_int_msg' = has_int_msg /\ IInv'
      /\ Circle(TTY, FS, t) \/ Delivered(TTY, FS, t) \/ Blocked(TTY, FS, t)
  BY <1>1, <1>2, <1>3, <1>4, SendOutcome
<1>6. ~Circle(TTY, FS, t)
  <2>1. ~Sending(FS)
    BY Names DEF FsAwaits, Sending
  <2> QED
    BY <1>1, <2>1, NotSending DEF Circle
<1>7. \A v \in User : /\ ~FsHas(v) /\ ~FsHasLine(v) /\ ~FsTells(v) /\ ~Resuming(v)
                      /\ FsServes(v) => v = u
                      /\ Busy(v) /\ v # u => Kept(v)
  <2>1. \A v \in User : /\ ~FsHas(v) /\ ~FsHasLine(v) /\ ~FsTells(v) /\ ~Resuming(v)
                        /\ FsServes(v) => v = u
    BY DEF FsHas, FsHasLine, FsTells, FsServes, FsAwaits, Resuming
  <2> QED
    BY <1>2, <2>1 DEF Seen, TalkInv
<1>8. ASSUME panic' = "no", FsServes(u)',
             \A x \in Proc \ {TTY, FS} : /\ p_flags'[x] = p_flags[x] /\ mem'[x] = mem[x]
                                         /\ p_recvfrom'[x] = p_recvfrom[x] /\ p_sendto'[x] = p_sendto[x],
             \/ /\ fspc.at = "back" /\ p_flags'[FS] = {} /\ mem'[FS] = AnswerTo(u)
                /\ p_flags'[TTY] = {}
             \/ /\ fspc.at = "sent" /\ p_flags'[FS] = {}
                /\ p_flags'[TTY] = {SENDING} /\ p_sendto'[TTY] = FS /\ mem'[TTY] = AnswerTo(u)
      PROVE  TInv'
  <2>1. \A v \in User :
          /\ UserOK(v)' /\ (Busy(v)' <=> Busy(v)) /\ (Reading(v)' <=> Reading(v))
          /\ AnswerTo(v)' = AnswerTo(v) /\ \A m : IsLineOf(v, m)' <=> IsLineOf(v, m)
    BY <1>1, <1>2, <1>8, SystemSide
  <2>2. \A c \in Console : ReaderOK(c)'
    <3> SUFFICES ASSUME NEW c \in Console, HasReader(c)' PROVE ReaderOK(c)'
      BY DEF ReaderOK
    <3>1. CASE HasReader(c) /\ tty'[c] = tty[c]
      BY <1>2, <2>1, <3>1 DEF TalkInv, ReaderOK
    <3>2. CASE c = TtyOf[u] /\ Reading(u) /\ tty'[c] = [procnr |-> u, left |-> pc[u].len, trans |-> 0]
      <4>1. pc[u].len \in Nat
        BY <1>2 DEF LocalOK
      <4> QED
        BY <2>1, <3>2, <4>1 DEF ReaderOK
    <3> QED
      BY <3>1, <3>2
  <2>3. \A v \in User : Busy(v)' => Seen(v)'
    BY <1>7, <1>8, <2>1 DEF Seen
  <2>4. FsLoopInv' /\ FsGotInv'
    BY DEF FsLoopInv, FsGotInv, FsAwaits
  <2>5. FsServeInv'
    BY <1>8, <2>1 DEF FsServeInv, TtyAnswers, FsAwaits
  <2>6. TtyInv'
    BY <1>8, <2>1 DEF TtyInv, TtyAnswers, FsAwaits, Again
  <2> QED
    BY <1>2, <1>5, <1>8, <2>1, <2>2, <2>3, <2>4, <2>5, <2>6, UpIsTInv DEF TalkInv
<1>9. FsServes(u)'
  BY DEF FsServes, FsAwaits
<1>10. CASE Delivered(TTY, FS, t)
  <2>1. /\ panic' = "no" /\ p_flags[FS] = {RECEIVING} /\ p_flags'[FS] = {} /\ p_flags'[TTY] = {}
        /\ mem'[FS] = AnswerTo(u)
        /\ \A x \in Proc \ {TTY, FS} : /\ p_flags'[x] = p_flags[x] /\ mem'[x] = mem[x]
                                       /\ p_recvfrom'[x] = p_recvfrom[x] /\ p_sendto'[x] = p_sendto[x]
    BY <1>1, <1>3, <1>10 DEF Delivered
  <2>2. fspc.at = "back"
    BY <2>1 DEF FsAwaits
  <2> QED
    BY <1>8, <1>9, <2>1, <2>2
<1>11. CASE Blocked(TTY, FS, t)
  <2>1. /\ panic' = "no" /\ p_flags'[TTY] = {SENDING} /\ p_sendto'[TTY] = FS
        /\ mem'[TTY] = AnswerTo(u) /\ ~Awaits(FS, TTY) /\ p_flags'[FS] = p_flags[FS]
        /\ \A x \in Proc \ {TTY, FS} : /\ p_flags'[x] = p_flags[x] /\ mem'[x] = mem[x]
                                       /\ p_recvfrom'[x] = p_recvfrom[x] /\ p_sendto'[x] = p_sendto[x]
    BY <1>1, <1>3, <1>11 DEF Blocked
  <2>2. fspc.at = "sent" /\ p_flags[FS] = {}
    BY <2>1 DEF FsAwaits, Awaits
  <2> QED
    BY <1>8, <1>9, <2>1, <2>2
<1> QED
  BY <1>5, <1>6, <1>10, <1>11

(* TTY, with a request in hand, has it of the process that FS serves.      *)
LEMMA AskedOf ==
  ASSUME TInv, NEW op \in {"OPEN", "READ", "WRITE"}, Asked(DevOp(op))
  PROVE  \E u \in User :
           /\ TtyHas(u) /\ FsAwaits(u) /\ Busy(u) /\ ~Kept(u) /\ fspc.len = pc[u].len
           /\ pc[u].op = op /\ pc[u].op \in OpsOf[u] /\ pc[u].len \in LensOf(op)
           /\ mem[TTY].source = FS /\ mem[TTY].type.who = u
           /\ mem[TTY].type.tty = TtyOf[u] /\ mem[TTY].type.cnt = pc[u].len
<1>1. /\ panic = "no" /\ p_flags[TTY] = {} /\ ttypc.at = "got"
      /\ mem[TTY].type # HARD_INT /\ mem[TTY].type.op = DevOp(op)
  BY DEF Asked, TtyAt, CanCall
<1>2. TalkInv
  BY <1>1 DEF TInv
<1>3. PICK u \in User : TtyHas(u) /\ FsAwaits(u)
  BY <1>1, <1>2, Names DEF TalkInv, TtyInv
<1>4. fspc.src = u /\ Busy(u) /\ fspc.len = pc[u].len /\ ~Kept(u)
  BY <1>1, <1>2, <1>3, Names DEF TalkInv, FsServeInv, FsAwaits, TtyAnswers, Fresh
<1>5. /\ UserOK(u) /\ pc[u].op \in OpsOf[u] /\ pc[u].len \in LensOf(pc[u].op)
      /\ pc[u].op \in {"OPEN", "READ", "WRITE"}
  BY <1>2, <1>4, TtyAssumption DEF TalkInv, UserOK, Busy
<1>6. /\ mem[TTY].type.op = DevOp(pc[u].op) /\ mem[TTY].source = FS /\ mem[TTY].type.who = u
      /\ mem[TTY].type.tty = TtyOf[u] /\ mem[TTY].type.cnt = pc[u].len
  BY <1>3, Messages DEF TtyHas
<1>7. pc[u].op = op
  BY <1>1, <1>5, <1>6 DEF DevOp
<1> QED
  BY <1>3, <1>4, <1>5, <1>6, <1>7

(* A terminal that is asked for a line has no reader.                      *)
LEMMA tty_do_readKeeps ==
  ASSUME TInv, tty_do_read
  PROVE  TInv'
<1>1. /\ Asked("DEV_READ") /\ panic = "no" /\ p_flags[TTY] = {} /\ ttypc.at = "got" /\ ttypc' = Again
      /\ UNCHANGED <<kb_in, key_pressed, current, fspc, pc>>
  BY DEF tty_do_read, Asked, TtyAt, CanCall, kbvars
<1>2. TalkInv /\ LocalOK
  BY <1>1 DEF TInv
<1>3. PICK u \in User :
        /\ TtyHas(u) /\ FsAwaits(u) /\ Busy(u) /\ ~Kept(u) /\ fspc.len = pc[u].len
        /\ pc[u].op = "READ" /\ pc[u].op \in OpsOf[u] /\ pc[u].len \in Lens
        /\ mem[TTY].source = FS /\ mem[TTY].type.who = u
        /\ mem[TTY].type.tty = TtyOf[u] /\ mem[TTY].type.cnt = pc[u].len
  <2>1. Asked(DevOp("READ"))
    BY <1>1 DEF DevOp
  <2> QED
    BY <2>1, AskedOf, Lengths
<1>4. Reading(u) /\ TtyOf[u] \in Console /\ pc[u].len \in Nat /\ pc[u].len > 0
  <2>1. TtyOf[u] \in Console /\ Lens \subseteq Nat \ {0}
    BY TtyAssumption
  <2>2. \A n \in Nat \ {0} : n > 0
    OBVIOUS
  <2> QED
    BY <1>3, <2>1, <2>2 DEF Reading
<1>5. /\ tty' = [tty EXCEPT ![TtyOf[u]] = [procnr |-> u, left |-> pc[u].len, trans |-> 0]]
      /\ SendStep(TTY, FS, AnswerTo(u).type)
  BY <1>3, <1>4 DEF tty_do_read, AnswerTo, Stamped
<1>6. /\ tty'[TtyOf[u]] = [procnr |-> u, left |-> pc[u].len, trans |-> 0]
      /\ \A t \in Console \ {TtyOf[u]} : tty'[t] = tty[t]
      /\ LocalOK'
  BY <1>1, <1>2, <1>4, <1>5, Names DEF LocalOK, Again
<1>7. \A t \in Console \ {TtyOf[u]} : HasReader(t)' <=> HasReader(t)
  BY <1>1, <1>6 DEF HasReader, Again
<1>8. HasReader(TtyOf[u])'
  BY <1>4, <1>6 DEF HasReader
<1>9. ~HasReader(TtyOf[u])
  <2> SUFFICES ASSUME HasReader(TtyOf[u]) PROVE FALSE
    OBVIOUS
  <2>1. PICK w \in User : w = tty[TtyOf[u]].procnr /\ TtyOf[w] = TtyOf[u] /\ Busy(w) /\ Reading(w)
    BY <1>2, <1>4 DEF TalkInv, ReaderOK
  <2>2. "READ" \in OpsOf[w] /\ "READ" \in OpsOf[u]
    BY <1>2, <1>3, <2>1 DEF TalkInv, UserOK, Busy, Reading
  <2>3. w = u
    BY <2>1, <2>2, OneReader
  <2> QED
    BY <1>3, <2>1, <2>3 DEF Kept
<1>10. Kept(u)' /\ \A v \in User \ {u} : Kept(v) => Kept(v)'
  BY <1>6, <1>7, <1>8, <1>9, TtyAssumption DEF Kept
<1>11. \A t \in Console : HasReader(t)' =>
          \/ HasReader(t) /\ tty'[t] = tty[t]
          \/ t = TtyOf[u] /\ Reading(u) /\ tty'[t] = [procnr |-> u, left |-> pc[u].len, trans |-> 0]
  BY <1>4, <1>6, <1>7
<1> QED
  BY <1>1, <1>3, <1>5, <1>6, <1>10, <1>11, AnswerKeeps

LEMMA tty_openKeeps ==
  ASSUME TInv, tty_open
  PROVE  TInv'
<1>1. /\ Asked("DEV_OPEN") /\ panic = "no" /\ p_flags[TTY] = {} /\ ttypc.at = "got" /\ ttypc' = Again
      /\ UNCHANGED <<kb_in, key_pressed, current, tty, fspc, pc>>
  BY DEF tty_open, Asked, TtyAt, CanCall, kbvars
<1>2. TalkInv /\ LocalOK
  BY <1>1 DEF TInv
<1>3. PICK u \in User :
        /\ TtyHas(u) /\ FsAwaits(u) /\ Busy(u) /\ fspc.len = pc[u].len /\ pc[u].op = "OPEN"
        /\ mem[TTY].source = FS /\ pc[u].len = 0
  <2>1. Asked(DevOp("OPEN"))
    BY <1>1 DEF DevOp
  <2> QED
    BY <2>1, AskedOf, Lengths
<1>4. ~Reading(u) /\ SendStep(TTY, FS, AnswerTo(u).type)
  BY <1>3 DEF tty_open, AnswerTo, Stamped, Reading
<1>5. LocalOK'
  BY <1>1, <1>2, Names DEF LocalOK, Again
<1>6. \A t \in Console : HasReader(t)' <=> HasReader(t)
  BY <1>1 DEF HasReader, Again
<1>7. \A v \in User : Kept(v)' <=> Kept(v)
  BY <1>1, <1>6, TtyAssumption DEF Kept
<1> QED
  BY <1>1, <1>3, <1>4, <1>5, <1>6, <1>7, AnswerKeeps

LEMMA tty_do_writeKeeps ==
  ASSUME TInv, tty_do_write
  PROVE  TInv'
<1>1. /\ Asked("DEV_WRITE") /\ panic = "no" /\ p_flags[TTY] = {} /\ ttypc.at = "got" /\ ttypc' = Again
      /\ UNCHANGED <<kb_in, key_pressed, current, tty, fspc, pc>>
  BY DEF tty_do_write, Asked, TtyAt, CanCall, kbvars
<1>2. TalkInv /\ LocalOK
  BY <1>1 DEF TInv
<1>3. PICK u \in User :
        /\ TtyHas(u) /\ FsAwaits(u) /\ Busy(u) /\ fspc.len = pc[u].len /\ pc[u].op = "WRITE"
        /\ mem[TTY].source = FS /\ mem[TTY].type.cnt = pc[u].len
  <2>1. Asked(DevOp("WRITE"))
    BY <1>1 DEF DevOp
  <2> QED
    BY <2>1, AskedOf
<1>4. ~Reading(u) /\ SendStep(TTY, FS, AnswerTo(u).type)
  BY <1>3 DEF tty_do_write, AnswerTo, Stamped, Reading
<1>5. LocalOK'
  BY <1>1, <1>2, Names DEF LocalOK, Again
<1>6. \A t \in Console : HasReader(t)' <=> HasReader(t)
  BY <1>1 DEF HasReader, Again
<1>7. \A v \in User : Kept(v)' <=> Kept(v)
  BY <1>1, <1>6, TtyAssumption DEF Kept
<1> QED
  BY <1>1, <1>3, <1>4, <1>5, <1>6, <1>7, AnswerKeeps

-----------------------------------------------------------------------------
(* Every step.                                                             *)

LEMMA NextTInv == TInv /\ [TtyNext]_allvars => TInv'
<1> SUFFICES ASSUME TInv, [TtyNext]_allvars PROVE TInv'
  OBVIOUS
<1>1. CASE UNCHANGED allvars
  <2>1. UNCHANGED vars /\ UNCHANGED talk /\ UNCHANGED <<kb_in, key_pressed, current, tty, ttypc, fspc, pc>>
    BY <1>1 DEF allvars, ipcvars, kbvars, ttyvars, vars, talk
  <2>2. IInv'
    BY <2>1, StepIInv DEF TInv
  <2>3. panic = "no" => TalkInv'
    BY <2>1, TalkKept DEF TInv
  <2> QED
    BY <2>1, <2>2, <2>3
       DEF TInv, LocalOK, OnlyTty, ReaderStillWaits, OnlyResumeDeadlocks, Reading, Sending, vars
<1>2. CASE \E k \in Keys : keyboard_handler(k)
  BY <1>2, keyboard_handlerKeeps
<1>3. CASE clock_handler
  BY <1>3, clock_handlerKeeps
<1>4. CASE \E u \in User : \/ UserRuns(u)
                        \/ \E op \in OpsOf[u] : \E n \in LensOf(op) : UserSend(u, op, n)
  BY <1>4, UserReceiveKeeps, UserReturnKeeps, UserSendKeeps DEF UserRuns
<1>5. CASE FsTask
  BY <1>5, FsReceiveKeeps, FsForwardKeeps, FsAwaitKeeps, FsReplyKeeps, FsSuspendKeeps, FsResumeKeeps
     DEF FsTask
<1>6. CASE TtyTask
  BY <1>6, ServiceNothingKeeps, ServiceKeyKeeps, ResumeKeeps, TtyReceiveKeeps, TtyInterruptKeeps,
     tty_openKeeps, tty_do_readKeeps, tty_do_writeKeeps DEF TtyTask
<1> QED
  BY <1>1, <1>2, <1>3, <1>4, <1>5, <1>6 DEF TtyNext

(* The invariant of terminals: the kernel's message passing is in order,   *)
(* every process in read() or write() is with exactly who has to see to it *)
(* next, and FS and TTY hold its message.                                  *)
THEOREM TtyInvariance == TtySpec => []TInv
<1>1. TtyInit => TInv
  BY InitTInv
<1>2. TInv /\ [TtyNext]_allvars => TInv'
  BY NextTInv
<1> QED
  BY <1>1, <1>2, PTL DEF TtySpec

(* A terminal stores characters for a process that waits for them, within  *)
(* the length it asked for, and no process that sleeps in read() or        *)
(* write() is forgotten by FS and TTY, however many there are.             *)
THEOREM ReadersAreKept == TtySpec => []ReadersKept
<1>1. TInv => ReadersKept
  <2> SUFFICES ASSUME TInv PROVE ReadersKept
    OBVIOUS
  <2>1. TtyTypeOK
    BY DEF TInv, IInv, LocalOK, TtyTypeOK
  <2>2. ASSUME panic = "no", NEW u \in User, p_flags[u] # {} PROVE InFlight(u)
    <3>1. TalkInv /\ IInv
      BY <2>2 DEF TInv
    <3>2. CASE p_flags[u] = {SENDING}
      BY <3>2 DEF InFlight, Sending
    <3>3. CASE p_flags[u] = {RECEIVING}
      <4>1. Busy(u)
        BY <3>1, <3>3, Names DEF TalkInv, UserOK, Busy
      <4>2. Seen(u)
        BY <3>1, <4>1 DEF TalkInv
      <4>3. ASSUME FsHas(u) PROVE InFlight(u)
        BY <2>2, <3>1, <4>1, <4>3, NoInterrupts, Messages DEF FsHas, InFlight, Requested, FsGot, CanCall
      <4>4. ASSUME Kept(u) PROVE InFlight(u)
        BY <4>4, TtyAssumption DEF Kept, HasReader, InFlight
      <4>5. ASSUME Resuming(u) PROVE InFlight(u)
        <5>1. mem[TTY].type = Msg("RESUME_PROC", 0, u, mem[TTY].type.cnt)
          BY <4>5 DEF Resuming, IsLineOf, Stamped, Msg
        <5> QED
          BY <4>5, <5>1 DEF Resuming, InFlight, Sending
      <4>6. ASSUME FsHasLine(u) PROVE InFlight(u)
        BY <2>2, <4>6, Messages DEF FsHasLine, InFlight, FsGot, CanCall
      <4>7. ASSUME FsTells(u) \/ FsServes(u) PROVE InFlight(u)
        BY <4>7 DEF FsTells, FsServes, InFlight, Sending
      <4> QED
        BY <4>2, <4>3, <4>4, <4>5, <4>6, <4>7 DEF Seen
    <3> QED
      BY <2>2, <3>1, <3>2, <3>3, Flags, Names
  <2> QED
    BY <2>1, <2>2 DEF TInv, ReadersKept, NobodyForgotten
<1> QED
  BY <1>1, TtyInvariance, PTL

(* What FS takes for TTY's answer is the answer to the request that FS has *)
(* passed on, never another reader's line.                                 *)
THEOREM AnswersAreToRequests == TtySpec => []AnswerIsToRequest
<1>1. TInv => AnswerIsToRequest
  <2> SUFFICES ASSUME TInv, fspc.at = "back", CanCall(FS)
               PROVE  /\ mem[FS].type.op = IF pc[fspc.src].op = "READ" THEN "SUSPEND_PROC" ELSE "SYSCALL_RET"
                      /\ mem[FS].type.cnt = fspc.len
    BY DEF AnswerIsToRequest
  <2>1. TalkInv /\ p_flags[FS] = {}
    BY DEF TInv, CanCall
  <2>2. PICK u \in User : u = fspc.src /\ fspc.len = pc[u].len /\ mem[FS] = AnswerTo(u)
    BY <2>1, Names DEF TalkInv, FsServeInv, FsAwaits, TtyAnswers
  <2> QED
    BY <2>2, Messages DEF Reading
<1> QED
  BY <1>1, TtyInvariance, PTL

(* The machine stops over TTY's line for FS crossing FS's request for TTY, *)
(* and over nothing else.                                                  *)
THEOREM DeadlocksAreResumes == TtySpec => []OnlyResumeDeadlocks
<1>1. TInv => OnlyResumeDeadlocks
  BY DEF TInv
<1> QED
  BY <1>1, TtyInvariance, PTL
=============================================================================
