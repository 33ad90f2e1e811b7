------------------------------ MODULE HdProofs ------------------------------
(***************************************************************************)
(* Driver and drive stay in step, no interrupt is left over, and FS stays  *)
(* within its partition, for any disk, any partition and any requests.     *)
(***************************************************************************)
EXTENDS Hd, Induction, SequenceTheorems, TLAPS

-----------------------------------------------------------------------------
(* The inductive invariant.                                                *)

HdStates == {"loop", "got", "table", "wait", "awake", "drq", "reply"}

(* Requests as FS makes them.                                              *)
IsRequest(m) ==
  /\ m \in Type /\ m.op \in {"OPEN", "IOCTL", "READ", "WRITE"}
  /\ m.op \in {"READ", "WRITE"} => m.cnt \in Lens /\ m.pos \in Positions

HdTypeOK ==
  /\ p_flags \in [Proc -> SUBSET {SENDING, RECEIVING}]
  /\ DOMAIN p_recvfrom = Proc /\ DOMAIN p_sendto = Proc
  /\ DOMAIN q_sending = Proc /\ DOMAIN mem = Proc
  /\ has_int_msg \in [Proc -> {0, 1}] /\ irq \in {0, 1}
  /\ DOMAIN hd = {"at", "msg", "left"} /\ hd.at \in HdStates /\ hd.left \in Nat
  /\ DOMAIN drive = {"at", "op", "left", "lba"} /\ drive.left \in Nat
  /\ drive.at \in {"idle", "busy", "ready", "flush"}
  /\ DOMAIN fs = {"at", "did", "dev", "geo"}
  /\ panic \in {"no", "ASSERT", "TIMEOUT"}

(* The conversation of FS and TASK_HD.  Either FS has nothing to say and   *)
(* HD waits for it or soon will;                                           *)
Quiet ==
  /\ fs.at \in {"run", "wait"} /\ p_flags[FS] = {}
  /\ \/ hd.at = "loop" /\ p_flags[HD] = {}
     \/ hd.at = "got" /\ p_flags[HD] = {RECEIVING} /\ p_recvfrom[HD] = ANY
  /\ q_sending[FS] = << >> /\ q_sending[HD] = << >>

(* or FS is queued with its request;                                       *)
Asking ==
  /\ fs.at = "sent" /\ p_flags[FS] = {SENDING} /\ p_sendto[FS] = HD
  /\ hd.at = "loop" /\ p_flags[HD] = {}
  /\ q_sending[FS] = << >> /\ q_sending[HD] = <<FS>>
  /\ IsRequest(mem[FS].type)

(* or HD is serving it, waiting for nothing but interrupts;                *)
Serving ==
  /\ \/ fs.at = "sent" /\ p_flags[FS] = {}
     \/ fs.at = "wait" /\ p_flags[FS] = {RECEIVING} /\ p_recvfrom[FS] = HD
  /\ hd.at # "loop"
  /\ \/ p_flags[HD] = {}
     \/ hd.at = "awake" /\ p_flags[HD] = {RECEIVING} /\ p_recvfrom[HD] = INTERRUPT
  /\ q_sending[FS] = << >> /\ q_sending[HD] = << >>
  /\ IF hd.at = "got" THEN IsRequest(mem[HD].type) ELSE IsRequest(hd.msg)

(* or HD is queued with the answer.                                        *)
Answering ==
  /\ fs.at = "sent" /\ p_flags[FS] = {}
  /\ hd.at = "loop" /\ p_flags[HD] = {SENDING} /\ p_sendto[HD] = FS
  /\ q_sending[FS] = <<HD>> /\ q_sending[HD] = << >>

Conversation ==
  /\ has_int_msg[FS] = 0
  /\ Quiet \/ Asking \/ Serving \/ Answering

(* What the driver is doing fits what it was asked for.                    *)
Doing ==
  /\ hd.at = "drq" => hd.msg.op = "WRITE"
  /\ hd.at = "table" => hd.msg.op = "OPEN"
  /\ hd.at \in {"wait", "awake"} => hd.msg.op \in {"READ", "WRITE", "OPEN"}
  /\ hd.at \in {"wait", "awake"} /\ hd.msg.op = "OPEN" => hd.left = 1

(* Where the drive may be while the driver is there: an interrupt is on    *)
(* its way exactly when a sector is ready to be read or has been written,  *)
(* and has not been taken.                                                 *)
Between == hd.at \in {"loop", "got", "table", "reply"}
Transfer == hd.at \in {"wait", "awake"}
Taken == IF Awake THEN 1 ELSE Pending

InStep ==
  /\ Between => drive.left = 0 /\ drive.at \in {"idle", "busy"} /\ Pending = 0
  /\ ~Between => hd.left > 0
  /\ hd.at = "reply" => CutOff = 0
  /\ Awake => Pending = 0
  /\ Transfer /\ hd.msg.op # "WRITE" =>
       /\ hd.left = drive.left + CutOff /\ (drive.left > 0 => drive.op = "READ")
       /\ \/ drive.at = "busy" /\ Taken = 0
          \/ drive.at = "ready" /\ drive.left > 0 /\ Taken = 1
          \/ drive.at = "idle" /\ drive.left = 0 /\ Taken = 0
  /\ Transfer /\ hd.msg.op = "WRITE" =>
       /\ drive.left > 0 => drive.op = "WRITE"
       /\ \/ /\ drive.at = "flush" /\ drive.left > 0 /\ hd.left = drive.left + CutOff
             /\ Taken = 0
          \/ /\ hd.left = drive.left + CutOff + 1 /\ Taken = 1
             /\ drive.at \in (IF drive.left = 0 THEN {"busy", "idle"} ELSE {"ready"})
  /\ hd.at = "drq" =>
       /\ hd.left = drive.left + CutOff /\ (drive.left > 0 => drive.op = "WRITE")
       /\ drive.at \in {"busy", IF drive.left = 0 THEN "idle" ELSE "ready"}
       /\ Pending = 0

HInv == HdTypeOK /\ Conversation /\ Doing /\ InStep

-----------------------------------------------------------------------------
(* Facts about the constants, and about queues of at most one sender.      *)

LEMMA Names ==
  /\ Proc = {HD, FS} /\ HD # FS /\ IrqTask = {HD}
  /\ ANY \notin {HD, FS} /\ INTERRUPT \notin {HD, FS} /\ NO_TASK \notin {HD, FS}
  /\ ANY # INTERRUPT /\ SENDING # RECEIVING /\ HARD_INT \notin Type
BY HdAssumption, PseudoProcAssumption, TypeAssumption DEF SENDING, RECEIVING

LEMMA UnlinkOnly ==
  ASSUME NEW x
  PROVE  Unlink(<<x>>, 1) = << >>
BY DEF Unlink

(* Quotient and remainder give a number back.                              *)
LEMMA DivMod ==
  ASSUME NEW n \in Nat, NEW r \in Nat \ {0}
  PROVE  n \div r \in Nat /\ n % r \in 0..(r - 1) /\ (n \div r) * r + (n % r) = n
  OBVIOUS

(* The drive moves at least one sector and never more than it is asked     *)
(* for; the register's 0 stands for CountMod, so it moves all of them when *)
(* they are no more than that.                                             *)
LEMMA RegisterCounts ==
  ASSUME NEW n \in Nat \ {0}
  PROVE  /\ Sectors(CountReg(n)) \in 1..n
         /\ n \in 1..CountMod => Sectors(CountReg(n)) = n
<1> DEFINE c == n % CountMod
           q == n \div CountMod
<1>1. CountMod \in Nat \ {0}
  BY HdAssumption
<1>2. q \in Nat /\ c \in 0..(CountMod - 1) /\ q * CountMod + c = n
  BY <1>1, DivMod
<1>3. Sectors(CountReg(n)) = IF c = 0 THEN CountMod ELSE c
  BY DEF Sectors, CountReg
<1>4. n \in 1..CountMod => c = IF n = CountMod THEN 0 ELSE n
  <2>1. CASE n < CountMod
    BY <1>1, <2>1
  <2>2. CASE n = CountMod
    BY <1>1, <2>2
  <2> QED
    BY <1>1, <2>1, <2>2
<1> HIDE DEF c, q
<1>5. c <= n
  <2>1. q * CountMod \in Nat
    BY <1>1, <1>2
  <2> QED
    BY <1>2, <2>1
<1>6. c = 0 => CountMod <= n
  <2> SUFFICES ASSUME c = 0 PROVE CountMod <= n
    OBVIOUS
  <2>1. q # 0
    BY <1>1, <1>2
  <2>2. q - 1 \in Nat /\ q * CountMod = CountMod + (q - 1) * CountMod
    BY <1>1, <1>2, <2>1
  <2>3. (q - 1) * CountMod \in Nat
    BY <1>1, <2>2
  <2>4. q * CountMod = n
    BY <1>1, <1>2
  <2> QED
    BY <1>1, <2>2, <2>3, <2>4
<1> QED
  BY <1>1, <1>2, <1>3, <1>4, <1>5, <1>6

(* What is cut off is a number of sectors.                                 *)
LEMMA CutOffIsNat ==
  ASSUME HInv, hd.at \notin {"loop", "got"}
  PROVE  CutOff \in Nat
<1>1. IsRequest(hd.msg)
  BY DEF HInv, Conversation, Quiet, Asking, Serving, Answering
<1>2. CASE hd.msg.op \in {"READ", "WRITE"}
  <2>1. hd.msg.cnt \in Nat \ {0}
    BY <1>1, <1>2, HdAssumption DEF IsRequest
  <2>2. Sectors(CountReg(hd.msg.cnt)) \in 1..hd.msg.cnt
    BY <2>1, RegisterCounts
  <2> QED
    BY <1>2, <2>1, <2>2 DEF CutOff
<1>3. CASE hd.msg.op \notin {"READ", "WRITE"}
  BY <1>3 DEF CutOff
<1> QED
  BY <1>2, <1>3

LEMMA InitHInv == HdInit => HInv
<1> SUFFICES ASSUME HdInit PROVE HInv
  OBVIOUS
<1>1. /\ p_flags = [p \in Proc |-> {}] /\ has_int_msg = [p \in Proc |-> 0]
      /\ q_sending = [p \in Proc |-> << >>] /\ panic = "no"
      /\ DOMAIN p_recvfrom = Proc /\ DOMAIN p_sendto = Proc /\ DOMAIN mem = Proc
  BY DEF HdInit, Init
<1>2. /\ hd = HdIdle /\ drive = DriveIdle /\ irq = 0
      /\ fs.at = "run" /\ DOMAIN fs = {"at", "did", "dev", "geo"}
  BY DEF HdInit
<1>3. HdTypeOK
  BY <1>1, <1>2 DEF HdTypeOK, HdIdle, DriveIdle, HdStates
<1>4. Conversation
  BY <1>1, <1>2, Names DEF Conversation, Quiet, HdIdle
<1>5. Doing /\ InStep
  BY <1>1, <1>2, Names
     DEF Doing, InStep, Between, Transfer, Taken, Awake, Pending, HdIdle, DriveIdle
<1> QED
  BY <1>3, <1>4, <1>5 DEF HInv

-----------------------------------------------------------------------------
(* FS.                                                                     *)

(* A request finds HD at its main loop, before or in its RECEIVE.          *)
LEMMA RequestGoesOut ==
  ASSUME HInv, NEW m, IsRequest(m), fs.at = "run", SendStep(FS, HD, m)
  PROVE  /\ p_flags' \in [Proc -> SUBSET {SENDING, RECEIVING}]
         /\ DOMAIN p_recvfrom' = Proc /\ DOMAIN p_sendto' = Proc
         /\ DOMAIN q_sending' = Proc /\ DOMAIN mem' = Proc
         /\ UNCHANGED <<has_int_msg, panic>>
         /\ \/ /\ hd.at = "loop" /\ p_flags'[HD] = {}
               /\ p_flags'[FS] = {SENDING} /\ p_sendto'[FS] = HD
               /\ q_sending'[FS] = << >> /\ q_sending'[HD] = <<FS>>
               /\ mem'[FS].type = m
            \/ /\ hd.at = "got" /\ p_flags'[HD] = {} /\ p_flags'[FS] = {}
               /\ q_sending'[FS] = << >> /\ q_sending'[HD] = << >>
               /\ mem'[HD].type = m
<1>0. HdTypeOK
  BY DEF HInv
<1>1. CanCall(FS)
  BY DEF SendStep, SendDeadlock, SendDeliver, SendBlock
<1>2. Quiet
  BY <1>1 DEF HInv, Conversation, CanCall, Asking, Serving, Answering
<1>3. ~deadlock(FS, HD)
  <2>1. ~Sending(HD)
    BY <1>2 DEF Quiet, Sending, SENDING, RECEIVING
  <2>2. /\ {HD} \in SUBSET Proc /\ HD \in {HD} /\ ChainClosed({HD})
        /\ {t \in {HD} : Sending(t) /\ p_sendto[t] = FS} = {}
    BY <2>1, Names DEF ChainClosed
  <2> QED
    BY <2>2 DEF deadlock
<1>4. CASE SendDeliver(FS, HD, m)
  <2>1. hd.at = "got" /\ p_flags[HD] = {RECEIVING}
    BY <1>2, <1>4 DEF SendDeliver, Awaits, Quiet
  <2> QED
    BY <1>0, <1>2, <1>4, <2>1, Names DEF SendDeliver, Stamped, HdTypeOK, Quiet
<1>5. CASE SendBlock(FS, HD, m)
  <2>1. hd.at = "loop" /\ p_flags[HD] = {}
    BY <1>2, <1>5, Names DEF SendBlock, Awaits, Quiet
  <2>2. Append(q_sending[HD], FS) = <<FS>>
    BY <1>2 DEF Quiet
  <2> QED
    BY <1>0, <1>2, <1>5, <2>1, <2>2, Names DEF SendBlock, Stamped, HdTypeOK, Quiet
<1> QED
  BY <1>3, <1>4, <1>5 DEF SendStep, SendDeadlock

(* The parts of the invariant that speak of driver and drive only.         *)
LEMMA DriverUnchanged ==
  ASSUME Doing, InStep, UNCHANGED <<hd, drive, irq>>, has_int_msg' = has_int_msg,
         p_flags'[HD] = p_flags[HD] \/ hd.at # "awake"
  PROVE  Doing' /\ InStep'
BY DEF Doing, InStep, Between, Transfer, Taken, Awake, Pending, CutOff

LEMMA FsSendKeeps ==
  ASSUME HInv, NEW op \in {"OPEN", "IOCTL", "READ", "WRITE"}, NEW pos, NEW n,
         op \in {"READ", "WRITE"} => n \in Lens /\ pos \in Positions, FsSend(op, pos, n)
  PROVE  HInv'
<1> DEFINE m == Request(op, pos, n)
<1>1. IsRequest(m)
  BY DEF FsSend, IsRequest, Request
<1>2. /\ fs.at = "run" /\ SendStep(FS, HD, m) /\ UNCHANGED <<hd, drive, irq>>
      /\ fs' = [fs EXCEPT !.at = "sent", !.did = op]
  BY DEF FsSend, taskvars, drivevars
<1> HIDE DEF m
<1>3. HdTypeOK' /\ fs'.at = "sent"
  BY <1>1, <1>2, RequestGoesOut DEF HInv, HdTypeOK
<1>4. Conversation'
  BY <1>1, <1>2, <1>3, RequestGoesOut
     DEF HInv, Conversation, Asking, Serving, IsRequest
<1>5. Doing' /\ InStep'
  BY <1>1, <1>2, RequestGoesOut, DriverUnchanged DEF HInv
<1> QED
  BY <1>3, <1>4, <1>5 DEF HInv

(* FS waits for the answer, or finds HD queued with it.                    *)
LEMMA FsReceiveKeeps ==
  ASSUME HInv, FsReceive
  PROVE  /\ HInv'
         /\ \/ Serving /\ Serving' /\ mem'[HD] = mem[HD]
            \/ Answering /\ Quiet'
<1>0. /\ HdTypeOK /\ fs.at = "sent" /\ ReceiveStep(FS, HD) /\ UNCHANGED <<hd, drive, irq>>
      /\ fs' = [fs EXCEPT !.at = "wait"] /\ CanCall(FS)
      /\ fs'.at = "wait" /\ DOMAIN fs' = DOMAIN fs
  BY DEF FsReceive, taskvars, drivevars, HInv, ReceiveStep, ReceiveInterrupt, ReceiveFetch,
         ReceiveBlock, HdTypeOK
<1>1. ~TakesInt(FS, HD)
  BY Names DEF TakesInt
<1>2. CASE Serving
  <2>1. p_flags[FS] = {} /\ ~CopyOk(FS, HD)
    BY <1>0, <1>2, Names DEF Serving, CanCall, CopyOk, Sending, SENDING, RECEIVING
  <2>2. ReceiveBlock(FS, HD)
    BY <1>0, <1>1, <2>1 DEF ReceiveStep, ReceiveInterrupt, ReceiveFetch
  <2>3. /\ HdTypeOK' /\ Serving' /\ has_int_msg' = has_int_msg /\ p_flags'[HD] = p_flags[HD]
        /\ mem'[HD] = mem[HD]
    BY <1>0, <1>2, <2>1, <2>2, Names DEF ReceiveBlock, HdTypeOK, Serving, IsRequest
  <2> QED
    BY <1>0, <1>2, <2>3, DriverUnchanged DEF HInv, Conversation
<1>3. CASE Answering
  <2>1. /\ CopyOk(FS, HD) /\ q_sending[FS] = <<HD>>
    BY <1>0, <1>3, Names DEF Answering, CopyOk, Sending
  <2>2. ReceiveFetch(FS, HD)
    BY <1>0, <1>1, <2>1 DEF ReceiveStep, ReceiveInterrupt, ReceiveBlock
  <2>3. FetchIndex(FS, HD) = 1
    <3>1. Len(<<HD>>) = 1 /\ <<HD>>[1] = HD
      OBVIOUS
    <3>2. 1..Len(q_sending[FS]) = {1}
      BY <2>1, <3>1
    <3>3. FetchIndex(FS, HD) = CHOOSE i \in {1} : q_sending[FS][i] = HD
      BY <3>2, Names DEF FetchIndex
    <3> QED
      BY <2>1, <3>1, <3>3
  <2>4. /\ q_sending' = [q_sending EXCEPT ![FS] = << >>]
        /\ p_flags' = [p_flags EXCEPT ![HD] = @ \ {SENDING}]
        /\ p_sendto' = [p_sendto EXCEPT ![HD] = NO_TASK]
        /\ mem' = [mem EXCEPT ![FS] = mem[HD]]
        /\ UNCHANGED <<p_recvfrom, has_int_msg, panic>>
    <3>1. q_sending[FS][1] = HD /\ Unlink(q_sending[FS], 1) = << >>
      BY <2>1, UnlinkOnly
    <3>2. q_sending' = [q_sending EXCEPT ![FS] = Unlink(@, 1)]
      BY <2>2, <2>3 DEF ReceiveFetch
    <3> QED
      BY <2>2, <2>3, <3>1, <3>2 DEF ReceiveFetch
  <2>5. HdTypeOK'
    BY <1>0, <2>4, Names DEF HdTypeOK
  <2>6. Quiet'
    BY <1>0, <1>3, <2>4, Names DEF HdTypeOK, Quiet, Answering
  <2>7. hd.at # "awake"
    BY <1>3 DEF Answering
  <2>8. HInv'
    BY <1>0, <2>4, <2>5, <2>6, <2>7, DriverUnchanged DEF HInv, Conversation
  <2> QED
    BY <1>3, <2>6, <2>8
<1> QED
  BY <1>0, <1>2, <1>3 DEF HInv, Conversation, Quiet, Asking, CanCall

LEMMA FsReturnKeeps == HInv /\ FsReturn => HInv'
<1> SUFFICES ASSUME HInv, FsReturn PROVE HInv'
  OBVIOUS
<1>0. /\ HdTypeOK /\ fs.at = "wait" /\ CanCall(FS) /\ UNCHANGED <<ipcvars, hd, drive, irq>>
      /\ fs'.at = "run" /\ DOMAIN fs' = DOMAIN fs
  BY DEF FsReturn, taskvars, drivevars, HInv, HdTypeOK
<1>1. Quiet
  BY <1>0 DEF HInv, Conversation, CanCall, Asking, Serving, Answering
<1>2. HdTypeOK' /\ Quiet'
  BY <1>0, <1>1 DEF HdTypeOK, Quiet, ipcvars
<1> QED
  BY <1>0, <1>2, DriverUnchanged DEF HInv, Conversation, ipcvars

-----------------------------------------------------------------------------
(* TASK_HD's message passing.                                              *)

(* Before the next command no interrupt is left.                           *)
LEMMA NoneLeft ==
  ASSUME HInv, Between
  PROVE  has_int_msg[HD] = 0 /\ irq = 0
BY Names DEF HInv, HdTypeOK, InStep, Pending

LEMMA HdReceiveKeeps ==
  ASSUME HInv, HdReceive
  PROVE  /\ HInv'
         /\ \/ Quiet /\ Quiet'
            \/ Asking /\ Serving' /\ mem'[HD].type = mem[FS].type
<1>0. /\ HdTypeOK /\ hd.at = "loop" /\ ReceiveStep(HD, ANY) /\ UNCHANGED <<drive, irq, fs>>
      /\ hd' = [hd EXCEPT !.at = "got"] /\ CanCall(HD)
  BY DEF HdReceive, drivevars, HInv, ReceiveStep, ReceiveInterrupt, ReceiveFetch,
         ReceiveBlock
<1>1. /\ hd'.at = "got" /\ hd'.left = hd.left /\ hd'.msg = hd.msg /\ DOMAIN hd' = DOMAIN hd
  BY <1>0 DEF HdTypeOK
<1>2. ~TakesInt(HD, ANY) /\ has_int_msg[HD] = 0
  BY <1>0, NoneLeft DEF TakesInt, Between
<1>3. has_int_msg' = has_int_msg /\ panic' = panic
  BY <1>0, <1>2 DEF ReceiveStep, ReceiveInterrupt, ReceiveFetch, ReceiveBlock
<1>4. Doing' /\ InStep'
  BY <1>0, <1>1, <1>3 DEF HInv, Doing, InStep, Between, Transfer, Taken, Awake, Pending
<1>5. CASE Quiet
  <2>1. ReceiveBlock(HD, ANY)
    BY <1>0, <1>2, <1>5 DEF ReceiveStep, ReceiveInterrupt, ReceiveFetch, CopyOk, Quiet
  <2>2. HdTypeOK' /\ Quiet'
    BY <1>0, <1>1, <1>5, <2>1, Names DEF ReceiveBlock, HdTypeOK, Quiet, HdStates
  <2>3. HInv'
    BY <1>3, <1>4, <2>2 DEF HInv, Conversation
  <2> QED
    BY <1>5, <2>2, <2>3
<1>6. CASE Asking
  <2>1. q_sending[HD] = <<FS>> /\ <<FS>> # << >> /\ <<FS>>[1] = FS
    BY <1>6 DEF Asking
  <2>2. ReceiveFetch(HD, ANY)
    BY <1>0, <1>2, <2>1 DEF ReceiveStep, ReceiveInterrupt, ReceiveBlock, CopyOk
  <2>3. /\ q_sending' = [q_sending EXCEPT ![HD] = << >>]
        /\ p_flags' = [p_flags EXCEPT ![FS] = @ \ {SENDING}]
        /\ p_sendto' = [p_sendto EXCEPT ![FS] = NO_TASK]
        /\ mem' = [mem EXCEPT ![HD] = mem[FS]]
        /\ UNCHANGED p_recvfrom
    BY <1>0, <2>1, <2>2, UnlinkOnly, Names DEF ReceiveFetch, FetchIndex, HdTypeOK
  <2>4. HdTypeOK'
    BY <1>0, <1>1, <1>3, <2>3, Names DEF HdTypeOK, HdStates
  <2>5. mem'[HD].type = mem[FS].type
    BY <1>0, <2>3, Names DEF HdTypeOK
  <2>6. Serving'
    BY <1>0, <1>1, <1>6, <2>3, <2>5, Names DEF HdTypeOK, Serving, Asking, IsRequest
  <2>7. HInv'
    BY <1>3, <1>4, <2>4, <2>6 DEF HInv, Conversation
  <2> QED
    BY <1>6, <2>5, <2>6, <2>7
<1> QED
  BY <1>0, <1>5, <1>6 DEF HInv, Conversation, Serving, Answering, CanCall, SENDING

(* A wait takes the interrupt that came, or waits for it.                  *)
LEMMA HdInterruptWaitKeeps == HInv /\ HdInterruptWait => HInv'
<1> SUFFICES ASSUME HInv, HdInterruptWait PROVE HInv'
  OBVIOUS
<1>0. /\ HdTypeOK /\ hd.at = "wait" /\ ReceiveStep(HD, INTERRUPT) /\ UNCHANGED <<drive, irq, fs>>
      /\ hd' = [hd EXCEPT !.at = "awake"] /\ CanCall(HD)
  BY DEF HdInterruptWait, drivevars, HInv, ReceiveStep, ReceiveInterrupt, ReceiveFetch,
         ReceiveBlock
<1>1. /\ hd'.at = "awake" /\ hd'.left = hd.left /\ hd'.msg = hd.msg /\ DOMAIN hd' = DOMAIN hd
      /\ CutOff' = CutOff
  BY <1>0 DEF HdTypeOK, CutOff
<1>2. Serving
  BY <1>0 DEF HInv, Conversation, Quiet, Asking, Answering
<1>3. Doing'
  BY <1>0, <1>1 DEF HInv, Doing
<1>4. Pending \in {0, 1} /\ (has_int_msg[HD] = 1 => irq = 0)
  BY <1>0, Names DEF HInv, InStep, Transfer, Taken, Awake, Pending, HdTypeOK
<1>5. CASE ReceiveInterrupt(HD, INTERRUPT)
  <2>1. HdTypeOK'
    BY <1>0, <1>1, <1>5, Names DEF ReceiveInterrupt, HdTypeOK, HdStates
  <2>2. Serving' /\ has_int_msg'[FS] = has_int_msg[FS]
    BY <1>0, <1>1, <1>2, <1>5, Names DEF ReceiveInterrupt, Serving, HdTypeOK, CanCall, IsRequest
  <2>3. /\ has_int_msg[HD] = 1 /\ has_int_msg'[HD] = 0 /\ p_flags'[HD] = {}
        /\ p_flags[HD] = {}
    BY <1>0, <1>5, Names DEF ReceiveInterrupt, TakesInt, HdTypeOK, CanCall
  <2>4. InStep'
    BY <1>0, <1>1, <1>4, <2>3
       DEF HInv, InStep, Between, Transfer, Taken, Awake, Pending, HdTypeOK
  <2> QED
    BY <1>3, <2>1, <2>2, <2>4 DEF HInv, Conversation
<1>6. CASE ReceiveBlock(HD, INTERRUPT)
  <2>1. HdTypeOK'
    BY <1>0, <1>1, <1>6, Names DEF ReceiveBlock, HdTypeOK, HdStates
  <2>2. Serving' /\ has_int_msg' = has_int_msg /\ p_flags'[HD] = {RECEIVING}
    BY <1>0, <1>1, <1>2, <1>6, Names DEF ReceiveBlock, Serving, HdTypeOK, CanCall, IsRequest
  <2>3. has_int_msg[HD] = 0
    BY <1>0, <1>6, Names DEF ReceiveBlock, TakesInt, HdTypeOK
  <2>4. InStep'
    BY <1>0, <1>1, <1>4, <2>2, <2>3
       DEF HInv, InStep, Between, Transfer, Taken, Awake, Pending, HdTypeOK
  <2> QED
    BY <1>3, <2>1, <2>2, <2>4 DEF HInv, Conversation
<1>7. ~ReceiveFetch(HD, INTERRUPT)
  BY Names DEF ReceiveFetch, CopyOk
<1> QED
  BY <1>0, <1>5, <1>6, <1>7 DEF ReceiveStep

(* An interrupt that is only remembered stays so: HD sleeps through it.     *)
LEMMA HdInterruptLostKeeps == HInv /\ HdInterruptLost => HInv'
<1> SUFFICES ASSUME HInv, HdInterruptLost PROVE HInv'
  OBVIOUS
<1>0. /\ HdTypeOK /\ hd.at = "wait" /\ CanCall(HD) /\ irq = 1 /\ irq' = 0 /\ has_int_msg[HD] = 0
      /\ hd' = [hd EXCEPT !.at = "awake"] /\ UNCHANGED <<p_sendto, q_sending, panic, drive, fs>>
      /\ p_flags' = [p_flags EXCEPT ![HD] = {RECEIVING}]
      /\ p_recvfrom' = [p_recvfrom EXCEPT ![HD] = INTERRUPT]
      /\ has_int_msg' = [has_int_msg EXCEPT ![HD] = 1]
      /\ mem' = [mem EXCEPT ![HD].source = HD]
  BY DEF HdInterruptLost, HdAt, HInv
<1>1. /\ hd'.at = "awake" /\ hd'.left = hd.left /\ hd'.msg = hd.msg /\ DOMAIN hd' = DOMAIN hd
      /\ CutOff' = CutOff
  BY <1>0 DEF HdTypeOK, CutOff
<1>2. Serving
  BY <1>0 DEF HInv, Conversation, Quiet, Asking, Answering
<1>3. Doing'
  BY <1>0, <1>1 DEF HInv, Doing
<1>4. HdTypeOK'
  BY <1>0, <1>1, Names DEF HdTypeOK, HdStates
<1>5. Serving' /\ has_int_msg'[FS] = has_int_msg[FS]
  BY <1>0, <1>1, <1>2, Names DEF Serving, HdTypeOK, CanCall, IsRequest
<1>6. p_flags'[HD] = {RECEIVING} /\ has_int_msg'[HD] = 1
  BY <1>0, Names DEF HdTypeOK
<1>7. InStep'
  BY <1>0, <1>1, <1>6
     DEF HInv, InStep, Between, Transfer, Taken, Awake, Pending, HdTypeOK
<1> QED
  BY <1>3, <1>4, <1>5, <1>7 DEF HInv, Conversation

(* The answer is given to FS, waiting or soon to wait for it.              *)
LEMMA HdReplyKeeps ==
  ASSUME HInv, HdReply
  PROVE  /\ HInv'
         /\ Serving /\ (Quiet' \/ Answering')
<1>0. /\ HdTypeOK /\ hd.at = "reply" /\ SendStep(HD, FS, hd.msg) /\ UNCHANGED <<drive, irq, fs>>
      /\ hd' = HdIdle /\ CanCall(HD)
  BY DEF HdReply, drivevars, HInv, SendStep, SendDeadlock, SendDeliver, SendBlock
<1>1. /\ hd'.at = "loop" /\ hd'.left = 0 /\ DOMAIN hd' = {"at", "msg", "left"}
  BY <1>0 DEF HdIdle
<1>2. Serving
  BY <1>0 DEF HInv, Conversation, Quiet, Asking, Answering
<1>3. ~deadlock(HD, FS)
  <2>1. ~Sending(FS)
    BY <1>2 DEF Serving, Sending, SENDING, RECEIVING
  <2>2. /\ {FS} \in SUBSET Proc /\ FS \in {FS} /\ ChainClosed({FS})
        /\ {t \in {FS} : Sending(t) /\ p_sendto[t] = HD} = {}
    BY <2>1, Names DEF ChainClosed
  <2> QED
    BY <2>2 DEF deadlock
<1>4. has_int_msg' = has_int_msg /\ panic' = panic
  BY <1>0, <1>3 DEF SendStep, SendDeadlock, SendDeliver, SendBlock
<1>5. Doing' /\ InStep'
  BY <1>0, <1>1, <1>4 DEF HInv, Doing, InStep, Between, Transfer, Taken, Awake, Pending
<1>6. CASE SendDeliver(HD, FS, hd.msg)
  <2>1. fs.at = "wait" /\ p_flags[FS] = {RECEIVING}
    BY <1>2, <1>6 DEF SendDeliver, Awaits, Serving
  <2>2. HdTypeOK'
    BY <1>0, <1>1, <1>4, <1>6, Names DEF SendDeliver, HdTypeOK, HdStates
  <2>3. Quiet'
    BY <1>0, <1>1, <1>2, <1>6, <2>1, Names DEF SendDeliver, HdTypeOK, Quiet, Serving, CanCall
  <2>4. HInv'
    BY <1>4, <1>5, <2>2, <2>3 DEF HInv, Conversation
  <2> QED
    BY <1>2, <2>3, <2>4
<1>7. CASE SendBlock(HD, FS, hd.msg)
  <2>1. fs.at = "sent" /\ p_flags[FS] = {}
    BY <1>2, <1>7, Names DEF SendBlock, Awaits, Serving
  <2>2. HdTypeOK'
    BY <1>0, <1>1, <1>4, <1>7, Names DEF SendBlock, HdTypeOK, HdStates
  <2>3. Append(q_sending[FS], HD) = <<HD>>
    BY <1>2 DEF Serving
  <2>4. Answering'
    BY <1>0, <1>1, <1>2, <1>7, <2>1, <2>3, Names
       DEF SendBlock, HdTypeOK, Answering, Serving, CanCall
  <2>5. HInv'
    BY <1>4, <1>5, <2>2, <2>4 DEF HInv, Conversation
  <2> QED
    BY <1>2, <2>4, <2>5
<1> QED
  BY <1>0, <1>3, <1>6, <1>7 DEF SendStep, SendDeadlock

(* An interrupt comes while the driver is in a command for sectors.        *)
LEMMA HandlerWhen ==
  ASSUME HInv, hd_handler
  PROVE  hd.at \in {"wait", "awake"}
<1>1. HdTypeOK /\ irq = 1
  BY DEF hd_handler, HInv
<1>2. Pending > 0
  BY <1>1, Names DEF Pending, HdTypeOK
<1>3. ~Between /\ hd.at # "drq"
  BY <1>2 DEF HInv, InStep
<1> QED
  BY <1>1, <1>3 DEF Between, HdTypeOK, HdStates

(* The interrupt wakes HD, or is remembered until HD waits for it.         *)
LEMMA HandlerKeeps == HInv /\ hd_handler => HInv'
<1> SUFFICES ASSUME HInv, hd_handler PROVE HInv'
  OBVIOUS
<1>0. /\ HdTypeOK /\ irq = 1 /\ irq' = 0 /\ InformStep(HD) /\ UNCHANGED <<hd, drive, fs>>
      /\ panic' = panic /\ CutOff' = CutOff
  BY DEF hd_handler, taskvars, HInv, InformStep, InformDeliver, InformPend, CutOff
<1>1. hd.at \in {"wait", "awake"} /\ Transfer
  BY HandlerWhen DEF Transfer
<1>2. Serving
  BY <1>1 DEF HInv, Conversation, Quiet, Asking, Answering
<1>3. ~Awake /\ has_int_msg[HD] = 0
  <2>1. Pending > 0
    BY <1>0, Names DEF Pending, HdTypeOK
  <2>2. ~Awake
    BY <2>1 DEF HInv, InStep
  <2> QED
    BY <1>0, <1>1, <2>2, Names DEF HInv, InStep, Taken, Pending, HdTypeOK
<1>4. CASE InformDeliver(HD)
  <2>1. hd.at = "awake" /\ p_flags[HD] = {RECEIVING}
    BY <1>2, <1>4 DEF InformDeliver, Informs, Serving
  <2>2. HdTypeOK'
    BY <1>0, <1>4, Names DEF InformDeliver, HdTypeOK
  <2>3. Serving' /\ has_int_msg'[FS] = has_int_msg[FS]
    BY <1>0, <1>2, <1>4, <2>1, Names DEF InformDeliver, Serving, HdTypeOK, IsRequest
  <2>4. has_int_msg'[HD] = 0 /\ p_flags'[HD] = {}
    BY <1>0, <1>4, <2>1, Names DEF InformDeliver, HdTypeOK
  <2>5. InStep'
    BY <1>0, <1>1, <1>3, <2>1, <2>4
       DEF HInv, InStep, Between, Transfer, Taken, Awake, Pending, HdTypeOK
  <2> QED
    BY <1>0, <2>2, <2>3, <2>5 DEF HInv, Conversation, Doing
<1>5. CASE InformPend(HD)
  <2>1. HdTypeOK'
    BY <1>0, <1>5, Names DEF InformPend, HdTypeOK
  <2>2. Serving' /\ has_int_msg'[FS] = has_int_msg[FS] /\ p_flags'[HD] = p_flags[HD]
    BY <1>0, <1>2, <1>5, Names DEF InformPend, Serving, HdTypeOK, IsRequest
  <2>3. has_int_msg'[HD] = 1
    BY <1>0, <1>5, Names DEF InformPend, HdTypeOK
  <2>4. InStep'
    BY <1>0, <1>1, <1>3, <2>2, <2>3
       DEF HInv, InStep, Between, Transfer, Taken, Awake, Pending, HdTypeOK
  <2> QED
    BY <1>0, <2>1, <2>2, <2>4 DEF HInv, Conversation, Doing
<1> QED
  BY <1>0, <1>4, <1>5 DEF InformStep

-----------------------------------------------------------------------------
(* TASK_HD and the drive.  FS and the message passing stay as they are.    *)

(* What any step of the driver that calls nobody owes.                     *)
LEMMA DriverStep ==
  ASSUME HInv, CanCall(HD), hd.at # "loop", UNCHANGED <<p_flags, p_recvfrom, p_sendto,
           q_sending, has_int_msg, mem>>,
         fs'.at = fs.at, DOMAIN fs' = DOMAIN fs, DOMAIN hd' = DOMAIN hd,
         hd'.at \in HdStates \ {"loop", "got"}, hd'.left \in Nat,
         hd'.msg = IF hd.at = "got" THEN mem[HD].type ELSE hd.msg,
         DOMAIN drive' = DOMAIN drive, drive'.left \in Nat,
         drive'.at \in {"idle", "busy", "ready", "flush"},
         irq' \in {0, 1}, panic' \in {"no", "ASSERT", "TIMEOUT"}
  PROVE  HdTypeOK' /\ Conversation' /\ IsRequest(hd'.msg)
<1>1. HdTypeOK'
  BY DEF HInv, HdTypeOK
<1>2. Serving
  BY DEF HInv, Conversation, Quiet, Asking, Answering, CanCall, RECEIVING
<1>3. Serving' /\ IsRequest(hd'.msg)
  BY <1>2 DEF Serving, CanCall, IsRequest
<1> QED
  BY <1>1, <1>3 DEF HInv, Conversation

LEMMA GotIsRequest ==
  ASSUME HInv, CanCall(HD), hd.at = "got"
  PROVE  IsRequest(mem[HD].type) /\ Between
BY DEF HInv, Conversation, Quiet, Asking, Serving, Answering, CanCall, RECEIVING, Between

LEMMA HdCommandKeeps == HInv /\ HdCommand => HInv'
<1> SUFFICES ASSUME HInv, HdCommand PROVE HInv'
  OBVIOUS
<1> DEFINE m == mem[HD].type
<1>1. /\ HdTypeOK /\ CanCall(HD) /\ hd.at = "got" /\ m.op \in {"READ", "WRITE"}
      /\ UNCHANGED <<ipcvars, irq, fs>> /\ drive.at = "idle"
  BY DEF HdCommand, HdGot, HdAt, HInv, hd_cmd_out
<1>2. IsRequest(m) /\ m.cnt \in Nat \ {0}
  BY <1>1, GotIsRequest, HdAssumption DEF IsRequest
<1> DEFINE d == Sectors(CountReg(m.cnt))
<1>3. /\ hd' = [at |-> IF m.op = "READ" THEN "wait" ELSE "drq", msg |-> m, left |-> m.cnt]
      /\ drive'.at = "busy" /\ drive'.op = m.op /\ drive'.left = d
      /\ DOMAIN drive' = DOMAIN drive
  BY <1>1, <1>2 DEF HdCommand, hd_cmd_out, HdTypeOK
<1>4. m.cnt \in Nat /\ m.cnt > 0 /\ d \in 1..m.cnt
  BY <1>2, RegisterCounts
<1>10. CutOff' = m.cnt - d
  BY <1>1, <1>3 DEF CutOff
<1> HIDE DEF m, d
<1>5. hd'.at \in {"wait", "drq"} /\ hd'.msg = m /\ hd'.left = m.cnt
  BY <1>3
<1>6. HdTypeOK' /\ Conversation'
  BY <1>1, <1>3, <1>4, <1>5, DriverStep DEF ipcvars, m, HdTypeOK, HdStates
<1>7. Doing'
  BY <1>1, <1>3 DEF Doing
<1>8. irq = 0 /\ has_int_msg[HD] = 0
  BY <1>1, NoneLeft DEF Between
<1>9. InStep'
  BY <1>1, <1>3, <1>4, <1>5, <1>8, <1>10
     DEF InStep, Between, Transfer, Taken, Awake, Pending, ipcvars
<1> QED
  BY <1>6, <1>7, <1>9 DEF HInv

LEMMA hd_ioctlKeeps == HInv /\ hd_ioctl => HInv'
<1> SUFFICES ASSUME HInv, hd_ioctl PROVE HInv'
  OBVIOUS
<1>1. /\ HdTypeOK /\ CanCall(HD) /\ hd.at = "got" /\ mem[HD].type.op = "IOCTL"
      /\ UNCHANGED <<ipcvars, drive, irq>>
      /\ hd' = [hd EXCEPT !.at = "reply", !.msg = mem[HD].type]
      /\ fs'.at = fs.at /\ DOMAIN fs' = DOMAIN fs
  BY DEF hd_ioctl, HdGot, HdAt, HInv, HdTypeOK, drivevars
<1>2. /\ hd'.at = "reply" /\ hd'.msg = mem[HD].type /\ hd'.left = hd.left
      /\ DOMAIN hd' = DOMAIN hd
  BY <1>1 DEF HdTypeOK
<1>3. HdTypeOK' /\ Conversation'
  BY <1>1, <1>2, DriverStep DEF ipcvars, HdTypeOK, HdStates
<1>4. Doing' /\ InStep'
  BY <1>1, <1>2 DEF HInv, Doing, InStep, Between, Transfer, Taken, Awake, Pending, CutOff, ipcvars
<1> QED
  BY <1>3, <1>4 DEF HInv

LEMMA hd_openKeeps == HInv /\ hd_open => HInv'
<1> SUFFICES ASSUME HInv, hd_open PROVE HInv'
  OBVIOUS
<1>1. /\ HdTypeOK /\ CanCall(HD) /\ hd.at = "got" /\ mem[HD].type.op = "OPEN"
      /\ UNCHANGED <<ipcvars, drive, irq, fs>>
      /\ hd' = [hd EXCEPT !.at = IF hd_info.open_cnt = 0 THEN "table" ELSE "reply",
                          !.msg = mem[HD].type]
  BY DEF hd_open, HdGot, HdAt, HInv, drivevars
<1>2. /\ hd'.at \in {"table", "reply"} /\ hd'.msg = mem[HD].type /\ hd'.left = hd.left
      /\ DOMAIN hd' = DOMAIN hd
  BY <1>1 DEF HdTypeOK
<1>3. HdTypeOK' /\ Conversation'
  BY <1>1, <1>2, DriverStep DEF ipcvars, HdTypeOK, HdStates
<1>4. Doing' /\ InStep'
  BY <1>1, <1>2 DEF HInv, Doing, InStep, Between, Transfer, Taken, Awake, Pending, CutOff, ipcvars
<1> QED
  BY <1>3, <1>4 DEF HInv

LEMMA HdTableCommandKeeps == HInv /\ HdTableCommand => HInv'
<1> SUFFICES ASSUME HInv, HdTableCommand PROVE HInv'
  OBVIOUS
<1>1. /\ HdTypeOK /\ CanCall(HD) /\ hd.at = "table" /\ hd.msg.op = "OPEN"
      /\ UNCHANGED <<ipcvars, irq, fs>>
      /\ hd' = [hd EXCEPT !.at = "wait", !.left = 1]
  BY DEF HdTableCommand, HdAt, HInv, Doing
<1>2. 1 \in 1..CountMod /\ 1 \in Nat \ {0}
  BY HdAssumption
<1>3. /\ drive'.at = "busy" /\ drive'.op = "READ" /\ drive'.left = 1
      /\ DOMAIN drive' = DOMAIN drive
  BY <1>1, <1>2, RegisterCounts DEF HdTableCommand, hd_cmd_out, HdTypeOK
<1>4. /\ hd'.at = "wait" /\ hd'.msg = hd.msg /\ hd'.left = 1
      /\ DOMAIN hd' = DOMAIN hd
  BY <1>1 DEF HdTypeOK
<1>5. HdTypeOK' /\ Conversation'
  BY <1>1, <1>3, <1>4, DriverStep DEF ipcvars, HdTypeOK, HdStates
<1>6. irq = 0 /\ has_int_msg[HD] = 0
  BY <1>1, NoneLeft DEF Between
<1>7. Doing' /\ InStep'
  BY <1>1, <1>3, <1>4, <1>6
     DEF Doing, InStep, Between, Transfer, Taken, Awake, Pending, CutOff, ipcvars
<1> QED
  BY <1>5, <1>7 DEF HInv

-----------------------------------------------------------------------------
(* A sector read.                                                          *)

(* An interrupt taken for a read means a sector, which the port takes.     *)
LEMMA SectorTaken ==
  ASSUME HInv, HdAt("awake"), hd.msg.op \in {"READ", "OPEN"}, port_read,
         UNCHANGED <<p_flags, has_int_msg, irq>>
  PROVE  /\ hd.left = drive.left + CutOff /\ CutOff \in Nat /\ drive.left \in Nat /\ drive.left > 0
         /\ Pending = 0 /\ Pending' = 0
         /\ drive'.at = "busy" /\ drive'.left = drive.left - 1 /\ drive'.op = "READ"
         /\ DOMAIN drive' = DOMAIN drive
<1>1. Awake /\ HdTypeOK
  BY DEF HdAt, CanCall, Awake, HInv
<1>2. /\ drive.at = "ready" /\ hd.left = drive.left + CutOff /\ Pending = 0
      /\ drive.left > 0 /\ drive.op = "READ"
  BY <1>1 DEF HInv, InStep, Between, Transfer, Taken, Awake
<1>3. CutOff \in Nat
  BY <1>1, CutOffIsNat DEF Awake
<1> QED
  BY <1>1, <1>2, <1>3 DEF port_read, Pending, HdTypeOK

LEMMA HdPortReadKeeps == HInv /\ HdPortRead => HInv'
<1> SUFFICES ASSUME HInv, HdPortRead PROVE HInv'
  OBVIOUS
<1>1. /\ HdTypeOK /\ HdAt("awake") /\ CanCall(HD) /\ hd.at = "awake" /\ hd.msg.op = "READ"
      /\ UNCHANGED <<ipcvars, irq, fs>> /\ hd' = SectorDone("wait") /\ port_read
  BY DEF HdPortRead, HdAt, HInv
<1>2. /\ hd'.at = (IF hd.left = 1 THEN "reply" ELSE "wait")
      /\ hd'.msg = hd.msg /\ hd'.left = hd.left - 1 /\ DOMAIN hd' = DOMAIN hd
      /\ CutOff' = CutOff
  BY <1>1 DEF HdTypeOK, SectorDone, CutOff
<1>3. /\ hd.left = drive.left + CutOff /\ CutOff \in Nat /\ drive.left \in Nat /\ drive.left > 0
      /\ Pending' = 0
      /\ drive'.at = "busy" /\ drive'.left = drive.left - 1 /\ drive'.op = "READ"
      /\ DOMAIN drive' = DOMAIN drive
  BY <1>1, SectorTaken DEF ipcvars
<1>6. hd'.left \in Nat /\ drive'.left \in Nat
  <2>1. drive.left - 1 \in Nat /\ (drive.left - 1) + CutOff \in Nat
    BY <1>3
  <2>2. hd.left - 1 = (drive.left - 1) + CutOff
    BY <1>3
  <2> QED
    BY <1>2, <1>3, <2>1, <2>2
<1>4. HdTypeOK' /\ Conversation'
  BY <1>1, <1>2, <1>3, <1>6, DriverStep DEF ipcvars, HdTypeOK, HdStates
<1>5. Doing' /\ InStep'
  BY <1>1, <1>2, <1>3 DEF Doing, InStep, Between, Transfer, Taken, Awake
<1> QED
  BY <1>4, <1>5 DEF HInv

(* The sector of a partition table.                                        *)
LEMMA TableRead ==
  ASSUME HInv, HdAt("awake"), hd.msg.op = "OPEN", port_read, irq' = irq, fs' = fs,
         UNCHANGED <<p_flags, p_recvfrom, p_sendto, p_msg, q_sending, has_int_msg, mem>>,
         panic' \in {"no", "ASSERT", "TIMEOUT"},
         hd'.at \in {"table", "reply"}, hd'.left = 0, hd'.msg = hd.msg,
         DOMAIN hd' = DOMAIN hd
  PROVE  HInv'
<1>1. HdTypeOK /\ CanCall(HD) /\ hd.at = "awake"
  BY DEF HInv, HdAt
<1>2. /\ CutOff = 0 /\ CutOff' = 0 /\ Pending' = 0
      /\ drive'.at = "busy" /\ drive'.left = 0 /\ DOMAIN drive' = DOMAIN drive
  <2>1. CutOff = 0 /\ CutOff' = 0
    BY DEF CutOff
  <2> QED
    BY <1>1, <2>1, SectorTaken DEF HInv, Doing
<1>3. HdTypeOK' /\ Conversation'
  BY <1>1, <1>2, DriverStep DEF HdTypeOK, HdStates
<1>4. Doing' /\ InStep'
  BY <1>1, <1>2 DEF Doing, InStep, Between, Transfer, Taken, Awake
<1> QED
  BY <1>3, <1>4 DEF HInv

LEMMA MoreTablesSteps ==
  ASSUME HInv, NEW tbl, NEW j, MoreTables(tbl, j)
  PROVE  /\ hd'.at \in {"table", "reply"} /\ hd'.left = 0 /\ hd'.msg = hd.msg
         /\ DOMAIN hd' = DOMAIN hd
<1> DEFINE to == IF NextExtended(tbl, j) = 0 THEN "reply" ELSE "table"
<1>1. hd' = [hd EXCEPT !.left = 0, !.at = to]
  BY DEF MoreTables
<1>2. to \in {"table", "reply"}
  OBVIOUS
<1> HIDE DEF to
<1> QED
  BY <1>1, <1>2 DEF HInv, HdTypeOK

LEMMA HdPrimaryKeeps == HInv /\ HdPrimary => HInv'
<1> SUFFICES ASSUME HInv, HdPrimary PROVE HInv'
  OBVIOUS
<1>1. /\ HdAt("awake") /\ hd.msg.op = "OPEN" /\ port_read /\ UNCHANGED <<irq, fs>>
      /\ UNCHANGED <<p_flags, p_recvfrom, p_sendto, p_msg, q_sending, has_int_msg, mem>>
      /\ MoreTables(Table[part.s], 0)
      /\ panic' = "ASSERT" \/ panic' = panic
  BY DEF HdPrimary
<1>2. panic' \in {"no", "ASSERT", "TIMEOUT"}
  BY <1>1 DEF HInv, HdTypeOK
<1> QED
  BY <1>1, <1>2, MoreTablesSteps, TableRead

LEMMA HdLogicalKeeps == HInv /\ HdLogical => HInv'
<1> SUFFICES ASSUME HInv, HdLogical PROVE HInv'
  OBVIOUS
<1>1. /\ HdAt("awake") /\ hd.msg.op = "OPEN" /\ port_read /\ UNCHANGED <<ipcvars, irq, fs>>
      /\ \/ MoreTables(part.tbl, part.j)
         \/ hd' = [hd EXCEPT !.left = 0, !.at = "table"]
  BY DEF HdLogical
<1>2. /\ hd'.at \in {"table", "reply"} /\ hd'.left = 0 /\ hd'.msg = hd.msg
      /\ DOMAIN hd' = DOMAIN hd
  BY <1>1, MoreTablesSteps DEF HInv, HdTypeOK
<1>3. panic' \in {"no", "ASSERT", "TIMEOUT"}
  BY <1>1 DEF ipcvars, HInv, HdTypeOK
<1> QED
  BY <1>1, <1>2, <1>3, TableRead DEF ipcvars

-----------------------------------------------------------------------------
(* A sector written.                                                       *)

LEMMA HdPortWriteKeeps == HInv /\ HdPortWrite => HInv'
<1> SUFFICES ASSUME HInv, HdPortWrite PROVE HInv'
  OBVIOUS
<1>1. /\ HdTypeOK /\ CanCall(HD) /\ hd.at = "drq" /\ drive.at = "ready"
      /\ UNCHANGED <<ipcvars, irq, fs>> /\ hd.msg.op = "WRITE"
      /\ drive' = [drive EXCEPT !.at = "flush"] /\ hd' = [hd EXCEPT !.at = "wait"]
  BY DEF HdPortWrite, HdAt, HInv, Doing
<1>2. /\ hd'.at = "wait" /\ hd'.msg = hd.msg /\ hd'.left = hd.left /\ DOMAIN hd' = DOMAIN hd
      /\ drive'.at = "flush" /\ drive'.left = drive.left /\ drive'.op = drive.op
      /\ DOMAIN drive' = DOMAIN drive /\ CutOff' = CutOff
  BY <1>1 DEF HdTypeOK, CutOff
<1>3. HdTypeOK' /\ Conversation'
  BY <1>1, <1>2, DriverStep DEF ipcvars, HdTypeOK, HdStates
<1>4. /\ Pending' = 0 /\ hd.left = drive.left + CutOff /\ drive.op = "WRITE" /\ hd.left > 0
      /\ drive.left > 0
  BY <1>1 DEF HInv, HdTypeOK, InStep, Between, Pending, ipcvars
<1>5. Doing' /\ InStep'
  BY <1>1, <1>2, <1>4 DEF Doing, InStep, Between, Transfer, Taken, Awake
<1> QED
  BY <1>3, <1>5 DEF HInv

LEMMA HdWrittenKeeps == HInv /\ HdWritten => HInv'
<1> SUFFICES ASSUME HInv, HdWritten PROVE HInv'
  OBVIOUS
<1>1. /\ HdTypeOK /\ CanCall(HD) /\ Awake /\ hd.at = "awake" /\ hd.msg.op = "WRITE"
      /\ UNCHANGED <<ipcvars, drive, irq, fs>> /\ hd' = SectorDone("drq")
  BY DEF HdWritten, HdAt, HInv, drivevars, Awake, CanCall
<1>2. /\ hd'.at = (IF hd.left = 1 THEN "reply" ELSE "drq")
      /\ hd'.msg = hd.msg /\ hd'.left = hd.left - 1 /\ DOMAIN hd' = DOMAIN hd
      /\ CutOff' = CutOff
  BY <1>1 DEF HdTypeOK, SectorDone, CutOff
<1>6. CutOff \in Nat
  BY <1>1, CutOffIsNat
<1>3. /\ hd.left = drive.left + CutOff + 1 /\ hd.left \in Nat /\ hd.left > 0 /\ Pending' = 0
      /\ drive.left > 0 => drive.op = "WRITE"
      /\ drive.at \in (IF drive.left = 0 THEN {"busy", "idle"} ELSE {"ready"})
  BY <1>1 DEF HInv, HdTypeOK, InStep, Between, Transfer, Taken, Pending, ipcvars
<1>4. HdTypeOK' /\ Conversation'
  BY <1>1, <1>2, <1>3, DriverStep DEF ipcvars, HdTypeOK, HdStates
<1>5. UNCHANGED drive /\ drive.left \in Nat
  BY <1>1 DEF HdTypeOK
<1>7. hd.left = 1 => drive.left = 0 /\ CutOff = 0
  BY <1>3, <1>5, <1>6
<1>8. hd.left # 1 => hd.left - 1 > 0 /\ hd.left - 1 = drive.left + CutOff
  BY <1>3, <1>5, <1>6
<1>9. Doing' /\ InStep'
  <2>1. CASE hd.left = 1
    <3>1. hd'.at = "reply" /\ drive'.left = 0 /\ CutOff' = 0 /\ drive'.at \in {"busy", "idle"}
      BY <1>2, <1>3, <1>5, <1>7, <2>1
    <3> QED
      BY <3>1, <1>3 DEF Doing, InStep, Between, Transfer, Awake
  <2>2. CASE hd.left # 1
    <3>1. hd'.at = "drq" /\ hd'.left > 0 /\ hd'.left = drive'.left + CutOff'
      BY <1>2, <1>5, <1>8, <2>2
    <3> QED
      BY <3>1, <1>1, <1>2, <1>3, <1>5 DEF Doing, InStep, Between, Transfer, Awake
  <2> QED
    BY <2>1, <2>2
<1> QED
  BY <1>4, <1>9 DEF HInv

LEMMA HdTimeoutKeeps == HInv /\ HdTimeout => HInv'
<1> SUFFICES ASSUME HInv, HdTimeout PROVE HInv'
  OBVIOUS
<1>1. /\ UNCHANGED <<p_flags, p_recvfrom, p_sendto, q_sending, has_int_msg, mem,
                     hd, drive, irq, fs>>
      /\ panic' = "TIMEOUT"
  BY DEF HdTimeout, taskvars, drivevars
<1>2. HdTypeOK' /\ Conversation'
  BY <1>1 DEF HInv, HdTypeOK, Conversation, Quiet, Asking, Serving, Answering, IsRequest
<1> QED
  BY <1>1, <1>2, DriverUnchanged DEF HInv

-----------------------------------------------------------------------------
(* The drive.                                                              *)

LEMMA OnlyDrive ==
  ASSUME HInv, UNCHANGED <<ipcvars, taskvars, fs>>, DOMAIN drive' = DOMAIN drive,
         drive'.left \in Nat, drive'.at \in {"idle", "busy", "ready", "flush"},
         irq' \in {0, 1}
  PROVE  HdTypeOK' /\ Conversation' /\ Doing' /\ CutOff' = CutOff
BY DEF CutOff, HInv, HdTypeOK, Conversation, Doing, Quiet, Asking, Serving, Answering, IsRequest,
       ipcvars, taskvars

LEMMA DriveReadyKeeps == HInv /\ DriveReady => HInv'
<1> SUFFICES ASSUME HInv, DriveReady PROVE HInv'
  OBVIOUS
<1>1. HdTypeOK /\ drive.at = "busy" /\ UNCHANGED <<ipcvars, taskvars, fs>>
  BY DEF HInv, DriveReady
<1>2. CASE drive.left = 0
  <2>1. drive' = DriveIdle /\ irq' = irq
    BY <1>2 DEF DriveReady
  <2>2. HdTypeOK' /\ Conversation' /\ Doing' /\ CutOff' = CutOff
    BY <1>1, <2>1, OnlyDrive DEF DriveIdle, HdTypeOK
  <2>3. InStep'
    BY <1>1, <1>2, <2>1, <2>2
       DEF HInv, InStep, Between, Transfer, Taken, Awake, Pending, DriveIdle, ipcvars, taskvars
  <2> QED
    BY <2>2, <2>3 DEF HInv
<1>3. CASE drive.left > 0
  <2>1. /\ drive'.at = "ready" /\ drive'.left = drive.left /\ drive'.op = drive.op
        /\ DOMAIN drive' = DOMAIN drive /\ irq' = IF drive.op = "READ" THEN 1 ELSE irq
    BY <1>1, <1>3 DEF DriveReady, HdTypeOK
  <2>2. HdTypeOK' /\ Conversation' /\ Doing' /\ CutOff' = CutOff
    BY <1>1, <2>1, OnlyDrive DEF HdTypeOK
  <2>3. \/ hd.at = "drq" /\ drive.op = "WRITE"
        \/ Transfer /\ hd.msg.op # "WRITE" /\ drive.op = "READ" /\ Taken = 0 /\ ~Awake
    BY <1>1, <1>3 DEF HInv, HdTypeOK, HdStates, InStep, Between, Transfer, Taken, Pending
  <2>4. /\ ~Awake' /\ hd' = hd /\ has_int_msg' = has_int_msg
    BY <1>1, <2>3 DEF Awake, ipcvars, taskvars, Transfer
  <2>5. CASE hd.at = "drq" /\ drive.op = "WRITE"
    BY <1>1, <1>3, <2>1, <2>2, <2>4, <2>5 DEF HInv, HdTypeOK, InStep, Between, Transfer, Pending
  <2>6. CASE Transfer /\ hd.msg.op # "WRITE" /\ drive.op = "READ" /\ Taken = 0 /\ ~Awake
    <3>1. has_int_msg[HD] = 0 /\ irq = 0
      BY <1>1, <2>6, Names DEF Taken, Pending, HdTypeOK
    <3>2. InStep'
      BY <1>1, <1>3, <2>1, <2>2, <2>4, <2>6, <3>1
         DEF HInv, HdTypeOK, InStep, Between, Transfer, Taken, Pending
    <3> QED
      BY <2>2, <3>2 DEF HInv
  <2> QED
    BY <2>2, <2>3, <2>5, <2>6 DEF HInv
<1> QED
  BY <1>1, <1>2, <1>3 DEF HdTypeOK

LEMMA DriveFlushedKeeps == HInv /\ DriveFlushed => HInv'
<1> SUFFICES ASSUME HInv, DriveFlushed PROVE HInv'
  OBVIOUS
<1>1. HdTypeOK /\ drive.at = "flush" /\ UNCHANGED <<ipcvars, taskvars, fs>> /\ irq' = 1
  BY DEF HInv, DriveFlushed
<1>2. /\ Transfer /\ hd.msg.op = "WRITE" /\ hd.left = drive.left + CutOff /\ drive.left > 0
      /\ Taken = 0 /\ ~Awake
      /\ drive.op = "WRITE"
  BY <1>1 DEF HInv, HdTypeOK, HdStates, InStep, Between, Transfer, Taken, Pending
<1>3. has_int_msg[HD] = 0 /\ irq = 0
  BY <1>1, <1>2, Names DEF Taken, Pending, HdTypeOK
<1>4. /\ drive'.at = (IF drive.left = 1 THEN "busy" ELSE "ready")
      /\ drive'.left = drive.left - 1 /\ drive'.op = drive.op
      /\ DOMAIN drive' = DOMAIN drive
  BY <1>1 DEF DriveFlushed, HdTypeOK
<1>5. HdTypeOK' /\ Conversation' /\ Doing' /\ CutOff' = CutOff
  BY <1>1, <1>2, <1>4, OnlyDrive DEF HdTypeOK
<1>6. /\ ~Awake' /\ hd' = hd /\ has_int_msg' = has_int_msg
  BY <1>1, <1>2 DEF Awake, ipcvars, taskvars
<1>8. CutOff \in Nat
  BY <1>2, CutOffIsNat DEF Transfer
<1>7. InStep'
  BY <1>1, <1>2, <1>3, <1>4, <1>5, <1>6, <1>8 DEF HInv, HdTypeOK, InStep, Between, Transfer, Taken, Pending
<1> QED
  BY <1>5, <1>7 DEF HInv

-----------------------------------------------------------------------------
(* The theorems.                                                           *)

LEMMA NextHInv == HInv /\ [HdNext]_hdvars => HInv'
<1> SUFFICES ASSUME HInv, [HdNext]_hdvars PROVE HInv'
  OBVIOUS
<1>1. CASE \E op \in {"OPEN", "IOCTL"} : FsSend(op, 0, 0)
  <2>1. PICK op \in {"OPEN", "IOCTL"} : FsSend(op, 0, 0)
    BY <1>1
  <2> QED
    BY <2>1, FsSendKeeps
<1>2. CASE \E op \in {"READ", "WRITE"}, pos \in Positions, n \in Lens : FsSend(op, pos, n)
  <2>1. PICK op \in {"READ", "WRITE"}, pos \in Positions, n \in Lens : FsSend(op, pos, n)
    BY <1>2
  <2> QED
    BY <2>1, FsSendKeeps
<1>3. CASE FsReceive \/ FsReturn
  BY <1>3, FsReceiveKeeps, FsReturnKeeps
<1>4. CASE HdTask
  BY <1>4, HdReceiveKeeps, HdCommandKeeps, HdInterruptWaitKeeps, HdPortReadKeeps,
     HdPortWriteKeeps, HdWrittenKeeps, HdReplyKeeps, hd_ioctlKeeps, hd_openKeeps,
     HdTableCommandKeeps, HdPrimaryKeeps, HdLogicalKeeps DEF HdTask
<1>5. CASE HdInterruptLost \/ HdTimeout \/ Drive \/ hd_handler
  BY <1>5, HdInterruptLostKeeps, HdTimeoutKeeps, DriveReadyKeeps, DriveFlushedKeeps, HandlerKeeps DEF Drive
<1>6. CASE UNCHANGED hdvars
  <2>1. HdTypeOK' /\ Conversation'
    BY <1>6 DEF HInv, HdTypeOK, Conversation, Quiet, Asking, Serving, Answering, IsRequest,
                hdvars, ipcvars, taskvars, drivevars
  <2> QED
    BY <1>6, <2>1, DriverUnchanged DEF HInv, hdvars, ipcvars, taskvars, drivevars
<1> QED
  BY <1>1, <1>2, <1>3, <1>4, <1>5, <1>6 DEF HdNext

(* The inductive invariant holds in every reachable state.                 *)
THEOREM HdInvariance == HdSpec => []HInv
<1> QED
  BY InitHInv, NextHInv, PTL DEF HdSpec

(* DriveInv: the driver touches the data port only when the drive is ready *)
(* for it (hd.c: hd_rdwt(), get_part_table()), driver and drive agree on   *)
(* the sectors left but for those that the count register has cut off a    *)
(* long request, and an answered request has none of these, whatever the   *)
(* disk and the requests.                                                  *)
THEOREM DriveInStep == HdSpec => []DriveInv
<1>1. HInv => DriveInv
  <2> SUFFICES ASSUME HInv PROVE DriveInv
    OBVIOUS
  <2>1. PortWhenReady
    BY DEF HInv, InStep, Transfer, Taken, Awake, PortWhenReady
  <2>2. CountsAgree
    <3>1. hd.at = "table" => CutOff = 0
      BY DEF HInv, Doing, CutOff
    <3> QED
      BY <3>1 DEF HInv, Doing, InStep, Between, Transfer, CountsAgree
  <2> QED
    BY <2>1, <2>2 DEF DriveInv
<1> QED
  BY <1>1, HdInvariance, PTL

(* NoStrayInterrupt: every interrupt of a command is taken by the wait it  *)
(* belongs to (hd.c: interrupt_wait()), and none is left for the main loop.*)
THEOREM InterruptsTaken == HdSpec => []NoStrayInterrupt
<1>1. HInv => NoStrayInterrupt
  <2> SUFFICES ASSUME HInv PROVE NoStrayInterrupt
    OBVIOUS
  <2>1. hd.at \in {"loop", "table", "reply"} => Pending = 0
    BY DEF HInv, InStep, Between
  <2>2. hd.at = "got" /\ p_flags[HD] = {} => mem[HD].type # HARD_INT
    BY Names DEF HInv, Conversation, Quiet, Asking, Serving, Answering, IsRequest
  <2>3. Pending <= 1
    <3>1. Pending \in Nat /\ HdTypeOK
      BY Names DEF HInv, HdTypeOK, Pending
    <3>2. hd.at \in {"loop", "got", "table", "reply"} \/ hd.at = "drq" \/ hd.at \in {"wait", "awake"}
      BY <3>1 DEF HdTypeOK, HdStates
    <3> QED
      BY <3>1, <3>2 DEF HInv, InStep, Between, Transfer, Taken
  <2> QED
    BY <2>1, <2>2, <2>3 DEF NoStrayInterrupt
<1> QED
  BY <1>1, HdInvariance, PTL

(* FS and TASK_HD never send to each other at once: the panic of           *)
(* proc.c:msg_send() is out of their reach.                                *)
THEOREM HdNeverDeadlocks == HdSpec => [](panic # "DEADLOCK")
<1>1. HInv => panic # "DEADLOCK"
  BY DEF HInv, HdTypeOK
<1> QED
  BY <1>1, HdInvariance, PTL

-----------------------------------------------------------------------------
(* The partitions.                                                         *)

(* The links of a chain of tables, counted from the extended partition.    *)
LEMMA ChainExists ==
  ASSUME NEW j, NEW k \in Nat
  PROVE  \E f : f = [i \in 0..k |-> IF i = 0 THEN Table[0][j].start
                                    ELSE Table[0][j].start + Table[f[i - 1]][2].start]
<1> DEFINE Next1(x) == Table[0][j].start + Table[x][2].start
           Chain(f, m) == f = [i \in 0..m |-> IF i = 0 THEN Table[0][j].start ELSE Next1(f[i - 1])]
           G == {m \in Nat : \E f : Chain(f, m)}
<1>1. 0 \in G
  <2>1. Chain([i \in 0..0 |-> Table[0][j].start], 0)
    OBVIOUS
  <2> HIDE DEF Chain
  <2> QED
    BY <2>1
<1>2. ASSUME NEW m \in G PROVE m + 1 \in G
  <2>1. m \in Nat
    OBVIOUS
  <2>2. PICK f : Chain(f, m)
    OBVIOUS
  <2> DEFINE g == [i \in 0..(m + 1) |-> IF i = m + 1 THEN Next1(f[m]) ELSE f[i]]
  <2> HIDE DEF Next1
  <2>3. ASSUME NEW i \in 0..(m + 1)
        PROVE  g[i] = IF i = 0 THEN Table[0][j].start ELSE Next1(g[i - 1])
    <3>1. CASE i = m + 1
      BY <2>1, <3>1
    <3>2. CASE i # m + 1 /\ i # 0
      <4>1. i \in 0..m /\ i - 1 \in 0..m /\ i - 1 # m + 1 /\ i - 1 \in 0..(m + 1)
        BY <2>1, <3>2
      <4>2. g[i] = f[i] /\ g[i - 1] = f[i - 1]
        BY <3>2, <4>1
      <4>3. f[i] = Next1(f[i - 1])
        BY <2>2, <3>2, <4>1
      <4> QED
        BY <3>2, <4>2, <4>3
    <3>3. CASE i # m + 1 /\ i = 0
      BY <2>1, <2>2, <3>3
    <3> QED
      BY <3>1, <3>2, <3>3
  <2>4. Chain(g, m + 1)
    <3> DEFINE h == [i \in 0..(m + 1) |-> IF i = 0 THEN Table[0][j].start ELSE Next1(g[i - 1])]
    <3>1. \A i \in 0..(m + 1) : g[i] = h[i]
      BY <2>3
    <3>2. g = h
      BY <3>1
    <3> QED
      BY <3>2
  <2> HIDE DEF g, Chain
  <2>5. \E w : Chain(w, m + 1)
    BY <2>4
  <2> QED
    BY <2>1, <2>5
<1>3. G = Nat
  <2>1. G \in SUBSET Nat
    OBVIOUS
  <2> HIDE DEF G
  <2> QED
    BY <1>1, <1>2, <2>1, NatSetInduction
<1> QED
  BY <1>3

(* So each table of a chain follows from the one before.                   *)
LEMMA ChainLinks ==
  ASSUME NEW j
  PROVE  /\ TableOf(j, 0) = Table[0][j].start
         /\ \A k \in Nat : TableOf(j, k + 1) = Table[0][j].start + Table[TableOf(j, k)][2].start
<1> DEFINE Next1(x) == Table[0][j].start + Table[x][2].start
           Chain(f, m) == f = [i \in 0..m |-> IF i = 0 THEN Table[0][j].start ELSE Next1(f[i - 1])]
           at(m) == CHOOSE f : Chain(f, m)
<1>1. \A k : TableOf(j, k) = at(k)[k]
  BY DEF TableOf
<1>2. \A k \in Nat : Chain(at(k), k)
  <2>1. \A k \in Nat : \E f : Chain(f, k)
    BY ChainExists
  <2> HIDE DEF Chain
  <2> QED
    BY <2>1
<1> HIDE DEF at, Next1
<1>3. TableOf(j, 0) = Table[0][j].start
  BY <1>1, <1>2
<1>4. ASSUME NEW k \in Nat PROVE TableOf(j, k + 1) = Next1(TableOf(j, k))
  <2> DEFINE E == {i \in Nat : i <= k => at(k)[i] = at(k + 1)[i]}
  <2>1. k + 1 \in Nat /\ Chain(at(k), k) /\ Chain(at(k + 1), k + 1)
    BY <1>2
  <2>2. 0 \in E
    BY <2>1
  <2>3. ASSUME NEW i \in E PROVE i + 1 \in E
    <3>1. i \in Nat /\ (i <= k => at(k)[i] = at(k + 1)[i])
      OBVIOUS
    <3>2. ASSUME i + 1 <= k PROVE at(k)[i + 1] = at(k + 1)[i + 1]
      <4>1. i + 1 \in 0..k /\ i + 1 \in 0..(k + 1) /\ i + 1 # 0 /\ (i + 1) - 1 = i /\ i <= k
        BY <3>1, <3>2
      <4>2. at(k)[i + 1] = Next1(at(k)[i])
        BY <2>1, <4>1
      <4>3. at(k + 1)[i + 1] = Next1(at(k + 1)[i])
        BY <2>1, <4>1
      <4> QED
        BY <3>1, <4>1, <4>2, <4>3
    <3> QED
      BY <3>1, <3>2
  <2>4. E = Nat
    <3>1. E \in SUBSET Nat
      OBVIOUS
    <3> HIDE DEF E
    <3> QED
      BY <2>2, <2>3, <3>1, NatSetInduction
  <2>5. at(k)[k] = at(k + 1)[k]
    BY <2>4
  <2>6. k + 1 \in 0..(k + 1) /\ k + 1 # 0 /\ (k + 1) - 1 = k
    OBVIOUS
  <2>7. at(k + 1)[k + 1] = Next1(at(k + 1)[k])
    BY <2>1, <2>6
  <2> QED
    BY <1>1, <2>1, <2>5, <2>7
<1> QED
  BY <1>3, <1>4 DEF Next1

(* Logical partition k of extended partition j has a number in the table   *)
(* of the logical partitions.                                              *)
LEMMA LogicalInBlocks ==
  ASSUME NEW p \in Nat, NEW j \in 1..p, NEW r \in Nat \ {0}, NEW k \in 0..(r - 1)
  PROVE  (j - 1) * r + k \in 0..(p * r - 1)
<1>1. p - j \in Nat /\ j - 1 \in Nat /\ p = (j - 1) + 1 + (p - j)
  OBVIOUS
<1>2. p * r = (j - 1) * r + r + (p - j) * r
  BY <1>1
<1>3. (p - j) * r \in Nat /\ (j - 1) * r \in Nat /\ p * r \in Nat
  BY <1>1
<1> QED
  BY <1>2, <1>3

(* Numbers of logical partitions: those of one extended partition after    *)
(* those of another.                                                       *)
LEMMA LogicalNumbers ==
  ASSUME NEW a \in Nat, NEW b \in Nat, NEW r \in Nat \ {0}, NEW i \in 0..(r - 1), NEW k \in 0..(r - 1)
  PROVE  a * r + i = b * r + k => a = b /\ i = k
<1> SUFFICES ASSUME a * r + i = b * r + k PROVE a = b /\ i = k
  OBVIOUS
<1>1. ASSUME NEW x \in Nat, NEW y \in Nat, x < y PROVE x * r + r <= y * r
  <2>1. y = x + (y - x) /\ y - x \in Nat /\ y - x >= 1
    BY <1>1
  <2>2. y * r = x * r + (y - x) * r
    BY <2>1
  <2>3. (y - x) * r >= r
    <3>1. (y - x) * r = r + (y - x - 1) * r /\ (y - x - 1) * r >= 0
      BY <2>1
    <3> QED
      BY <3>1
  <2>4. x * r \in Nat /\ y * r \in Nat /\ (y - x) * r \in Nat
    BY <2>1
  <2> QED
    BY <2>2, <2>3, <2>4
<1>2. a * r \in Nat /\ b * r \in Nat
  OBVIOUS
<1>3. ~(a < b)
  BY <1>1, <1>2
<1>4. ~(b < a)
  BY <1>1, <1>2
<1> QED
  BY <1>2, <1>3, <1>4

(* Whose the n-th logical partition is, and that it is within the table.   *)
LEMMA LogicalNumber ==
  ASSUME NEW n \in 0..(NrSub - 1)
  PROVE  /\ n \div NR_SUB_PER_PART \in Nat
         /\ n \div NR_SUB_PER_PART + 1 \in 1..NR_PART_PER_DRIVE
         /\ n % NR_SUB_PER_PART \in 0..(NR_SUB_PER_PART - 1)
         /\ (n \div NR_SUB_PER_PART) * NR_SUB_PER_PART + (n % NR_SUB_PER_PART) = n
         /\ n % NrSub = n
<1> DEFINE r == NR_SUB_PER_PART
           q == n \div r
<1>1. r \in Nat \ {0} /\ NR_PART_PER_DRIVE \in Nat \ {0} /\ NrSub = NR_PART_PER_DRIVE * r
  BY DiskAssumption DEF NrSub
<1>2. NrSub \in Nat /\ n \in Nat /\ n < NrSub
  <2>1. NR_PART_PER_DRIVE * r \in Nat
    BY <1>1
  <2> QED
    BY <1>1, <2>1
<1>3. q \in Nat /\ n % r \in 0..(r - 1) /\ q * r + (n % r) = n
  <2> HIDE DEF r
  <2> QED
    BY <1>1, <1>2, DivMod
<1> HIDE DEF r, q
<1>4. q < NR_PART_PER_DRIVE
  <2> SUFFICES ASSUME q >= NR_PART_PER_DRIVE PROVE FALSE
    BY <1>1, <1>3
  <2>1. q * r = NR_PART_PER_DRIVE * r + (q - NR_PART_PER_DRIVE) * r
    BY <1>1, <1>3
  <2>2. q - NR_PART_PER_DRIVE \in Nat
    BY <1>1, <1>3
  <2>3. (q - NR_PART_PER_DRIVE) * r \in Nat /\ NR_PART_PER_DRIVE * r \in Nat /\ q * r \in Nat
    BY <1>1, <1>3
  <2> QED
    BY <1>1, <1>2, <1>3, <2>1, <2>3
<1>5. n % NrSub = n
  BY <1>2
<1> QED
  BY <1>1, <1>3, <1>4, <1>5 DEF r, q

-----------------------------------------------------------------------------
(* What the driver knows of the partitions.                                *)

(* The primary partitions up to j, the logical ones of the extended        *)
(* partitions before j and the first k of j's are as they are on disk.     *)
KnownUpTo(j, k) ==
  /\ \A n \in 1..NR_PART_PER_DRIVE : n <= j /\ Table[0][n].id # NO_PART =>
       hd_info.primary[n] = Extent(0, Table[0][n])
  /\ \A n \in 1..NR_PART_PER_DRIVE, i \in 0..(NR_SUB_PER_PART - 1) :
       (n < j \/ (n = j /\ i < k)) /\ HasLogical(n, i) =>
         hd_info.logical[(n - 1) * NR_SUB_PER_PART + i] = Logical(n, i)

AllKnown == KnownUpTo(NR_PART_PER_DRIVE + 1, 0)

(* hd_open() is at the first table, or at one of an extended partition's.  *)
Reading ==
  \/ part = NotReading
  \/ /\ part.j \in 1..NR_PART_PER_DRIVE /\ part.k \in 0..(NR_SUB_PER_PART - 1)
     /\ part.tbl = Table[0] /\ Table[0][part.j].id = EXT_PART
     /\ part.s = TableOf(part.j, part.k)
     /\ KnownUpTo(part.j, part.k)

(* FS's last request has been carried out.                                 *)
Carried == Quiet \/ Answering \/ hd.at = "reply"

PartsTypeOK ==
  /\ DOMAIN hd_info = {"open_cnt", "primary", "logical"} /\ hd_info.open_cnt \in Nat
  /\ DOMAIN hd_info.primary = 0..NR_PART_PER_DRIVE
  /\ DOMAIN hd_info.logical = 0..(NrSub - 1)
  /\ DOMAIN part = {"tbl", "j", "k", "s"}
  /\ DOMAIN fs = {"at", "did", "dev", "geo"}
  /\ fs.dev \in RootDevs /\ fs.did \in {"none", "OPEN", "IOCTL", "READ", "WRITE"}

(* What is asked for and served is what FS did last.                       *)
Asked ==
  /\ Asking => mem[FS].type.op = fs.did
  /\ Serving => fs.did = IF hd.at = "got" THEN mem[HD].type.op ELSE hd.msg.op
  /\ hd.at \in {"loop", "got"} => hd.msg.op = "none"
  /\ fs.did = "none" => Quiet /\ hd_info.open_cnt = 0

(* From the answer to the first request on everything is known.            *)
Learnt ==
  /\ fs.did = "OPEN" => IF Carried THEN AllKnown
                        ELSE IF hd.at \in {"loop", "got"} THEN hd_info.open_cnt = 0 ELSE Reading
  /\ fs.did \notin {"none", "OPEN"} => AllKnown

Own ==
  /\ (fs.did = "IOCTL" /\ Carried) \/ fs.did \in {"READ", "WRITE"} => fs.geo = OnDisk(fs.dev)
  /\ hd.msg.op \in {"READ", "WRITE"} /\ drive.at # "idle" =>
       LET d == Sectors(CountReg(hd.msg.cnt)) IN
       /\ drive.lba \in Nat /\ drive.left <= d
       /\ drive.lba + drive.left = OnDisk(fs.dev).base + hd.msg.pos + d

PInv == PartsTypeOK /\ Asked /\ Learnt /\ Own

(* It holds before FS's first request.                                     *)
LEMMA InitPInv == HdInit => PInv
<1> SUFFICES ASSUME HdInit PROVE PInv
  OBVIOUS
<1>1. HInv
  BY InitHInv
<1>2. /\ hd = HdIdle /\ drive = DriveIdle /\ part = NotReading
      /\ hd_info = [open_cnt |-> 0, primary |-> [n \in 0..NR_PART_PER_DRIVE |-> NoPart],
                    logical |-> [n \in 0..(NrSub - 1) |-> NoPart]]
      /\ \E dev \in RootDevs : fs = [at |-> "run", did |-> "none", dev |-> dev, geo |-> NoPart]
      /\ p_flags = [p \in Proc |-> {}] /\ q_sending = [p \in Proc |-> << >>]
  BY DEF HdInit, Init
<1>3. PartsTypeOK
  BY <1>2 DEF PartsTypeOK, NotReading
<1>4. fs.did = "none" /\ fs.at = "run" /\ hd.at = "loop" /\ hd.msg.op = "none" /\ drive.at = "idle"
  BY <1>2 DEF HdIdle, DriveIdle, Request
<1>5. Quiet
  BY <1>2, <1>4, Names DEF Quiet
<1>6. Asked /\ Learnt /\ Own
  BY <1>2, <1>4, <1>5 DEF Asked, Learnt, Own, Asking, Serving
<1> QED
  BY <1>3, <1>6 DEF PInv

(* What is known is found.                                                 *)
LEMMA OwnFound ==
  ASSUME AllKnown, NEW dev, IsPartition(dev)
  PROVE  PartOf(dev) = OnDisk(dev)
<1>0. NR_PART_PER_DRIVE \in Nat /\ MAX_PRIM \in Nat /\ MINOR_hd1a \in Nat
      /\ NR_PART_PER_DRIVE < MAX_PRIM /\ MAX_PRIM <= MINOR_hd1a
  BY DiskAssumption
<1>1. CASE dev \in 1..NR_PART_PER_DRIVE /\ Table[0][dev].id # NO_PART
  <2>1. dev < MAX_PRIM /\ dev <= NR_PART_PER_DRIVE /\ dev <= NR_PART_PER_DRIVE + 1
    BY <1>0, <1>1
  <2>2. hd_info.primary[dev] = Extent(0, Table[0][dev])
    BY <1>1, <2>1 DEF AllKnown, KnownUpTo
  <2> QED
    BY <2>1, <2>2 DEF PartOf, OnDisk
<1>2. CASE /\ dev \in MINOR_hd1a..(MINOR_hd1a + NrSub - 1)
           /\ HasLogical((dev - MINOR_hd1a) \div NR_SUB_PER_PART + 1,
                         (dev - MINOR_hd1a) % NR_SUB_PER_PART)
  <2> DEFINE n == dev - MINOR_hd1a
             j == n \div NR_SUB_PER_PART + 1
             i == n % NR_SUB_PER_PART
  <2>1. NrSub \in Int
    BY DiskAssumption DEF NrSub
  <2>2. n \in 0..(NrSub - 1) /\ ~(dev < MAX_PRIM) /\ ~(dev <= NR_PART_PER_DRIVE)
    BY <1>0, <1>2, <2>1
  <2>3. /\ j \in 1..NR_PART_PER_DRIVE /\ i \in 0..(NR_SUB_PER_PART - 1)
        /\ (n \div NR_SUB_PER_PART) * NR_SUB_PER_PART + i = n /\ n % NrSub = n
    BY <2>2, LogicalNumber
  <2>4. n \div NR_SUB_PER_PART = j - 1
    <3>1. n \div NR_SUB_PER_PART \in Nat
      BY <2>2, LogicalNumber
    <3> QED
      BY <3>1
  <2> HIDE DEF i, j
  <2>5. j < NR_PART_PER_DRIVE + 1
    BY <1>0, <2>3
  <2>6. HasLogical(j, i)
    BY <1>2 DEF i, j
  <2>7. hd_info.logical[(j - 1) * NR_SUB_PER_PART + i] = Logical(j, i)
    BY <2>3, <2>5, <2>6 DEF AllKnown, KnownUpTo
  <2>8. PartOf(dev) = hd_info.logical[n]
    BY <2>2, <2>3 DEF PartOf
  <2>9. OnDisk(dev) = Logical(j, i)
    BY <2>2 DEF OnDisk, i, j
  <2> QED
    BY <2>3, <2>4, <2>7, <2>8, <2>9
<1> QED
  BY <1>1, <1>2 DEF IsPartition

(* The next extended partition is the first one after j.                   *)
LEMMA NextExtendedIs ==
  ASSUME NEW tbl, NEW j \in Nat
  PROVE  LET e == NextExtended(tbl, j) IN
         /\ e = 0 \/ (e \in (j + 1)..NR_PART_PER_DRIVE /\ tbl[e].id = EXT_PART)
         /\ \A n \in (j + 1)..NR_PART_PER_DRIVE :
              (e = 0 \/ n < e) => tbl[n].id # EXT_PART
<1> DEFINE ext == {n \in (j + 1)..NR_PART_PER_DRIVE : tbl[n].id = EXT_PART}
<1>1. CASE ext = {}
  <2>1. NextExtended(tbl, j) = 0
    BY <1>1 DEF NextExtended
  <2> QED
    BY <1>1, <2>1
<1>2. CASE ext # {}
  <2>1. ext \in SUBSET Nat
    BY DiskAssumption
  <2>2. PICK x \in ext : \A y \in ext : x <= y
    <3> HIDE DEF ext
    <3> QED
      BY <1>2, <2>1, LeastNat
  <2>3. Min(ext) \in ext /\ \A y \in ext : Min(ext) <= y
    BY <2>2 DEF Min
  <2>4. NextExtended(tbl, j) = Min(ext)
    BY <1>2 DEF NextExtended
  <2> DEFINE e == NextExtended(tbl, j)
  <2>5. e \in (j + 1)..NR_PART_PER_DRIVE /\ tbl[e].id = EXT_PART
    BY <2>3, <2>4
  <2>6. ASSUME NEW n \in (j + 1)..NR_PART_PER_DRIVE, e = 0 \/ n < e
        PROVE  tbl[n].id # EXT_PART
    <3>1. e # 0 /\ e \in Nat /\ n \in Nat /\ ~(e <= n)
      BY <2>5, <2>6, DiskAssumption
    <3>2. n \notin ext
      <4> HIDE DEF ext
      <4> QED
        BY <2>3, <2>4, <3>1
    <3> QED
      BY <3>2
  <2> QED
    BY <2>5, <2>6
<1> QED
  BY <1>1, <1>2

(* After the entries up to j, and the chain of j if it is extended, those  *)
(* up to the next extended one are known, or all.                          *)
LEMMA MoreKnown ==
  ASSUME PartsTypeOK, PartsTypeOK', NEW j \in 0..NR_PART_PER_DRIVE, MoreTables(Table[0], j),
         hd_info'.primary = Primaries(Table[0], j),
         \A n \in 1..NR_PART_PER_DRIVE : n <= j /\ Table[0][n].id # NO_PART =>
           hd_info.primary[n] = Extent(0, Table[0][n]),
         \A n \in 1..NR_PART_PER_DRIVE, i \in 0..(NR_SUB_PER_PART - 1) :
           n <= j /\ HasLogical(n, i) =>
             hd_info'.logical[(n - 1) * NR_SUB_PER_PART + i] = Logical(n, i)
  PROVE  IF NextExtended(Table[0], j) = 0 THEN AllKnown' ELSE Reading'
<1> DEFINE tbl == Table[0]
           e == NextExtended(tbl, j)
<1>0. /\ NR_PART_PER_DRIVE \in Nat /\ j \in Nat /\ NR_SUB_PER_PART \in Nat \ {0}
      /\ NO_PART # EXT_PART
  BY DiskAssumption DEF NO_PART, EXT_PART
<1>1. /\ e = 0 \/ (e \in (j + 1)..NR_PART_PER_DRIVE /\ tbl[e].id = EXT_PART)
      /\ \A n \in (j + 1)..NR_PART_PER_DRIVE : (e = 0 \/ n < e) => tbl[n].id # EXT_PART
  BY <1>0, NextExtendedIs
<1>2. \A n \in 1..NR_PART_PER_DRIVE :
        hd_info'.primary[n] = IF n > j /\ (e = 0 \/ n <= e) /\ tbl[n].id # NO_PART
                              THEN Extent(0, tbl[n]) ELSE hd_info.primary[n]
  <2>1. \A n \in 1..NR_PART_PER_DRIVE : n \in DOMAIN hd_info.primary
    BY <1>0 DEF PartsTypeOK
  <2> QED
    BY <2>1 DEF Primaries
<1> HIDE DEF e
<1>3. \A n \in 1..NR_PART_PER_DRIVE : (e = 0 \/ n <= e) /\ tbl[n].id # NO_PART =>
        hd_info'.primary[n] = Extent(0, tbl[n])
  BY <1>0, <1>2
<1>4. \A n \in 1..NR_PART_PER_DRIVE, i \in 0..(NR_SUB_PER_PART - 1) :
        (e = 0 \/ n < e) /\ HasLogical(n, i) =>
          hd_info'.logical[(n - 1) * NR_SUB_PER_PART + i] = Logical(n, i)
  BY <1>0, <1>1 DEF HasLogical
<1>5. CASE e = 0
  BY <1>0, <1>3, <1>4, <1>5 DEF AllKnown, KnownUpTo, e
<1>6. CASE e # 0
  <2>1. part' = [tbl |-> tbl, j |-> e, k |-> 0, s |-> tbl[e].start]
    BY <1>6 DEF MoreTables, e
  <2>2. e \in 1..NR_PART_PER_DRIVE /\ 0 \in 0..(NR_SUB_PER_PART - 1)
    BY <1>0, <1>1, <1>6
  <2>3. KnownUpTo(e, 0)'
    BY <1>3, <1>4, <1>6 DEF KnownUpTo
  <2>4. part'.s = TableOf(part'.j, part'.k)
    BY <2>1, ChainLinks
  <2>5. /\ part'.j = e /\ part'.k = 0 /\ part'.tbl = tbl
    BY <2>1
  <2>6. Reading'
    BY <1>1, <1>6, <2>2, <2>3, <2>4, <2>5 DEF Reading
  <2> QED
    BY <1>6, <2>6 DEF e
<1> QED
  BY <1>5, <1>6

-----------------------------------------------------------------------------
(* Its steps.                                                              *)

(* The conversation is in one phase at a time.                             *)
OnePhase ==
  /\ Quiet => hd.at \in {"loop", "got"} /\ ~Asking /\ ~Serving /\ ~Answering
  /\ Asking => hd.at = "loop" /\ ~Serving /\ ~Answering
  /\ Serving => hd.at # "loop" /\ ~Answering
  /\ Answering => hd.at = "loop"
  /\ Quiet \/ Asking \/ Serving \/ Answering
  /\ CanCall(HD) /\ hd.at # "loop" => Serving
  /\ hd.at \notin {"loop", "got"} => Serving

(* It is so in every reachable state,                                      *)
LEMMA Phases ==
  ASSUME HInv
  PROVE  OnePhase
BY DEF HInv, Conversation, Quiet, Asking, Serving, Answering, OnePhase, CanCall,
       SENDING, RECEIVING

(* and in the next one.                                                    *)
LEMMA PhasesNext ==
  ASSUME HInv'
  PROVE  OnePhase'
BY DEF HInv, Conversation, Quiet, Asking, Serving, Answering, OnePhase, CanCall,
       SENDING, RECEIVING

(* What is known changes with hd_info and partition()'s variables alone.   *)
LEMMA TablesKept ==
  ASSUME UNCHANGED <<hd_info, part>>
  PROVE  /\ AllKnown' <=> AllKnown
         /\ Reading' <=> Reading
BY DEF AllKnown, Reading, KnownUpTo

(* The drive moves a sector, or none.                                      *)
Moves ==
  /\ drive.at # "idle"
  /\ \/ drive'.left = drive.left /\ drive'.lba = drive.lba
     \/ drive'.left = drive.left - 1 /\ drive'.lba = drive.lba + 1

(* A step of the driver that goes on with the request it serves, or        *)
(* another one's that leaves driver and FS's requests alone.               *)
LEMMA GoesOn ==
  ASSUME HInv, HInv', PInv, UNCHANGED <<hd_info, part, fs>>, hd'.msg = hd.msg,
         \/ hd'.at = hd.at
         \/ hd.at \notin {"loop", "got"} /\ hd'.at \notin {"loop", "got"},
         Serving => Serving' /\ (hd.at = "got" => mem'[HD] = mem[HD]),
         Asking => Asking' /\ mem'[FS] = mem[FS],
         Quiet => Quiet', Answering => Answering',
         hd.at # "reply" /\ hd'.at = "reply" => fs.did \in {"READ", "WRITE"},
         hd.at = "reply" => hd'.at = "reply",
         \/ drive'.at = "idle"
         \/ Moves
         \/ hd.msg.op \notin {"READ", "WRITE"}
  PROVE  PInv'
<1>1. OnePhase /\ OnePhase'
  BY Phases, PhasesNext
<1>2. (AllKnown' <=> AllKnown) /\ (Reading' <=> Reading)
  BY TablesKept
<1>3. (Quiet' <=> Quiet) /\ (Asking' <=> Asking) /\ (Serving' <=> Serving)
      /\ (Answering' <=> Answering)
  BY <1>1 DEF OnePhase
<1>4. PartsTypeOK'
  BY DEF PInv, PartsTypeOK
<1>5. Asked'
  BY <1>1, <1>3 DEF PInv, Asked, OnePhase
<1>6. Learnt'
  BY <1>1, <1>2, <1>3 DEF PInv, Learnt, Carried, OnePhase
<1>7. Own'
  <2> DEFINE d == Sectors(CountReg(hd.msg.cnt))
             moved == OnDisk(fs.dev).base + hd.msg.pos + d
  <2>1. (fs.did = "IOCTL" /\ Carried)' \/ fs'.did \in {"READ", "WRITE"} => fs'.geo = OnDisk(fs'.dev)
    BY <1>1, <1>3 DEF PInv, Own, Carried, OnePhase
  <2>2. ASSUME hd.msg.op \in {"READ", "WRITE"}, drive'.at # "idle"
        PROVE  drive'.lba \in Nat /\ drive'.left <= d /\ drive'.lba + drive'.left = moved
    <3>1. Moves
      BY <2>2
    <3>2. drive.lba \in Nat /\ drive.left <= d /\ drive.lba + drive.left = moved /\ drive.left \in Nat
      BY <2>2, <3>1 DEF PInv, Own, Moves, HInv, HdTypeOK
    <3>3. d \in Nat
      <4>1. hd.msg.cnt \in Nat \ {0}
        BY <2>2, HdAssumption DEF HInv, Conversation, Quiet, Asking, Serving, Answering, IsRequest, PInv, Asked
      <4> QED
        BY <4>1, RegisterCounts
    <3> HIDE DEF d, moved
    <3> QED
      BY <3>1, <3>2, <3>3 DEF Moves
  <2> QED
    BY <2>1, <2>2 DEF Own
<1> QED
  BY <1>4, <1>5, <1>6, <1>7 DEF PInv

(* FS asks when its last request has been answered.                        *)
LEMMA FsSendAsks ==
  ASSUME HInv, HInv', PInv, NEW op \in {"OPEN", "IOCTL", "READ", "WRITE"}, NEW pos, NEW n,
         op \in {"READ", "WRITE"} => n \in Lens /\ pos \in Positions, FsSend(op, pos, n)
  PROVE  PInv'
<1> DEFINE m == Request(op, pos, n)
<1>1. IsRequest(m) /\ m.op = op
  BY DEF FsSend, IsRequest, Request
<1>2. /\ fs.at = "run" /\ SendStep(FS, HD, m) /\ UNCHANGED <<hd, hd_info, part, drive, irq>>
      /\ fs' = [fs EXCEPT !.at = "sent", !.did = op]
      /\ op = "OPEN" => fs.did = "none"
      /\ op = "IOCTL" => fs.did = "OPEN"
      /\ op \in {"READ", "WRITE"} => fs.did \notin {"none", "OPEN"}
  BY DEF FsSend, taskvars, drivevars
<1> HIDE DEF m
<1>3. fs'.at = "sent" /\ fs'.did = op /\ fs'.dev = fs.dev /\ fs'.geo = fs.geo
      /\ DOMAIN fs' = DOMAIN fs
  BY <1>2 DEF PInv, PartsTypeOK
<1>4. OnePhase /\ OnePhase'
  BY Phases, PhasesNext
<1>5. Quiet
  <2>1. CanCall(FS)
    BY <1>2 DEF SendStep, SendDeadlock, SendDeliver, SendBlock
  <2> QED
    BY <1>2, <2>1 DEF HInv, Conversation, CanCall, Asking, Serving, Answering
<1>6. /\ hd.at \in {"loop", "got"}
      /\ (Asking' /\ mem'[FS].type.op = op) \/ (Serving' /\ hd.at = "got" /\ mem'[HD].type.op = op)
  <2>1. \/ /\ hd.at = "loop" /\ p_flags'[FS] = {SENDING} /\ mem'[FS].type = m
        \/ /\ hd.at = "got" /\ p_flags'[HD] = {} /\ p_flags'[FS] = {} /\ mem'[HD].type = m
    BY <1>1, <1>2, RequestGoesOut
  <2>2. CASE hd.at = "loop" /\ p_flags'[FS] = {SENDING} /\ mem'[FS].type = m
    BY <1>1, <1>2, <1>3, <1>4, <2>2 DEF OnePhase, Quiet, Serving, Answering, SENDING, RECEIVING
  <2>3. CASE /\ hd.at = "got" /\ p_flags'[HD] = {} /\ p_flags'[FS] = {} /\ mem'[HD].type = m
    BY <1>1, <1>2, <1>3, <1>4, <2>3 DEF OnePhase, Quiet, Asking, Answering, SENDING, RECEIVING
  <2> QED
    BY <2>1, <2>2, <2>3
<1>7. (AllKnown' <=> AllKnown) /\ (Reading' <=> Reading)
  BY <1>2, TablesKept
<1>8. PartsTypeOK'
  BY <1>2, <1>3 DEF PInv, PartsTypeOK
<1>9. Asked'
  BY <1>2, <1>3, <1>4, <1>6 DEF PInv, Asked, OnePhase
<1>10. Learnt' /\ Own'
  <2>1. ~Carried'
    BY <1>2, <1>4, <1>6 DEF Carried, OnePhase
  <2>2. Carried
    BY <1>5 DEF Carried
  <2>3. fs.did \in {"none", "OPEN", "IOCTL", "READ", "WRITE"}
    BY DEF PInv, PartsTypeOK
  <2>4. Learnt'
    BY <1>2, <1>3, <1>6, <1>7, <2>1, <2>2, <2>3 DEF PInv, Asked, Learnt
  <2>5. Own'
    BY <1>2, <1>3, <1>6, <2>1, <2>2, <2>3 DEF PInv, Asked, Own
  <2> QED
    BY <2>4, <2>5
<1> QED
  BY <1>8, <1>9, <1>10 DEF PInv

(* FS in its call for the answer, and after it.                            *)
LEMMA FsWaits ==
  ASSUME HInv, HInv', PInv, FsReceive \/ FsReturn
  PROVE  PInv'
<1>1. /\ UNCHANGED <<hd, hd_info, part, drive, irq>>
      /\ fs'.did = fs.did /\ fs'.dev = fs.dev /\ fs'.geo = fs.geo /\ DOMAIN fs' = DOMAIN fs
  BY DEF FsReceive, FsReturn, taskvars, drivevars, PInv, PartsTypeOK
<1>2. OnePhase /\ OnePhase'
  BY Phases, PhasesNext
<1>3. \/ Serving /\ Serving' /\ mem'[HD] = mem[HD]
      \/ (Answering \/ Quiet) /\ Quiet'
  <2>1. CASE FsReceive
    BY <2>1, FsReceiveKeeps
  <2>2. CASE FsReturn
    <3>1. fs.at = "wait" /\ p_flags[FS] = {} /\ fs'.at = "run" /\ UNCHANGED <<p_flags, p_recvfrom, q_sending>>
      BY <2>2 DEF FsReturn, CanCall, ipcvars, PInv, PartsTypeOK
    <3>2. Quiet
      BY <3>1 DEF HInv, Conversation, Asking, Serving, Answering
    <3> QED
      BY <1>1, <3>1, <3>2 DEF Quiet
  <2> QED
    BY <2>1, <2>2
<1>4. (AllKnown' <=> AllKnown) /\ (Reading' <=> Reading)
  BY <1>1, TablesKept
<1>5. Carried' <=> Carried
  BY <1>1, <1>2, <1>3 DEF Carried, OnePhase
<1>6. PartsTypeOK'
  BY <1>1 DEF PInv, PartsTypeOK
<1>7. Asked'
  BY <1>1, <1>2, <1>3 DEF PInv, Asked, OnePhase
<1>8. Learnt'
  BY <1>1, <1>4, <1>5 DEF PInv, Learnt
<1>9. Own'
  BY <1>1, <1>5 DEF PInv, Own
<1> QED
  BY <1>6, <1>7, <1>8, <1>9 DEF PInv

(* TASK_HD at its main loop, where it takes requests,                      *)
LEMMA HdReceives ==
  ASSUME HInv, HInv', PInv, HdReceive
  PROVE  PInv'
<1>1. /\ hd.at = "loop" /\ hd'.at = "got" /\ hd'.msg = hd.msg
      /\ UNCHANGED <<hd_info, part, drive, fs>>
  BY DEF HdReceive, drivevars, HInv, HdTypeOK
<1>2. OnePhase /\ OnePhase'
  BY Phases, PhasesNext
<1>3. \/ Quiet /\ Quiet'
      \/ Asking /\ Serving' /\ mem'[HD].type = mem[FS].type
  BY HdReceiveKeeps
<1>4. (AllKnown' <=> AllKnown) /\ (Reading' <=> Reading)
  BY <1>1, TablesKept
<1>5. Carried' <=> Carried
  BY <1>1, <1>2, <1>3 DEF Carried, OnePhase
<1>6. PartsTypeOK'
  BY <1>1 DEF PInv, PartsTypeOK
<1>7. Asked'
  BY <1>1, <1>2, <1>3 DEF PInv, Asked, OnePhase
<1>8. Learnt'
  BY <1>1, <1>4, <1>5 DEF PInv, Learnt
<1>9. Own'
  BY <1>1, <1>5 DEF PInv, Own
<1> QED
  BY <1>6, <1>7, <1>8, <1>9 DEF PInv

(* and where it answers them.                                              *)
LEMMA HdReplies ==
  ASSUME HInv, HInv', PInv, HdReply
  PROVE  PInv'
<1>1. /\ hd.at = "reply" /\ hd'.at = "loop" /\ hd'.msg.op = "none"
      /\ UNCHANGED <<hd_info, part, drive, fs>>
  BY DEF HdReply, drivevars, HdIdle, Request
<1>2. OnePhase /\ OnePhase'
  BY Phases, PhasesNext
<1>3. Serving /\ (Quiet' \/ Answering')
  BY HdReplyKeeps
<1>4. (AllKnown' <=> AllKnown) /\ (Reading' <=> Reading)
  BY <1>1, TablesKept
<1>5. Carried' /\ Carried
  BY <1>1, <1>3 DEF Carried
<1>6. PartsTypeOK'
  BY <1>1 DEF PInv, PartsTypeOK
<1>7. Asked'
  BY <1>1, <1>2, <1>3 DEF PInv, Asked, OnePhase
<1>8. Learnt'
  BY <1>1, <1>4, <1>5 DEF PInv, Learnt
<1>9. Own'
  BY <1>1, <1>5 DEF PInv, Own
<1> QED
  BY <1>6, <1>7, <1>8, <1>9 DEF PInv

(* What a request that has been taken says is what FS did last.            *)
LEMMA GotDid ==
  ASSUME HInv, PInv, NEW ops, HdGot(ops)
  PROVE  Serving /\ hd.at = "got" /\ mem[HD].type.op = fs.did /\ fs.did \in ops
         /\ ~Carried /\ DOMAIN hd = {"at", "msg", "left"}
<1>1. Serving /\ hd.at = "got" /\ OnePhase
  BY Phases DEF HdGot, HdAt, OnePhase
<1> QED
  BY <1>1 DEF HdGot, PInv, Asked, Carried, OnePhase, HInv, HdTypeOK

(* A command for sectors of FS's partition.                                *)
LEMMA HdCommands ==
  ASSUME HInv, HInv', PInv, HdCommand
  PROVE  PInv'
<1> DEFINE m == mem[HD].type
<1>0. HdGot({"READ", "WRITE"})
  BY DEF HdCommand
<1>1. /\ Serving /\ hd.at = "got" /\ m.op = fs.did /\ fs.did \in {"READ", "WRITE"}
      /\ DOMAIN drive = {"at", "op", "left", "lba"}
  BY <1>0, GotDid DEF HInv, HdTypeOK
<1>2. /\ hd'.at \in {"wait", "drq"} /\ hd'.msg = m
      /\ drive'.lba = PartOf(fs.dev).base + m.pos /\ drive'.left = Sectors(CountReg(m.cnt))
      /\ UNCHANGED <<hd_info, part, fs>>
  BY DEF HdCommand, hd_cmd_out
<1>3. Serving' /\ OnePhase'
  BY <1>2, PhasesNext DEF OnePhase
<1>4. (AllKnown' <=> AllKnown) /\ (Reading' <=> Reading)
  BY <1>2, TablesKept
<1>5. AllKnown
  BY <1>1 DEF PInv, Learnt
<1>6. PartOf(fs.dev) = OnDisk(fs.dev)
  BY <1>5, OwnFound, DiskAssumption DEF PInv, PartsTypeOK
<1>11. /\ OnDisk(fs.dev).base \in Nat /\ m.pos \in Nat /\ Sectors(CountReg(m.cnt)) \in Nat
  <2>1. IsRequest(m)
    BY <1>1 DEF Serving
  <2>2. m.pos \in Nat /\ m.cnt \in Nat \ {0}
    BY <1>1, <2>1, HdAssumption DEF IsRequest
  <2>3. fs.dev \in RootDevs
    BY DEF PInv, PartsTypeOK
  <2> QED
    BY <2>2, <2>3, RegisterCounts, DiskAssumption
<1> HIDE DEF m
<1>7. PartsTypeOK'
  BY <1>2 DEF PInv, PartsTypeOK
<1>8. Asked'
  BY <1>1, <1>2, <1>3 DEF PInv, Asked, OnePhase
<1>9. Learnt'
  BY <1>1, <1>2, <1>4, <1>5 DEF Learnt
<1>10. Own'
  BY <1>1, <1>2, <1>6, <1>11 DEF PInv, Own
<1> QED
  BY <1>7, <1>8, <1>9, <1>10 DEF PInv

(* The geometry of FS's partition.                                         *)
LEMMA HdTellsGeometry ==
  ASSUME HInv, HInv', PInv, hd_ioctl
  PROVE  PInv'
<1>0. HdGot({"IOCTL"})
  BY DEF hd_ioctl
<1>1. /\ Serving /\ hd.at = "got" /\ mem[HD].type.op = fs.did /\ fs.did = "IOCTL"
      /\ DOMAIN hd = {"at", "msg", "left"}
  BY <1>0, GotDid
<1>2. /\ hd'.at = "reply" /\ hd'.msg = mem[HD].type /\ UNCHANGED <<hd_info, part, drive>>
      /\ fs'.geo = PartOf(fs.dev) /\ fs'.did = fs.did /\ fs'.dev = fs.dev /\ DOMAIN fs' = DOMAIN fs
  BY <1>1 DEF hd_ioctl, drivevars, PInv, PartsTypeOK
<1>3. Serving' /\ OnePhase'
  BY <1>2, PhasesNext DEF OnePhase
<1>4. (AllKnown' <=> AllKnown) /\ (Reading' <=> Reading)
  BY <1>2, TablesKept
<1>5. AllKnown
  BY <1>1 DEF PInv, Learnt
<1>6. PartOf(fs.dev) = OnDisk(fs.dev)
  BY <1>5, OwnFound, DiskAssumption DEF PInv, PartsTypeOK
<1>7. PartsTypeOK'
  BY <1>2 DEF PInv, PartsTypeOK
<1>8. Asked'
  BY <1>1, <1>2, <1>3 DEF PInv, Asked, OnePhase
<1>9. Learnt'
  BY <1>1, <1>2, <1>4, <1>5 DEF Learnt
<1>10. Own'
  BY <1>1, <1>2, <1>6 DEF PInv, Own
<1> QED
  BY <1>7, <1>8, <1>9, <1>10 DEF PInv

(* The first OPEN starts at the first table.                               *)
LEMMA HdOpens ==
  ASSUME HInv, HInv', PInv, hd_open
  PROVE  PInv'
<1>0. HdGot({"OPEN"})
  BY DEF hd_open
<1>1. /\ Serving /\ hd.at = "got" /\ mem[HD].type.op = fs.did /\ fs.did = "OPEN" /\ ~Carried
      /\ DOMAIN hd = {"at", "msg", "left"}
  BY <1>0, GotDid
<1>2. hd_info.open_cnt = 0
  BY <1>1 DEF PInv, Learnt
<1>3. /\ hd'.at = "table" /\ hd'.msg = mem[HD].type /\ UNCHANGED <<drive, fs>>
      /\ part' = NotReading
      /\ hd_info' = [hd_info EXCEPT !.open_cnt = @ + 1]
  BY <1>1, <1>2 DEF hd_open, drivevars
<1>4. Serving' /\ OnePhase'
  BY <1>3, PhasesNext DEF OnePhase
<1>5. PartsTypeOK'
  <2>1. /\ DOMAIN hd_info' = DOMAIN hd_info /\ hd_info'.open_cnt = hd_info.open_cnt + 1
        /\ hd_info'.primary = hd_info.primary /\ hd_info'.logical = hd_info.logical
    BY <1>3 DEF PInv, PartsTypeOK
  <2>2. DOMAIN part' = {"tbl", "j", "k", "s"}
    BY <1>3 DEF NotReading
  <2> QED
    BY <1>3, <2>1, <2>2 DEF PInv, PartsTypeOK
<1>6. Asked'
  BY <1>1, <1>3, <1>4 DEF PInv, Asked, OnePhase
<1>7. Learnt'
  <2>1. Reading'
    BY <1>3 DEF Reading
  <2>2. ~Carried'
    BY <1>3, <1>4 DEF Carried, OnePhase
  <2> QED
    BY <1>1, <1>3, <2>1, <2>2 DEF Learnt
<1>8. Own'
  BY <1>1, <1>3 DEF PInv, Own
<1> QED
  BY <1>5, <1>6, <1>7, <1>8 DEF PInv

-----------------------------------------------------------------------------
(* The tables.                                                             *)

(* After a table the next one is read, or everything is known.             *)
LEMMA TableGoesOn ==
  ASSUME HInv, HInv', PInv, HdAt("awake"), hd.msg.op = "OPEN", hd'.msg = hd.msg, fs' = fs,
         PartsTypeOK', (hd'.at = "reply" /\ AllKnown') \/ (hd'.at = "table" /\ Reading')
  PROVE  PInv'
<1>1. Serving /\ OnePhase
  BY Phases DEF HdAt, OnePhase
<1>2. Serving' /\ OnePhase'
  BY PhasesNext DEF OnePhase
<1>3. fs.did = "OPEN"
  BY <1>1 DEF PInv, Asked, HdAt
<1>4. Asked'
  BY <1>2, <1>3 DEF Asked, OnePhase
<1>5. Carried' <=> hd'.at = "reply"
  BY <1>2 DEF Carried, OnePhase
<1>6. Learnt'
  BY <1>3, <1>5 DEF Learnt
<1>7. Own'
  BY <1>3 DEF Own
<1> QED
  BY <1>4, <1>6, <1>7 DEF PInv

(* While a table is awaited, it is the first or one of a chain's.          *)
LEMMA ReadingNow ==
  ASSUME HInv, PInv, HdAt("awake"), hd.msg.op = "OPEN"
  PROVE  Reading
<1>1. Serving /\ OnePhase
  BY Phases DEF HdAt, OnePhase
<1> QED
  BY <1>1 DEF PInv, Asked, Learnt, Carried, OnePhase, HdAt

(* The first table gives the primary partitions up to the first extended   *)
(* one,                                                                    *)
LEMMA HdReadsPrimary ==
  ASSUME HInv, HInv', PInv, HdPrimary
  PROVE  PInv'
<1>1. /\ HdAt("awake") /\ hd.msg.op = "OPEN" /\ part.j = 0 /\ fs' = fs
      /\ hd_info' = [hd_info EXCEPT !.primary = Primaries(Table[part.s], 0)]
      /\ MoreTables(Table[part.s], 0)
  BY DEF HdPrimary
<1>2. part = NotReading /\ part.s = 0
  BY <1>1, ReadingNow DEF Reading, NotReading
<1>3. /\ DOMAIN hd_info' = DOMAIN hd_info /\ hd_info'.open_cnt = hd_info.open_cnt
      /\ hd_info'.primary = Primaries(Table[0], 0) /\ hd_info'.logical = hd_info.logical
  BY <1>1, <1>2 DEF PInv, PartsTypeOK
<1>4. DOMAIN part' = {"tbl", "j", "k", "s"}
  BY <1>1 DEF MoreTables, NotReading
<1>5. PartsTypeOK'
  BY <1>1, <1>3, <1>4 DEF PInv, PartsTypeOK, Primaries
<1>6. IF NextExtended(Table[0], 0) = 0 THEN AllKnown' ELSE Reading'
  BY <1>1, <1>2, <1>3, <1>5, MoreKnown, DiskAssumption DEF PInv
<1>7. /\ hd'.at = IF NextExtended(Table[0], 0) = 0 THEN "reply" ELSE "table"
      /\ hd'.msg = hd.msg
  BY <1>1, <1>2 DEF MoreTables, HInv, HdTypeOK
<1>8. (hd'.at = "reply" /\ AllKnown') \/ (hd'.at = "table" /\ Reading')
  BY <1>6, <1>7
<1> QED
  BY <1>1, <1>5, <1>7, <1>8, TableGoesOn

(* and each table of an extended partition's chain a logical one.          *)
LEMMA HdReadsLogical ==
  ASSUME HInv, HInv', PInv, HdLogical
  PROVE  PInv'
<1> DEFINE tbl == Table[part.s]
           last == tbl[2].id = NO_PART \/ part.k + 1 = NR_SUB_PER_PART
           dev_nr == (part.j - 1) * NR_SUB_PER_PART + part.k
           R == NR_SUB_PER_PART
           j == part.j
           k == part.k
<1>0. R \in Nat \ {0} /\ NR_PART_PER_DRIVE \in Nat \ {0} /\ NrSub = NR_PART_PER_DRIVE * R
  BY DiskAssumption DEF NrSub
<1>1. /\ HdAt("awake") /\ hd.msg.op = "OPEN" /\ j # 0 /\ fs' = fs
      /\ hd_info' = [hd_info EXCEPT !.logical[dev_nr] = Extent(part.s, tbl[1]),
                                    !.primary = IF last THEN Primaries(part.tbl, j) ELSE @]
      /\ IF last THEN MoreTables(part.tbl, j)
         ELSE /\ hd' = [hd EXCEPT !.left = 0, !.at = "table"]
              /\ part' = [part EXCEPT !.k = @ + 1, !.s = NextTable(part.s, j, tbl[2])]
  BY DEF HdLogical
<1>2. /\ j \in 1..NR_PART_PER_DRIVE /\ k \in 0..(R - 1) /\ part.tbl = Table[0]
      /\ Table[0][j].id = EXT_PART /\ part.s = TableOf(j, k) /\ KnownUpTo(j, k)
  BY <1>1, ReadingNow DEF Reading, NotReading
<1> HIDE DEF last
<1>3. /\ DOMAIN hd_info' = DOMAIN hd_info /\ hd_info'.open_cnt = hd_info.open_cnt
      /\ hd_info'.primary = (IF last THEN Primaries(Table[0], j) ELSE hd_info.primary)
      /\ hd_info'.logical = [hd_info.logical EXCEPT ![dev_nr] = Extent(part.s, tbl[1])]
  BY <1>1, <1>2 DEF PInv, PartsTypeOK
<1>4. DOMAIN part' = {"tbl", "j", "k", "s"}
  <2>1. DOMAIN part = {"tbl", "j", "k", "s"}
    BY DEF PInv, PartsTypeOK
  <2> QED
    BY <1>1, <2>1 DEF MoreTables, NotReading
<1>5. PartsTypeOK'
  BY <1>1, <1>3, <1>4 DEF PInv, PartsTypeOK, Primaries
<1>6. dev_nr \in 0..(NrSub - 1)
  <2> HIDE DEF R, j, k
  <2>1. R \in Nat \ {0} /\ NR_PART_PER_DRIVE \in Nat /\ NrSub = NR_PART_PER_DRIVE * R
    BY <1>0
  <2>2. j \in 1..NR_PART_PER_DRIVE /\ k \in 0..(R - 1)
    BY <1>2
  <2>3. (j - 1) * R + k \in 0..(NR_PART_PER_DRIVE * R - 1)
    BY <2>1, <2>2, LogicalInBlocks, Zenon
  <2> QED
    BY <2>1, <2>3 DEF R, j, k
<1>7. Extent(part.s, tbl[1]) = Logical(j, k)
  BY <1>2 DEF Logical
<1>8. ASSUME NEW n \in 1..NR_PART_PER_DRIVE, NEW i \in 0..(R - 1), HasLogical(n, i),
             n < j \/ (n = j /\ i <= k)
      PROVE  hd_info'.logical[(n - 1) * R + i] = Logical(n, i)
  <2>1. CASE n = j /\ i = k
    <3>1. dev_nr \in DOMAIN hd_info.logical
      BY <1>6 DEF PInv, PartsTypeOK
    <3> QED
      BY <1>3, <1>7, <2>1, <3>1
  <2>2. CASE ~(n = j /\ i = k)
    <3>1. n < j \/ (n = j /\ i < k)
      BY <1>0, <1>2, <1>8, <2>2
    <3>2. hd_info.logical[(n - 1) * R + i] = Logical(n, i)
      BY <1>2, <1>8, <3>1 DEF KnownUpTo
    <3>3. (n - 1) * R + i # dev_nr
      <4>1. n - 1 \in Nat /\ j - 1 \in Nat /\ (n - 1 = j - 1 => n = j)
        BY <1>2
      <4>2. R \in Nat \ {0} /\ i \in 0..(R - 1) /\ k \in 0..(R - 1)
        BY <1>0, <1>2
      <4> HIDE DEF R, j, k
      <4> DEFINE Number(x, y) == x * R + y
      <4>3. \A a, b \in Nat, x, y \in 0..(R - 1) : Number(a, x) = Number(b, y) => a = b /\ x = y
        BY <4>2, LogicalNumbers
      <4> HIDE DEF Number
      <4>4. Number(n - 1, i) # Number(j - 1, k)
        BY <2>2, <4>1, <4>2, <4>3 DEF j, k
      <4> QED
        BY <4>4 DEF Number, R, j, k
    <3> QED
      BY <1>3, <3>2, <3>3
  <2> QED
    BY <2>1, <2>2
<1>9. CASE last
  <2>1. ASSUME NEW n \in 1..NR_PART_PER_DRIVE, NEW i \in 0..(R - 1), n <= j, HasLogical(n, i)
        PROVE  hd_info'.logical[(n - 1) * R + i] = Logical(n, i)
    <3>1. ASSUME n = j, i > k PROVE FALSE
      <4>1. k \in 0..(i - 1) /\ k + 1 # R
        BY <1>0, <1>2, <3>1
      <4>2. tbl[2].id # NO_PART
        BY <1>2, <2>1, <3>1, <4>1 DEF HasLogical
      <4> QED
        BY <1>9, <4>1, <4>2 DEF last
    <3>2. n < j \/ (n = j /\ i <= k)
      BY <1>0, <1>2, <2>1, <3>1
    <3> QED
      BY <1>8, <2>1, <3>2
  <2>2. \A n \in 1..NR_PART_PER_DRIVE : n <= j /\ Table[0][n].id # NO_PART =>
          hd_info.primary[n] = Extent(0, Table[0][n])
    BY <1>2 DEF KnownUpTo
  <2>3. j \in 0..NR_PART_PER_DRIVE /\ MoreTables(Table[0], j)
        /\ hd_info'.primary = Primaries(Table[0], j) /\ PartsTypeOK
    BY <1>0, <1>1, <1>2, <1>3, <1>9 DEF PInv
  <2>4. IF NextExtended(Table[0], j) = 0 THEN AllKnown' ELSE Reading'
    BY <1>5, <2>1, <2>2, <2>3, MoreKnown
  <2>5. /\ hd'.at = IF NextExtended(Table[0], j) = 0 THEN "reply" ELSE "table"
        /\ hd'.msg = hd.msg
    BY <2>3 DEF MoreTables, HInv, HdTypeOK
  <2>6. (hd'.at = "reply" /\ AllKnown') \/ (hd'.at = "table" /\ Reading')
    BY <2>4, <2>5
  <2> QED
    BY <1>1, <1>5, <2>5, <2>6, TableGoesOn
<1>10. CASE ~last
  <2>1. /\ hd'.at = "table" /\ hd'.msg = hd.msg
        /\ part'.j = j /\ part'.k = k + 1 /\ part'.tbl = part.tbl
        /\ part'.s = NextTable(part.s, j, tbl[2])
    BY <1>1, <1>10, ZenonT(30) DEF HInv, HdTypeOK, PInv, PartsTypeOK
  <2>2. k + 1 \in 0..(R - 1) /\ k \in Nat
    BY <1>0, <1>2, <1>10 DEF last
  <2>3. NextTable(part.s, j, tbl[2]) = TableOf(j, k + 1)
    <3>1. hd_info.primary[j] = Extent(0, Table[0][j])
      BY <1>0, <1>2 DEF KnownUpTo, NO_PART, EXT_PART
    <3>2. Table[0][j].start \in Nat
      BY <1>2, DiskAssumption
    <3>3. hd_info.primary[j].base = Table[0][j].start
      BY <3>1, <3>2 DEF Extent
    <3> QED
      BY <1>2, <2>2, <3>3, ChainLinks DEF NextTable
  <2>4. KnownUpTo(part.j, part.k)'
    <3>1. \A n \in 1..NR_PART_PER_DRIVE : n <= j /\ Table[0][n].id # NO_PART =>
            hd_info'.primary[n] = Extent(0, Table[0][n])
      BY <1>2, <1>3, <1>10 DEF KnownUpTo
    <3>2. \A n \in 1..NR_PART_PER_DRIVE, i \in 0..(R - 1) :
            (n < j \/ (n = j /\ i < k + 1)) /\ HasLogical(n, i) =>
              hd_info'.logical[(n - 1) * R + i] = Logical(n, i)
      BY <1>0, <1>2, <1>8, <2>2
    <3> QED
      BY <2>1, <3>1, <3>2 DEF KnownUpTo
  <2>5. Reading'
    BY <1>2, <2>1, <2>2, <2>3, <2>4 DEF Reading
  <2> QED
    BY <1>1, <1>5, <2>1, <2>5, TableGoesOn
<1> QED
  BY <1>9, <1>10

-----------------------------------------------------------------------------
(* The steps of driver and drive that leave the tables alone.              *)

(* The driver in the middle of a command.                                  *)
LEMMA InCommand ==
  ASSUME HInv, HInv', PInv, HdInterruptWait \/ HdInterruptLost \/ HdPortRead \/ HdPortWrite \/ HdWritten
  PROVE  PInv'
<1>1. /\ hd.at \in {"wait", "awake", "drq"} /\ hd'.at \in {"wait", "awake", "drq", "reply"}
      /\ hd'.msg = hd.msg /\ UNCHANGED <<hd_info, part, fs>>
      /\ hd'.at = "reply" => hd.at = "awake" /\ hd.msg.op \in {"READ", "WRITE"}
  BY ZenonT(30) DEF HdInterruptWait, HdInterruptLost, HdPortRead, HdPortWrite, HdWritten, SectorDone, port_read, HdAt,
         drivevars, HInv, HdTypeOK
<1>5. drive'.at = "idle" \/ Moves
  <2>1. DOMAIN drive = {"at", "op", "left", "lba"} /\ drive.left \in Nat
    BY DEF HInv, HdTypeOK
  <2>2. CASE drive' = drive
    BY <2>1, <2>2 DEF Moves
  <2>3. CASE HdPortRead
    <3>1. port_read
      BY <2>3 DEF HdPortRead
    <3>2. CASE drive.at = "ready"
      <4>1. drive'.left = drive.left - 1 /\ drive'.lba = drive.lba + 1
        BY <2>1, <3>1, <3>2 DEF port_read
      <4> QED
        BY <3>2, <4>1 DEF Moves
    <3> QED
      BY <2>2, <3>1, <3>2 DEF port_read
  <2>4. CASE HdPortWrite
    BY <2>1, <2>4 DEF HdPortWrite, Moves
  <2> QED
    BY <2>2, <2>3, <2>4 DEF HdInterruptWait, HdInterruptLost, HdWritten, drivevars
<1>2. OnePhase /\ OnePhase'
  BY Phases, PhasesNext
<1>3. Serving /\ Serving' /\ ~Asking /\ ~Quiet /\ ~Answering
  BY <1>1, <1>2 DEF OnePhase
<1>4. hd'.at = "reply" => fs.did \in {"READ", "WRITE"}
  BY <1>1, <1>3 DEF PInv, Asked
<1> QED
  BY <1>1, <1>3, <1>4, <1>5, GoesOn

(* The command for a table.                                                *)
LEMMA TableCommanded ==
  ASSUME HInv, HInv', PInv, HdTableCommand
  PROVE  PInv'
<1>1. /\ hd.at = "table" /\ hd'.at = "wait" /\ hd'.msg = hd.msg
      /\ UNCHANGED <<hd_info, part, fs>> /\ hd.msg.op = "OPEN"
  BY DEF HdTableCommand, HdAt, HInv, HdTypeOK, Doing
<1>2. OnePhase /\ OnePhase'
  BY Phases, PhasesNext
<1>3. Serving /\ Serving' /\ ~Asking /\ ~Quiet /\ ~Answering
  BY <1>1, <1>2 DEF OnePhase
<1> QED
  BY <1>1, <1>3, GoesOn

(* The interrupt handler.                                                  *)
LEMMA Interrupted ==
  ASSUME HInv, HInv', PInv, hd_handler
  PROVE  PInv'
<1>1. UNCHANGED <<hd, hd_info, part, fs, drive>>
  BY DEF hd_handler, taskvars
<1>2. OnePhase /\ OnePhase' /\ hd.at \in {"wait", "awake"}
  BY Phases, PhasesNext, HandlerWhen
<1>3. Serving /\ Serving' /\ ~Asking /\ ~Quiet /\ ~Answering
  BY <1>1, <1>2 DEF OnePhase
<1>4. drive'.at = "idle" \/ Moves
  BY <1>1 DEF Moves
<1> QED
  BY <1>1, <1>2, <1>3, <1>4, GoesOn

(* The drive, the panic of a wait for it, and no step at all.              *)
LEMMA DriveSteps ==
  ASSUME HInv, HInv', PInv, HdTimeout \/ Drive \/ UNCHANGED hdvars
  PROVE  PInv'
<1>1. UNCHANGED <<p_flags, p_recvfrom, p_sendto, q_sending, mem, hd, hd_info, part, fs>>
  BY DEF HdTimeout, Drive, DriveReady, DriveFlushed, hdvars, ipcvars, taskvars
<1>2. drive'.at = "idle" \/ Moves
  <2>1. DOMAIN drive = {"at", "op", "left", "lba"} /\ drive.left \in Nat
    BY DEF HInv, HdTypeOK
  <2>2. CASE HdTimeout \/ UNCHANGED hdvars
    <3>1. drive' = drive
      BY <2>2 DEF HdTimeout, hdvars, drivevars
    <3> QED
      BY <2>1, <3>1 DEF Moves
  <2>3. CASE DriveReady
    BY <2>1, <2>3 DEF DriveReady, DriveIdle, Moves
  <2>4. CASE DriveFlushed
    BY <2>1, <2>4 DEF DriveFlushed, Moves
  <2> QED
    BY <2>2, <2>3, <2>4 DEF Drive
<1>3. /\ Quiet' <=> Quiet
      /\ Asking' <=> Asking
      /\ Serving' <=> Serving
      /\ Answering' <=> Answering
  BY <1>1 DEF Quiet, Asking, Serving, Answering, IsRequest
<1> QED
  <2>1. hd'.msg = hd.msg /\ hd'.at = hd.at /\ mem' = mem /\ UNCHANGED <<hd_info, part, fs>>
    BY <1>1
  <2>2. hd.at = "reply" => hd'.at = "reply"
    BY <2>1
  <2> QED
    BY <1>2, <1>3, <2>1, <2>2, GoesOn

-----------------------------------------------------------------------------
(* The theorem about partitions.                                           *)

(* Every step keeps the driver's plan: each sector it has still to command *)
(* lies in the partition of the request it serves.                         *)
LEMMA NextPInv == HInv /\ HInv' /\ PInv /\ [HdNext]_hdvars => PInv'
<1> SUFFICES ASSUME HInv, HInv', PInv, [HdNext]_hdvars PROVE PInv'
  OBVIOUS
<1>1. CASE \E op \in {"OPEN", "IOCTL"} : FsSend(op, 0, 0)
  <2>1. PICK op \in {"OPEN", "IOCTL"} : FsSend(op, 0, 0)
    BY <1>1
  <2> QED
    BY <2>1, FsSendAsks
<1>2. CASE \E op \in {"READ", "WRITE"}, pos \in Positions, n \in Lens : FsSend(op, pos, n)
  <2>1. PICK op \in {"READ", "WRITE"}, pos \in Positions, n \in Lens : FsSend(op, pos, n)
    BY <1>2
  <2> QED
    BY <2>1, FsSendAsks
<1>3. CASE FsReceive \/ FsReturn
  BY <1>3, FsWaits
<1>4. CASE HdTask
  BY <1>4, HdReceives, HdCommands, InCommand, HdReplies, HdTellsGeometry, HdOpens,
     TableCommanded, HdReadsPrimary, HdReadsLogical DEF HdTask
<1>5. CASE HdInterruptLost \/ HdTimeout \/ Drive \/ hd_handler \/ UNCHANGED hdvars
  BY <1>5, InCommand, DriveSteps, Interrupted
<1> QED
  BY <1>1, <1>2, <1>3, <1>4, <1>5 DEF HdNext

(* InPartition: hd.c: hd_open(), partition() and get_part_table() find     *)
(* FS's partition where the disk has it, primary or logical, at any place  *)
(* in any chain of tables, and hd_ioctl() and hd_rdwt() use what they      *)
(* found: the sectors moved are those asked for, counted from the start of *)
(* FS's own partition, and so within it if the request is.                 *)
THEOREM OwnPartition == HdSpec => []InPartition
<1>1. HInv /\ PInv => InPartition
  <2> SUFFICES ASSUME HInv, PInv PROVE InPartition
    OBVIOUS
  <2>1. ASSUME hd.msg.op \notin {"none", "OPEN"} PROVE fs.geo = OnDisk(fs.dev)
    <3>1. hd.at \notin {"loop", "got"} /\ OnePhase
      BY <2>1, Phases DEF PInv, Asked
    <3>2. Serving /\ fs.did = hd.msg.op /\ IsRequest(hd.msg)
      BY <3>1 DEF PInv, Asked, OnePhase, Serving
    <3>3. CASE hd.msg.op = "IOCTL"
      <4>1. hd.at = "reply"
        BY <3>1, <3>3 DEF HInv, HdTypeOK, HdStates, Doing
      <4> QED
        BY <3>2, <3>3, <4>1 DEF PInv, Own, Carried
    <3>4. CASE hd.msg.op \in {"READ", "WRITE"}
      BY <3>2, <3>4 DEF PInv, Own
    <3> QED
      BY <2>1, <3>2, <3>3, <3>4 DEF IsRequest
  <2>2. ASSUME hd.msg.op \in {"READ", "WRITE"}, drive.at # "idle"
        PROVE  LET own == OnDisk(fs.dev)
                   m == hd.msg
               IN  /\ drive.lba + drive.left = own.base + m.pos + Sectors(CountReg(m.cnt))
                   /\ drive.left <= m.cnt
                   /\ m.pos + m.cnt <= own.size => Within(drive.lba, drive.left, own)
    <3> DEFINE own == OnDisk(fs.dev)
               d == Sectors(CountReg(hd.msg.cnt))
    <3>1. IsRequest(hd.msg)
      <4>1. Serving
        BY <2>2 DEF HInv, Conversation, PInv, Asked, Serving, Quiet, Asking, Answering
      <4>2. hd.at # "got"
        BY <2>2 DEF PInv, Asked
      <4> QED
        BY <4>1, <4>2 DEF Serving
    <3>2. hd.msg.pos \in Nat /\ hd.msg.cnt \in Nat \ {0} /\ drive.left \in Nat
      BY <2>2, <3>1, HdAssumption DEF IsRequest, HInv, HdTypeOK
    <3>3. d \in 1..hd.msg.cnt
      BY <3>2, RegisterCounts
    <3>4. own.base \in Nat /\ own.size \in Nat
      BY DiskAssumption DEF PInv, PartsTypeOK
    <3>5. drive.lba \in Nat /\ drive.left <= d /\ drive.lba + drive.left = own.base + hd.msg.pos + d
      BY <2>2 DEF PInv, Own
    <3> HIDE DEF own, d
    <3>6. drive.left <= hd.msg.cnt
      BY <3>2, <3>3, <3>5
    <3>7. hd.msg.pos + hd.msg.cnt <= own.size => Within(drive.lba, drive.left, own)
      BY <3>2, <3>3, <3>4, <3>5 DEF Within
    <3> QED
      BY <3>5, <3>6, <3>7 DEF own, d
  <2> QED
    BY <2>1, <2>2 DEF InPartition
<1>2. HdSpec => []PInv
  BY HdInvariance, InitPInv, NextPInv, PTL DEF HdSpec
<1> QED
  BY <1>1, <1>2, HdInvariance, PTL
=============================================================================
