----------------------------- MODULE IpcProofs -----------------------------
(***************************************************************************)
(* Proofs about the kernel's message passing, for any number of processes  *)
(* and any message types.                                                  *)
(***************************************************************************)
EXTENDS Ipc, Induction, FiniteSetTheorems, SequenceTheorems, TLAPS

-----------------------------------------------------------------------------
(* Unlinking the i-th sender (proc.c:463-472) removes that sender only.    *)
LEMMA UnlinkProperties ==
  ASSUME NEW S, NEW q \in Seq(S), NEW i \in 1..Len(q)
  PROVE  /\ Unlink(q, i) \in Seq(S)
         /\ Len(Unlink(q, i)) = Len(q) - 1
         /\ \A j \in 1..(Len(q) - 1) :
              Unlink(q, i)[j] = IF j < i THEN q[j] ELSE q[j + 1]
<1> DEFINE r == Unlink(q, i)
<1>1. Len(q) - 1 \in Nat
  OBVIOUS
<1>2. r = [j \in 1..(Len(q) - 1) |-> IF j < i THEN q[j] ELSE q[j + 1]]
  BY DEF Unlink
<1>3. \A j \in 1..(Len(q) - 1) : r[j] \in S
  BY <1>2
<1>4. r \in [1..(Len(q) - 1) -> S]
  BY <1>2, <1>3
<1>5. r \in Seq(S) /\ Len(r) = Len(q) - 1
  BY <1>1, <1>4
<1> QED
  BY <1>2, <1>5

(* After unlinking, a queue without duplicates holds the other senders,    *)
(* still without duplicates.                                               *)
LEMMA UnlinkRemoves ==
  ASSUME NEW S, NEW q \in Seq(S), NEW i \in 1..Len(q),
         \A j, k \in 1..Len(q) : q[j] = q[k] => j = k
  PROVE  LET r == Unlink(q, i) IN
         /\ \A x : (\E j \in 1..Len(r) : r[j] = x)
                     <=> (x # q[i] /\ \E j \in 1..Len(q) : q[j] = x)
         /\ \A j, k \in 1..Len(r) : r[j] = r[k] => j = k
<1> DEFINE r == Unlink(q, i)
<1>1. /\ Len(r) = Len(q) - 1
      /\ \A j \in 1..(Len(q) - 1) : r[j] = IF j < i THEN q[j] ELSE q[j + 1]
  BY UnlinkProperties
<1> HIDE DEF r
<1>2. ASSUME NEW x, NEW j \in 1..Len(r), r[j] = x
      PROVE  x # q[i] /\ \E k \in 1..Len(q) : q[k] = x
  <2>1. CASE j < i
    BY <1>1, <1>2, <2>1
  <2>2. CASE ~(j < i)
    <3>1. r[j] = q[j + 1] /\ j + 1 \in 1..Len(q) /\ j + 1 # i
      BY <1>1, <2>2
    <3> QED
      BY <1>2, <3>1
  <2> QED
    BY <2>1, <2>2
<1>3. ASSUME NEW x, x # q[i], NEW j \in 1..Len(q), q[j] = x
      PROVE  \E k \in 1..Len(r) : r[k] = x
  <2>1. CASE j < i
    BY <1>1, <1>3, <2>1
  <2>2. CASE ~(j < i)
    <3>1. j - 1 \in 1..Len(r) /\ ~(j - 1 < i)
      BY <1>1, <1>3, <2>2
    <3>2. r[j - 1] = q[j]
      BY <1>1, <3>1
    <3> QED
      BY <1>3, <3>1, <3>2
  <2> QED
    BY <2>1, <2>2
<1>4. ASSUME NEW j \in 1..Len(r), NEW k \in 1..Len(r), r[j] = r[k]
      PROVE  j = k
  BY <1>1, <1>4
<1> QED
  BY <1>2, <1>3, <1>4 DEF r

-----------------------------------------------------------------------------
(* Type correctness.                                                       *)

(* The table kernel_main() builds is well-typed.                           *)
LEMMA InitTypeOK == Init => TypeOK
BY PseudoProcAssumption DEF Init, TypeOK, Message, Source

(* The index a fetch uses lies in the queue, and names the wanted sender.  *)
LEMMA FetchIndexInQueue ==
  ASSUME TypeOK, QueueExact, NEW p \in Proc, NEW src \in Source, CopyOk(p, src)
  PROVE  /\ FetchIndex(p, src) \in 1..Len(q_sending[p])
         /\ src # ANY => q_sending[p][FetchIndex(p, src)] = src
<1>1. q_sending[p] \in Seq(Proc)
  BY DEF TypeOK
<1>2. CASE src = ANY
  BY <1>1, <1>2 DEF CopyOk, FetchIndex
<1>3. CASE src # ANY
  <2>1. \E i \in 1..Len(q_sending[p]) : q_sending[p][i] = src
    BY <1>3 DEF CopyOk, QueueExact
  <2> QED
    BY <1>3, <2>1 DEF FetchIndex
<1> QED
  BY <1>2, <1>3

(* Every system call and interrupt keeps it well-typed; QueueExact says that*)
(* the sender a RECEIVE fetches from is in the queue.                      *)
LEMMA StepTypeOK == TypeOK /\ QueueExact /\ [Next]_vars => TypeOK'
<1> SUFFICES ASSUME TypeOK, QueueExact, [Next]_vars PROVE TypeOK'
  OBVIOUS
<1> USE DEF TypeOK
<1>1. ASSUME NEW p \in Proc, NEW dest \in Proc, NEW t \in Type,
             SendDeadlock(p, dest, t)
      PROVE  TypeOK'
  BY <1>1 DEF SendDeadlock, Stamped, Message
<1>2. ASSUME NEW p \in Proc, NEW dest \in Proc, NEW t \in Type,
             SendDeliver(p, dest, t)
      PROVE  TypeOK'
  BY <1>2 DEF SendDeliver, Stamped, Message
<1>3. ASSUME NEW p \in Proc, NEW dest \in Proc, NEW t \in Type,
             SendBlock(p, dest, t)
      PROVE  TypeOK'
  <2>1. Append(q_sending[dest], p) \in Seq(Proc)
    OBVIOUS
  <2> QED
    BY <1>3, <2>1 DEF SendBlock, Stamped, Message
<1>4. ASSUME NEW p \in Proc, NEW src \in Source, ReceiveInterrupt(p, src)
      PROVE  TypeOK'
  BY <1>4 DEF ReceiveInterrupt, IntMessage, Message
<1>5. ASSUME NEW p \in Proc, NEW src \in Source, ReceiveFetch(p, src)
      PROVE  TypeOK'
  <2> DEFINE i == FetchIndex(p, src)
             from == q_sending[p][i]
  <2>1. i \in 1..Len(q_sending[p])
    BY <1>5, FetchIndexInQueue DEF ReceiveFetch
  <2>2. q_sending[p] \in Seq(Proc)
    OBVIOUS
  <2>3. from \in Proc
    BY <2>1, <2>2, ElementOfSeq
  <2>4. Unlink(q_sending[p], i) \in Seq(Proc)
    BY <2>1, <2>2, UnlinkProperties
  <2>5. /\ q_sending' = [q_sending EXCEPT ![p] = Unlink(@, i)]
        /\ mem' = [mem EXCEPT ![p] = mem[from]]
        /\ p_msg' = [p_msg EXCEPT ![from] = 0]
        /\ p_sendto' = [p_sendto EXCEPT ![from] = NO_TASK]
        /\ p_flags' = [p_flags EXCEPT ![from] = @ \ {SENDING}]
        /\ UNCHANGED <<p_recvfrom, has_int_msg, panic>>
    BY <1>5 DEF ReceiveFetch
  <2> HIDE DEF i, from
  <2> QED
    BY <2>3, <2>4, <2>5
<1>6. ASSUME NEW p \in Proc, NEW src \in Source, ReceiveBlock(p, src)
      PROVE  TypeOK'
  BY <1>6 DEF ReceiveBlock, Message
<1>7. ASSUME NEW p \in Proc, ReceiveStray(p)
      PROVE  TypeOK'
  BY <1>7 DEF ReceiveStray, Message
<1>8. ASSUME NEW t \in IrqTask, InformDeliver(t)
      PROVE  TypeOK'
  BY <1>8, IrqTaskAssumption DEF InformDeliver, IntMessage, Message
<1>9. ASSUME NEW t \in IrqTask, InformPend(t)
      PROVE  TypeOK'
  BY <1>9, IrqTaskAssumption DEF InformPend
<1>10. CASE UNCHANGED vars
  BY <1>10 DEF vars
<1> QED
  BY <1>1, <1>2, <1>3, <1>4, <1>5, <1>6, <1>7, <1>8, <1>9, <1>10
     DEF Next, SendStep, ReceiveStep, InformStep

-----------------------------------------------------------------------------
(* The inductive invariant.  QueueExact needs the fields of a process to   *)
(* agree (a sender is queued where p_sendto says), NoMissedRendezvous      *)
(* needs QueueExact (an empty queue means that nobody is sending), and     *)
(* type correctness needs it for the index a fetch uses.                   *)
IInv ==
  /\ TypeOK
  /\ BlockedStateAgrees
  /\ QueueExact
  /\ NoMissedRendezvous
  /\ NoPendingInterrupt
  /\ NoSendCycle

(* The table kernel_main() builds satisfies the inductive invariant.       *)
LEMMA InitIInv == Init => IInv
<1> SUFFICES ASSUME Init PROVE IInv
  OBVIOUS
<1>1. TypeOK
  BY InitTypeOK
<1>2. BlockedStateAgrees /\ QueueExact /\ NoMissedRendezvous /\ NoPendingInterrupt
  BY DEF Init, BlockedStateAgrees, QueueExact, NoMissedRendezvous,
         NoPendingInterrupt, Sending
<1>3. NoSendCycle
  BY DEF Init, NoSendCycle, Sending
<1> QED
  BY <1>1, <1>2, <1>3 DEF IInv

(* What a fetch does, in terms of the sender it takes the message from.    *)
Fetched(p, src, from) ==
  /\ from # p /\ src \in {ANY, from}
  /\ p_flags[from] = {SENDING} /\ p_sendto[from] = p /\ p_flags[p] = {}
  /\ \E i \in 1..Len(q_sending[p]) :
        /\ from = q_sending[p][i]
        /\ q_sending' = [q_sending EXCEPT ![p] = Unlink(@, i)]
  /\ mem' = [mem EXCEPT ![p] = mem[from]]
  /\ p_msg' = [p_msg EXCEPT ![from] = 0]
  /\ p_sendto' = [p_sendto EXCEPT ![from] = NO_TASK]
  /\ p_flags' = [p_flags EXCEPT ![from] = {}]
  /\ UNCHANGED <<p_recvfrom, has_int_msg, panic>>

(* What ReceiveFetch does: the fetched sender was blocked sending to p, loses*)
(* its SENDING flag and is unlinked.                                       *)
LEMMA FetchEffect ==
  ASSUME IInv, NEW p \in Proc, NEW src \in Source, ReceiveFetch(p, src)
  PROVE  \E from \in Proc : Fetched(p, src, from)
<1> USE DEF IInv
<1> DEFINE i == FetchIndex(p, src)
           from == q_sending[p][i]
<1>1. i \in 1..Len(q_sending[p]) /\ (src # ANY => from = src)
  BY FetchIndexInQueue DEF ReceiveFetch
<1>2. from \in Proc
  BY <1>1, ElementOfSeq DEF TypeOK
<1>3. Sending(from) /\ p_sendto[from] = p
  BY <1>1, <1>2 DEF QueueExact
<1>4. p_flags[p] = {}
  BY DEF ReceiveFetch, CanCall
<1>5. p_flags[from] = {SENDING} /\ from # p
  <2>1. p_flags[from] \in SUBSET {SENDING, RECEIVING}
    BY <1>2 DEF TypeOK
  <2>2. p_flags[from] # {SENDING, RECEIVING}
    BY <1>2 DEF BlockedStateAgrees
  <2> QED
    BY <1>3, <1>4, <2>1, <2>2 DEF Sending
<1>6. /\ q_sending' = [q_sending EXCEPT ![p] = Unlink(@, i)]
      /\ mem' = [mem EXCEPT ![p] = mem[from]]
      /\ p_msg' = [p_msg EXCEPT ![from] = 0]
      /\ p_sendto' = [p_sendto EXCEPT ![from] = NO_TASK]
      /\ p_flags' = [p_flags EXCEPT ![from] = @ \ {SENDING}]
      /\ UNCHANGED <<p_recvfrom, has_int_msg, panic>>
  BY DEF ReceiveFetch
<1> HIDE DEF i, from
<1>7. p_flags' = [p_flags EXCEPT ![from] = {}]
  BY <1>5, <1>6
<1> QED
  BY <1>1, <1>2, <1>3, <1>4, <1>5, <1>6, <1>7 DEF i, from, Fetched

(* What a send that finds its receiver waiting does.                       *)
LEMMA DeliverEffect ==
  ASSUME IInv, NEW p \in Proc, NEW dest \in Proc, NEW t \in Type,
         SendDeliver(p, dest, t)
  PROVE  /\ p_flags[dest] = {RECEIVING} /\ p_flags[p] = {}
         /\ p_flags' = [p_flags EXCEPT ![dest] = {}]
         /\ p_recvfrom' = [p_recvfrom EXCEPT ![dest] = NO_TASK]
         /\ p_msg' = [p_msg EXCEPT ![dest] = 0]
         /\ UNCHANGED <<p_sendto, q_sending, has_int_msg, panic>>
<1>1. p_flags[dest] = {RECEIVING}
  <2>1. RECEIVING \in p_flags[dest]
    BY DEF SendDeliver, Awaits
  <2>2. p_flags[dest] \in SUBSET {SENDING, RECEIVING}
    BY DEF IInv, TypeOK
  <2>3. p_flags[dest] # {SENDING, RECEIVING}
    BY DEF IInv, BlockedStateAgrees
  <2> QED
    BY <2>1, <2>2, <2>3
<1> QED
  BY <1>1 DEF SendDeliver, CanCall, IInv, TypeOK

(* What an interrupt that finds its task waiting does.                     *)
LEMMA InformEffect ==
  ASSUME IInv, NEW t \in Proc, InformDeliver(t)
  PROVE  /\ p_flags[t] = {RECEIVING}
         /\ p_flags' = [p_flags EXCEPT ![t] = {}]
         /\ p_recvfrom' = [p_recvfrom EXCEPT ![t] = NO_TASK]
         /\ p_msg' = [p_msg EXCEPT ![t] = 0]
         /\ has_int_msg' = [has_int_msg EXCEPT ![t] = 0]
         /\ UNCHANGED <<p_sendto, q_sending, panic>>
<1>1. p_flags[t] = {RECEIVING}
  <2>1. RECEIVING \in p_flags[t]
    BY DEF InformDeliver, Informs
  <2>2. p_flags[t] \in SUBSET {SENDING, RECEIVING}
    BY DEF IInv, TypeOK
  <2>3. p_flags[t] # {SENDING, RECEIVING}
    BY DEF IInv, BlockedStateAgrees
  <2> QED
    BY <2>1, <2>2, <2>3
<1> QED
  BY <1>1 DEF InformDeliver, IInv, TypeOK

-----------------------------------------------------------------------------
(* Each conjunct is preserved.                                             *)

(* The conjunct of BlockedStateAgrees about one process.                   *)
Agrees(p) ==
  /\ Sending(p) <=> p_sendto[p] # NO_TASK
  /\ RECEIVING \in p_flags[p] <=> p_recvfrom[p] # NO_TASK
  /\ p_flags[p] # {SENDING, RECEIVING}
  /\ p_msg[p] = 1 <=> p_flags[p] # {}

(* It stays true of a process whose fields do not change, of one that is   *)
(* unblocked, and of one that is blocked sending or receiving.             *)
LEMMA AgreesUnchanged ==
  ASSUME NEW p, Agrees(p), p_flags'[p] = p_flags[p], p_sendto'[p] = p_sendto[p],
         p_recvfrom'[p] = p_recvfrom[p], p_msg'[p] = p_msg[p]
  PROVE  Agrees(p)'
BY DEF Agrees, Sending

(* The fields of a process that is not blocked agree.                      *)
LEMMA AgreesUnblocked ==
  ASSUME NEW p, p_flags'[p] = {}, p_sendto'[p] = NO_TASK,
         p_recvfrom'[p] = NO_TASK, p_msg'[p] = 0
  PROVE  Agrees(p)'
BY DEF Agrees, Sending

(* The fields of a process that has just blocked in SEND agree.            *)
LEMMA AgreesSending ==
  ASSUME NEW p, p_flags'[p] = {SENDING}, p_sendto'[p] # NO_TASK,
         p_recvfrom'[p] = NO_TASK, p_msg'[p] = 1
  PROVE  Agrees(p)'
BY DEF Agrees, Sending, SENDING, RECEIVING

(* The fields of a process that has just blocked in RECEIVE agree.         *)
LEMMA AgreesReceiving ==
  ASSUME NEW p, p_flags'[p] = {RECEIVING}, p_sendto'[p] = NO_TASK,
         p_recvfrom'[p] # NO_TASK, p_msg'[p] = 1
  PROVE  Agrees(p)'
BY DEF Agrees, Sending, SENDING, RECEIVING

(* Every step keeps flags, p_recvfrom, p_sendto and p_msg in agreement.    *)
LEMMA StepBlockedState == IInv /\ [Next]_vars => BlockedStateAgrees'
<1> SUFFICES ASSUME IInv, [Next]_vars, NEW x \in Proc PROVE Agrees(x)'
  BY DEF BlockedStateAgrees, Agrees
<1>0. TypeOK /\ \A p \in Proc : Agrees(p)
  BY DEF IInv, BlockedStateAgrees, Agrees
<1> DEFINE Same == /\ p_flags'[x] = p_flags[x] /\ p_sendto'[x] = p_sendto[x]
                   /\ p_recvfrom'[x] = p_recvfrom[x] /\ p_msg'[x] = p_msg[x]
<1>s. Same => Agrees(x)'
  BY <1>0, AgreesUnchanged
<1>1. ASSUME NEW p \in Proc, NEW dest \in Proc, NEW t \in Type,
             SendDeadlock(p, dest, t)
      PROVE  Agrees(x)'
  BY <1>s, <1>1 DEF SendDeadlock
<1>2. ASSUME NEW p \in Proc, NEW dest \in Proc, NEW t \in Type,
             SendDeliver(p, dest, t)
      PROVE  Agrees(x)'
  <2>1. /\ p_flags[dest] = {RECEIVING}
        /\ p_flags' = [p_flags EXCEPT ![dest] = {}]
        /\ p_recvfrom' = [p_recvfrom EXCEPT ![dest] = NO_TASK]
        /\ p_msg' = [p_msg EXCEPT ![dest] = 0]
        /\ p_sendto' = p_sendto
    BY <1>2, DeliverEffect
  <2>2. CASE x = dest
    <3>1. p_sendto[x] = NO_TASK
      BY <1>0, <2>1, <2>2 DEF Agrees, Sending, SENDING, RECEIVING
    <3> QED
      BY <1>0, <2>1, <2>2, <3>1, AgreesUnblocked DEF TypeOK
  <2>3. CASE x # dest
    BY <1>0, <1>s, <2>1, <2>3 DEF TypeOK
  <2> QED
    BY <2>2, <2>3
<1>3. ASSUME NEW p \in Proc, NEW dest \in Proc, NEW t \in Type,
             SendBlock(p, dest, t)
      PROVE  Agrees(x)'
  <2>1. /\ p_flags[p] = {} /\ dest # NO_TASK
        /\ p_flags' = [p_flags EXCEPT ![p] = {SENDING}]
        /\ p_sendto' = [p_sendto EXCEPT ![p] = dest]
        /\ p_msg' = [p_msg EXCEPT ![p] = 1]
        /\ p_recvfrom' = p_recvfrom
    BY <1>0, <1>3, PseudoProcAssumption DEF SendBlock, CanCall, TypeOK
  <2>2. CASE x = p
    <3>1. p_recvfrom[x] = NO_TASK
      BY <1>0, <2>1, <2>2 DEF Agrees
    <3> QED
      BY <1>0, <2>1, <2>2, <3>1, AgreesSending DEF TypeOK
  <2>3. CASE x # p
    BY <1>0, <1>s, <2>1, <2>3 DEF TypeOK
  <2> QED
    BY <2>2, <2>3
<1>4. ASSUME NEW p \in Proc, NEW src \in Source, ReceiveInterrupt(p, src)
      PROVE  Agrees(x)'
  BY <1>s, <1>4 DEF ReceiveInterrupt
<1>5. ASSUME NEW p \in Proc, NEW src \in Source, ReceiveFetch(p, src)
      PROVE  Agrees(x)'
  <2>1. PICK from \in Proc : Fetched(p, src, from)
    BY <1>5, FetchEffect
  <2>2. /\ p_flags[from] = {SENDING}
        /\ p_msg' = [p_msg EXCEPT ![from] = 0]
        /\ p_sendto' = [p_sendto EXCEPT ![from] = NO_TASK]
        /\ p_flags' = [p_flags EXCEPT ![from] = {}]
        /\ p_recvfrom' = p_recvfrom
    BY <2>1 DEF Fetched
  <2>3. CASE x = from
    <3>1. p_recvfrom[x] = NO_TASK
      BY <1>0, <2>2, <2>3 DEF Agrees, SENDING, RECEIVING
    <3> QED
      BY <1>0, <2>2, <2>3, <3>1, AgreesUnblocked DEF TypeOK
  <2>4. CASE x # from
    BY <1>0, <1>s, <2>2, <2>4 DEF TypeOK
  <2> QED
    BY <2>3, <2>4
<1>6. ASSUME NEW p \in Proc, NEW src \in Source, ReceiveBlock(p, src)
      PROVE  Agrees(x)'
  <2>1. /\ p_flags[p] = {} /\ src # NO_TASK
        /\ p_flags' = [p_flags EXCEPT ![p] = {RECEIVING}]
        /\ p_recvfrom' = [p_recvfrom EXCEPT ![p] = src]
        /\ p_msg' = [p_msg EXCEPT ![p] = 1]
        /\ p_sendto' = p_sendto
    BY <1>0, <1>6, PseudoProcAssumption DEF ReceiveBlock, CanCall, TypeOK, Source
  <2>2. CASE x = p
    <3>1. p_sendto[x] = NO_TASK
      BY <1>0, <2>1, <2>2 DEF Agrees, Sending
    <3> QED
      BY <1>0, <2>1, <2>2, <3>1, AgreesReceiving DEF TypeOK
  <2>3. CASE x # p
    BY <1>0, <1>s, <2>1, <2>3 DEF TypeOK
  <2> QED
    BY <2>2, <2>3
<1>7. ASSUME NEW p \in Proc, ReceiveStray(p)
      PROVE  Agrees(x)'
  BY <1>s, <1>7 DEF ReceiveStray
<1>8. ASSUME NEW t \in IrqTask, InformDeliver(t)
      PROVE  Agrees(x)'
  <2>1. /\ t \in Proc /\ p_flags[t] = {RECEIVING}
        /\ p_flags' = [p_flags EXCEPT ![t] = {}]
        /\ p_recvfrom' = [p_recvfrom EXCEPT ![t] = NO_TASK]
        /\ p_msg' = [p_msg EXCEPT ![t] = 0]
        /\ p_sendto' = p_sendto
    BY <1>8, InformEffect, IrqTaskAssumption
  <2>2. CASE x = t
    <3>1. p_sendto[x] = NO_TASK
      BY <1>0, <2>1, <2>2 DEF Agrees, Sending, SENDING, RECEIVING
    <3> QED
      BY <1>0, <2>1, <2>2, <3>1, AgreesUnblocked DEF TypeOK
  <2>3. CASE x # t
    BY <1>0, <1>s, <2>1, <2>3 DEF TypeOK
  <2> QED
    BY <2>2, <2>3
<1>9. ASSUME NEW t \in IrqTask, InformPend(t)
      PROVE  Agrees(x)'
  BY <1>s, <1>9 DEF InformPend
<1>10. CASE UNCHANGED vars
  BY <1>s, <1>10 DEF vars
<1> QED
  BY <1>1, <1>2, <1>3, <1>4, <1>5, <1>6, <1>7, <1>8, <1>9, <1>10
     DEF Next, SendStep, ReceiveStep, InformStep

(* Linking a process at the tail of a queue adds it, once.                 *)
LEMMA AppendAdds ==
  ASSUME NEW S, NEW q \in Seq(S), NEW p \in S,
         \A i \in 1..Len(q) : q[i] # p,
         \A i, j \in 1..Len(q) : q[i] = q[j] => i = j
  PROVE  LET r == Append(q, p) IN
         /\ \A x : (\E i \in 1..Len(r) : r[i] = x)
                     <=> (x = p \/ \E i \in 1..Len(q) : q[i] = x)
         /\ \A i, j \in 1..Len(r) : r[i] = r[j] => i = j
<1> DEFINE r == Append(q, p)
<1>1. /\ Len(r) = Len(q) + 1 /\ r[Len(q) + 1] = p
      /\ \A i \in 1..Len(q) : r[i] = q[i]
      /\ Len(q) \in Nat
  OBVIOUS
<1> HIDE DEF r
<1>2. \A i, j \in 1..Len(r) : r[i] = r[j] => i = j
  BY <1>1
<1>3. \A x : (\E i \in 1..Len(r) : r[i] = x)
                <=> (x = p \/ \E i \in 1..Len(q) : q[i] = x)
  BY <1>1
<1> QED
  BY <1>2, <1>3 DEF r

(* The conjunct of QueueExact about one queue.                             *)
Lined(d) ==
  /\ \A p \in Proc : (Sending(p) /\ p_sendto[p] = d)
                       <=> \E i \in 1..Len(q_sending[d]) : q_sending[d][i] = p
  /\ \A i, j \in 1..Len(q_sending[d]) :
        q_sending[d][i] = q_sending[d][j] => i = j

(* A sender that blocks is linked into the queue of its destination alone. *)
LEMMA SenderJoins ==
  ASSUME QueueExact, q_sending \in [Proc -> Seq(Proc)],
         NEW p \in Proc, NEW dest \in Proc,
         ~Sending(p), Sending(p)', p_sendto'[p] = dest,
         \A x \in Proc \ {p} : /\ Sending(x)' <=> Sending(x)
                               /\ p_sendto'[x] = p_sendto[x],
         q_sending' = [q_sending EXCEPT ![dest] = Append(@, p)]
  PROVE  QueueExact'
<1>1. ASSUME NEW d \in Proc, d # dest PROVE Lined(d)'
  <2>1. q_sending'[d] = q_sending[d]
    BY <1>1
  <2>2. \A x \in Proc : (Sending(x)' /\ p_sendto'[x] = d)
                         <=> (Sending(x) /\ p_sendto[x] = d)
    BY <1>1
  <2>3. Lined(d)
    BY DEF QueueExact, Lined
  <2> QED
    BY <2>1, <2>2, <2>3 DEF Lined
<1>2. Lined(dest)'
  <2> DEFINE q == q_sending[dest]
             r == q_sending'[dest]
  <2>1. q \in Seq(Proc) /\ r = Append(q, p)
    OBVIOUS
  <2>2. \A i \in 1..Len(q) : q[i] # p
    BY DEF QueueExact
  <2>3. \A i, j \in 1..Len(q) : q[i] = q[j] => i = j
    BY DEF QueueExact
  <2>4. \A x \in Proc : (Sending(x) /\ p_sendto[x] = dest)
                         <=> \E i \in 1..Len(q) : q[i] = x
    BY DEF QueueExact
  <2> HIDE DEF q, r
  <2>a. LET u == Append(q, p) IN
        /\ \A x : (\E i \in 1..Len(u) : u[i] = x)
                    <=> (x = p \/ \E i \in 1..Len(q) : q[i] = x)
        /\ \A i, j \in 1..Len(u) : u[i] = u[j] => i = j
    BY <2>1, <2>2, <2>3, AppendAdds
  <2>5. /\ \A x : (\E i \in 1..Len(r) : r[i] = x)
                    <=> (x = p \/ \E i \in 1..Len(q) : q[i] = x)
        /\ \A i, j \in 1..Len(r) : r[i] = r[j] => i = j
    BY <2>1, <2>a
  <2>6. \A x \in Proc : (Sending(x)' /\ p_sendto'[x] = dest)
                         <=> (x = p \/ \E i \in 1..Len(q) : q[i] = x)
    BY <2>4
  <2>7. \A x \in Proc : (Sending(x)' /\ p_sendto'[x] = dest)
                         <=> \E i \in 1..Len(r) : r[i] = x
    BY <2>5, <2>6
  <2> QED
    BY <2>5, <2>7 DEF r, Lined
<1>3. \A d \in Proc : Lined(d)'
  BY <1>1, <1>2
<1> QED
  BY <1>3 DEF QueueExact, Lined

(* A sender that is fetched from leaves the queue it was in, and no other. *)
LEMMA SenderLeaves ==
  ASSUME QueueExact, q_sending \in [Proc -> Seq(Proc)],
         NEW p \in Proc, NEW from \in Proc, NEW i \in 1..Len(q_sending[p]),
         from = q_sending[p][i], p_sendto[from] = p,
         Sending(from), ~Sending(from)',
         \A x \in Proc \ {from} : /\ Sending(x)' <=> Sending(x)
                                  /\ p_sendto'[x] = p_sendto[x],
         q_sending' = [q_sending EXCEPT ![p] = Unlink(@, i)]
  PROVE  QueueExact'
<1>1. ASSUME NEW d \in Proc, d # p PROVE Lined(d)'
  <2>1. q_sending'[d] = q_sending[d]
    BY <1>1
  <2>2. \A x \in Proc : (Sending(x)' /\ p_sendto'[x] = d)
                         <=> (Sending(x) /\ p_sendto[x] = d)
    BY <1>1
  <2>3. Lined(d)
    BY DEF QueueExact, Lined
  <2> QED
    BY <2>1, <2>2, <2>3 DEF Lined
<1>2. Lined(p)'
  <2> DEFINE q == q_sending[p]
             r == q_sending'[p]
  <2>1. q \in Seq(Proc) /\ r = Unlink(q, i)
    OBVIOUS
  <2>2. \A k, j \in 1..Len(q) : q[k] = q[j] => k = j
    BY DEF QueueExact
  <2>3. \A x \in Proc : (Sending(x) /\ p_sendto[x] = p)
                         <=> \E k \in 1..Len(q) : q[k] = x
    BY DEF QueueExact
  <2>4. from = q[i] /\ i \in 1..Len(q)
    OBVIOUS
  <2> HIDE DEF q, r
  <2>a. LET u == Unlink(q, i) IN
        /\ \A x : (\E k \in 1..Len(u) : u[k] = x)
                    <=> (x # q[i] /\ \E k \in 1..Len(q) : q[k] = x)
        /\ \A j, k \in 1..Len(u) : u[j] = u[k] => j = k
    BY <2>1, <2>2, <2>4, UnlinkRemoves
  <2>5. /\ \A x : (\E k \in 1..Len(r) : r[k] = x)
                    <=> (x # from /\ \E k \in 1..Len(q) : q[k] = x)
        /\ \A k, j \in 1..Len(r) : r[k] = r[j] => k = j
    BY <2>1, <2>4, <2>a
  <2>6. \A x \in Proc : (Sending(x)' /\ p_sendto'[x] = p)
                         <=> (x # from /\ Sending(x) /\ p_sendto[x] = p)
    OBVIOUS
  <2>7. \A x \in Proc : (Sending(x)' /\ p_sendto'[x] = p)
                         <=> \E k \in 1..Len(r) : r[k] = x
    BY <2>3, <2>5, <2>6
  <2> QED
    BY <2>5, <2>7 DEF r, Lined
<1>3. \A d \in Proc : Lined(d)'
  BY <1>1, <1>2
<1> QED
  BY <1>3 DEF QueueExact, Lined

(* Only SendBlock and ReceiveFetch touch the queues or who is sending.     *)
LEMMA StepQueue == IInv /\ [Next]_vars => QueueExact'
<1> SUFFICES ASSUME IInv, [Next]_vars PROVE QueueExact'
  OBVIOUS
<1>0. QueueExact /\ BlockedStateAgrees /\ TypeOK
  BY DEF IInv
<1> DEFINE Quiet == /\ UNCHANGED <<p_sendto, q_sending>>
                    /\ \A p \in Proc : Sending(p)' <=> Sending(p)
<1>1. Quiet => QueueExact'
  BY <1>0 DEF QueueExact
<1>2. ASSUME NEW p \in Proc, NEW dest \in Proc, NEW t \in Type,
             SendDeadlock(p, dest, t)
      PROVE  QueueExact'
  BY <1>1, <1>2 DEF SendDeadlock, Sending
<1>3. ASSUME NEW p \in Proc, NEW dest \in Proc, NEW t \in Type,
             SendDeliver(p, dest, t)
      PROVE  QueueExact'
  <2>0. /\ p_flags[dest] = {RECEIVING}
        /\ p_flags' = [p_flags EXCEPT ![dest] = {}]
        /\ UNCHANGED <<p_sendto, q_sending>>
    BY <1>3, DeliverEffect
  <2>1. Quiet
    BY <1>0, <2>0 DEF Sending, TypeOK, SENDING, RECEIVING
  <2> QED
    BY <1>1, <2>1
<1>4. ASSUME NEW p \in Proc, NEW dest \in Proc, NEW t \in Type,
             SendBlock(p, dest, t)
      PROVE  QueueExact'
  <2>1. /\ ~Sending(p) /\ Sending(p)' /\ p_sendto'[p] = dest
        /\ \A x \in Proc \ {p} : /\ Sending(x)' <=> Sending(x)
                                 /\ p_sendto'[x] = p_sendto[x]
        /\ q_sending' = [q_sending EXCEPT ![dest] = Append(@, p)]
    BY <1>0, <1>4 DEF SendBlock, CanCall, Sending, TypeOK
  <2> QED
    BY <1>0, <2>1, SenderJoins DEF TypeOK
<1>5. ASSUME NEW p \in Proc, NEW src \in Source, ReceiveInterrupt(p, src)
      PROVE  QueueExact'
  BY <1>1, <1>5 DEF ReceiveInterrupt, Sending
<1>6. ASSUME NEW p \in Proc, NEW src \in Source, ReceiveFetch(p, src)
      PROVE  QueueExact'
  <2>a. PICK from \in Proc : Fetched(p, src, from)
    BY <1>6, FetchEffect
  <2>b. PICK i \in 1..Len(q_sending[p]) :
          /\ from = q_sending[p][i]
          /\ q_sending' = [q_sending EXCEPT ![p] = Unlink(@, i)]
    BY <2>a DEF Fetched
  <2>1. /\ from = q_sending[p][i]
        /\ p_flags[from] = {SENDING} /\ p_sendto[from] = p
        /\ q_sending' = [q_sending EXCEPT ![p] = Unlink(@, i)]
        /\ p_sendto' = [p_sendto EXCEPT ![from] = NO_TASK]
        /\ p_flags' = [p_flags EXCEPT ![from] = {}]
    BY <2>a, <2>b DEF Fetched
  <2>2. /\ Sending(from) /\ ~Sending(from)'
        /\ \A x \in Proc \ {from} : /\ Sending(x)' <=> Sending(x)
                                    /\ p_sendto'[x] = p_sendto[x]
    BY <1>0, <2>1 DEF Sending, TypeOK
  <2> QED
    BY <1>0, <2>1, <2>2, SenderLeaves DEF TypeOK
<1>7. ASSUME NEW p \in Proc, NEW src \in Source, ReceiveBlock(p, src)
      PROVE  QueueExact'
  <2>1. Quiet
    BY <1>0, <1>7 DEF ReceiveBlock, Sending, TypeOK, SENDING, RECEIVING
  <2> QED
    BY <1>1, <2>1
<1>8. ASSUME NEW p \in Proc, ReceiveStray(p)
      PROVE  QueueExact'
  BY <1>1, <1>8 DEF ReceiveStray, Sending
<1>9. ASSUME NEW t \in IrqTask, InformDeliver(t)
      PROVE  QueueExact'
  <2>0. /\ t \in Proc /\ p_flags[t] = {RECEIVING}
        /\ p_flags' = [p_flags EXCEPT ![t] = {}]
        /\ UNCHANGED <<p_sendto, q_sending>>
    BY <1>9, InformEffect, IrqTaskAssumption
  <2>1. Quiet
    BY <1>0, <2>0 DEF Sending, TypeOK, SENDING, RECEIVING
  <2> QED
    BY <1>1, <2>1
<1>10. ASSUME NEW t \in IrqTask, InformPend(t)
      PROVE  QueueExact'
  BY <1>1, <1>10 DEF InformPend, Sending
<1>11. CASE UNCHANGED vars
  BY <1>1, <1>11 DEF vars, Sending
<1> QED
  BY <1>2, <1>3, <1>4, <1>5, <1>6, <1>7, <1>8, <1>9, <1>10, <1>11
     DEF Next, SendStep, ReceiveStep, InformStep

(* A step after which nobody new is sending and nobody new is receiving    *)
(* cannot create a missed rendezvous.                                      *)
LEMMA FewerBlocked ==
  ASSUME NoMissedRendezvous,
         \A x \in Proc : Sending(x)' => Sending(x) /\ p_sendto'[x] = p_sendto[x],
         \A d \in Proc : RECEIVING \in p_flags'[d] =>
            RECEIVING \in p_flags[d] /\ p_recvfrom'[d] = p_recvfrom[d]
  PROVE  NoMissedRendezvous'
BY DEF NoMissedRendezvous, Awaits

(* No step leaves a sender and its destination waiting for each other.     *)
LEMMA StepRendezvous == IInv /\ [Next]_vars => NoMissedRendezvous'
<1> SUFFICES ASSUME IInv, [Next]_vars PROVE NoMissedRendezvous'
  OBVIOUS
<1>0. TypeOK /\ NoMissedRendezvous /\ QueueExact
  BY DEF IInv
<1> USE DEF SENDING, RECEIVING
<1>1. ASSUME NEW p \in Proc, NEW dest \in Proc, NEW t \in Type,
             SendDeadlock(p, dest, t)
      PROVE  NoMissedRendezvous'
  BY <1>0, <1>1, FewerBlocked DEF SendDeadlock, Sending
<1>2. ASSUME NEW p \in Proc, NEW dest \in Proc, NEW t \in Type,
             SendDeliver(p, dest, t)
      PROVE  NoMissedRendezvous'
  <2>1. /\ p_flags' = [p_flags EXCEPT ![dest] = {}]
        /\ p_recvfrom' = [p_recvfrom EXCEPT ![dest] = NO_TASK]
        /\ p_sendto' = p_sendto
    BY <1>2, DeliverEffect
  <2>2. /\ \A x \in Proc : Sending(x)' => Sending(x) /\ p_sendto'[x] = p_sendto[x]
        /\ \A d \in Proc : RECEIVING \in p_flags'[d] =>
             RECEIVING \in p_flags[d] /\ p_recvfrom'[d] = p_recvfrom[d]
    BY <1>0, <2>1 DEF Sending, TypeOK
  <2> QED
    BY <1>0, <2>2, FewerBlocked
<1>3. ASSUME NEW p \in Proc, NEW dest \in Proc, NEW t \in Type,
             SendBlock(p, dest, t)
      PROVE  NoMissedRendezvous'
  <2>1. /\ p_flags' = [p_flags EXCEPT ![p] = {SENDING}]
        /\ p_sendto' = [p_sendto EXCEPT ![p] = dest]
        /\ p_recvfrom' = p_recvfrom /\ ~Awaits(dest, p)
    BY <1>0, <1>3 DEF SendBlock, CanCall, TypeOK
  <2>2. \A d, x \in Proc : Awaits(d, x)' => Awaits(d, x)
    BY <1>0, <2>1 DEF Awaits, TypeOK
  <2>3. ASSUME NEW x \in Proc, NEW d \in Proc, Sending(x)', p_sendto'[x] = d
        PROVE  ~Awaits(d, x)
    <3>1. CASE x = p
      BY <1>0, <2>1, <2>3, <3>1 DEF TypeOK
    <3>2. CASE x # p
      BY <1>0, <2>1, <2>3, <3>2 DEF TypeOK, Sending, NoMissedRendezvous
    <3> QED
      BY <3>1, <3>2
  <2> QED
    BY <2>2, <2>3 DEF NoMissedRendezvous
<1>4. ASSUME NEW p \in Proc, NEW src \in Source, ReceiveInterrupt(p, src)
      PROVE  NoMissedRendezvous'
  BY <1>0, <1>4, FewerBlocked DEF ReceiveInterrupt, Sending
<1>5. ASSUME NEW p \in Proc, NEW src \in Source, ReceiveFetch(p, src)
      PROVE  NoMissedRendezvous'
  <2>1. PICK from \in Proc : Fetched(p, src, from)
    BY <1>5, FetchEffect
  <2>2. /\ p_sendto' = [p_sendto EXCEPT ![from] = NO_TASK]
        /\ p_flags' = [p_flags EXCEPT ![from] = {}]
        /\ p_recvfrom' = p_recvfrom
    BY <2>1 DEF Fetched
  <2>3. /\ \A x \in Proc : Sending(x)' => Sending(x) /\ p_sendto'[x] = p_sendto[x]
        /\ \A d \in Proc : RECEIVING \in p_flags'[d] =>
             RECEIVING \in p_flags[d] /\ p_recvfrom'[d] = p_recvfrom[d]
    BY <1>0, <2>2 DEF Sending, TypeOK
  <2> QED
    BY <1>0, <2>3, FewerBlocked
<1>6. ASSUME NEW p \in Proc, NEW src \in Source, ReceiveBlock(p, src)
      PROVE  NoMissedRendezvous'
  <2>1. /\ p_flags' = [p_flags EXCEPT ![p] = {RECEIVING}]
        /\ p_recvfrom' = [p_recvfrom EXCEPT ![p] = src]
        /\ p_sendto' = p_sendto /\ p_flags[p] = {} /\ ~CopyOk(p, src)
    BY <1>0, <1>6 DEF ReceiveBlock, CanCall, TypeOK
  <2>2. \A x \in Proc : Sending(x)' => Sending(x)
    BY <1>0, <2>1 DEF Sending, TypeOK
  <2>3. ASSUME NEW x \in Proc, Sending(x), p_sendto[x] = p
        PROVE  ~Awaits(p, x)'
    <3>1. \E i \in 1..Len(q_sending[p]) : q_sending[p][i] = x
      BY <1>0, <2>3 DEF QueueExact
    <3>2. src # ANY
      <4>1. q_sending[p] # << >>
        BY <3>1
      <4> QED
        BY <2>1, <4>1 DEF CopyOk
    <3>3. src # x
      BY <2>1, <2>3, <3>2 DEF CopyOk
    <3>4. p_recvfrom'[p] = src
      BY <1>0, <2>1 DEF TypeOK
    <3> QED
      BY <3>2, <3>3, <3>4 DEF Awaits
  <2>4. ASSUME NEW x \in Proc, NEW d \in Proc, d # p, Sending(x), p_sendto[x] = d
        PROVE  ~Awaits(d, x)'
    <3>1. ~Awaits(d, x)
      BY <1>0, <2>4 DEF NoMissedRendezvous
    <3> QED
      BY <1>0, <2>1, <2>4, <3>1 DEF Awaits, TypeOK
  <2> QED
    BY <2>1, <2>2, <2>3, <2>4 DEF NoMissedRendezvous
<1>7. ASSUME NEW p \in Proc, ReceiveStray(p)
      PROVE  NoMissedRendezvous'
  BY <1>0, <1>7, FewerBlocked DEF ReceiveStray, Sending
<1>8. ASSUME NEW t \in IrqTask, InformDeliver(t)
      PROVE  NoMissedRendezvous'
  <2>1. /\ t \in Proc
        /\ p_flags' = [p_flags EXCEPT ![t] = {}]
        /\ p_recvfrom' = [p_recvfrom EXCEPT ![t] = NO_TASK]
        /\ p_sendto' = p_sendto
    BY <1>8, InformEffect, IrqTaskAssumption
  <2>2. /\ \A x \in Proc : Sending(x)' => Sending(x) /\ p_sendto'[x] = p_sendto[x]
        /\ \A d \in Proc : RECEIVING \in p_flags'[d] =>
             RECEIVING \in p_flags[d] /\ p_recvfrom'[d] = p_recvfrom[d]
    BY <1>0, <2>1 DEF Sending, TypeOK
  <2> QED
    BY <1>0, <2>2, FewerBlocked
<1>9. ASSUME NEW t \in IrqTask, InformPend(t)
      PROVE  NoMissedRendezvous'
  BY <1>0, <1>9, FewerBlocked DEF InformPend, Sending
<1>10. CASE UNCHANGED vars
  BY <1>0, <1>10, FewerBlocked DEF vars, Sending
<1> QED
  BY <1>1, <1>2, <1>3, <1>4, <1>5, <1>6, <1>7, <1>8, <1>9, <1>10
     DEF Next, SendStep, ReceiveStep, InformStep

(* No step blocks a task for an interrupt that is already pending.         *)
LEMMA StepPendingInterrupt == IInv /\ [Next]_vars => NoPendingInterrupt'
<1> SUFFICES ASSUME IInv, [Next]_vars, NEW x \in Proc, has_int_msg'[x] = 1
             PROVE  ~Informs(x)'
  BY DEF NoPendingInterrupt
<1>0. TypeOK /\ (has_int_msg[x] = 1 => ~Informs(x))
  BY DEF IInv, NoPendingInterrupt
<1> USE DEF SENDING, RECEIVING
<1>1. ASSUME NEW p \in Proc, NEW dest \in Proc, NEW t \in Type,
             SendDeadlock(p, dest, t)
      PROVE  ~Informs(x)'
  BY <1>0, <1>1 DEF SendDeadlock, Informs
<1>2. ASSUME NEW p \in Proc, NEW dest \in Proc, NEW t \in Type,
             SendDeliver(p, dest, t)
      PROVE  ~Informs(x)'
  <2>1. /\ p_flags' = [p_flags EXCEPT ![dest] = {}]
        /\ p_recvfrom' = [p_recvfrom EXCEPT ![dest] = NO_TASK]
        /\ has_int_msg' = has_int_msg
    BY <1>2, DeliverEffect
  <2> QED
    BY <1>0, <2>1 DEF Informs, TypeOK
<1>3. ASSUME NEW p \in Proc, NEW dest \in Proc, NEW t \in Type,
             SendBlock(p, dest, t)
      PROVE  ~Informs(x)'
  BY <1>0, <1>3 DEF SendBlock, Informs, TypeOK
<1>4. ASSUME NEW p \in Proc, NEW src \in Source, ReceiveInterrupt(p, src)
      PROVE  ~Informs(x)'
  BY <1>0, <1>4 DEF ReceiveInterrupt, Informs, TypeOK
<1>5. ASSUME NEW p \in Proc, NEW src \in Source, ReceiveFetch(p, src)
      PROVE  ~Informs(x)'
  <2>1. PICK from \in Proc : Fetched(p, src, from)
    BY <1>5, FetchEffect
  <2>2. /\ p_flags' = [p_flags EXCEPT ![from] = {}]
        /\ UNCHANGED <<p_recvfrom, has_int_msg>>
    BY <2>1 DEF Fetched
  <2> QED
    BY <1>0, <2>2 DEF Informs, TypeOK
<1>6. ASSUME NEW p \in Proc, NEW src \in Source, ReceiveBlock(p, src)
      PROVE  ~Informs(x)'
  <2>1. /\ p_flags' = [p_flags EXCEPT ![p] = @ \cup {RECEIVING}]
        /\ p_recvfrom' = [p_recvfrom EXCEPT ![p] = src]
        /\ has_int_msg' = has_int_msg /\ ~TakesInt(p, src)
    BY <1>6 DEF ReceiveBlock
  <2>2. CASE x = p
    BY <1>0, <2>1, <2>2 DEF Informs, TakesInt, TypeOK
  <2>3. CASE x # p
    BY <1>0, <2>1, <2>3 DEF Informs, TypeOK
  <2> QED
    BY <2>2, <2>3
<1>7. ASSUME NEW p \in Proc, ReceiveStray(p)
      PROVE  ~Informs(x)'
  BY <1>0, <1>7 DEF ReceiveStray, Informs
<1>8. ASSUME NEW t \in IrqTask, InformDeliver(t)
      PROVE  ~Informs(x)'
  <2>1. /\ p_flags' = [p_flags EXCEPT ![t] = {}]
        /\ p_recvfrom' = [p_recvfrom EXCEPT ![t] = NO_TASK]
        /\ has_int_msg' = [has_int_msg EXCEPT ![t] = 0]
    BY <1>8, InformEffect, IrqTaskAssumption
  <2> QED
    BY <1>0, <2>1 DEF Informs, TypeOK
<1>9. ASSUME NEW t \in IrqTask, InformPend(t)
      PROVE  ~Informs(x)'
  BY <1>0, <1>9 DEF InformPend, Informs, TypeOK
<1>10. CASE UNCHANGED vars
  BY <1>0, <1>10 DEF vars, Informs
<1> QED
  BY <1>1, <1>2, <1>3, <1>4, <1>5, <1>6, <1>7, <1>8, <1>9, <1>10
     DEF Next, SendStep, ReceiveStep, InformStep

(* A step after which nobody new is sending cannot close a cycle.          *)
LEMMA FewerSenders ==
  ASSUME NoSendCycle,
         \A x \in Proc : Sending(x)' => Sending(x) /\ p_sendto'[x] = p_sendto[x]
  PROVE  NoSendCycle'
BY DEF NoSendCycle

(* A new edge p -> dest closes no cycle if deadlock(p, dest) says so: from *)
(* a cycle S through p, the part that the walk from dest can visit, without*)
(* p, would have been a cycle before.                                      *)
LEMMA NewEdge ==
  ASSUME NoSendCycle, NEW p \in Proc, NEW dest \in Proc, p # dest,
         ~deadlock(p, dest), ~Sending(p),
         p_sendto'[p] = dest,
         \A x \in Proc \ {p} : /\ Sending(x)' <=> Sending(x)
                              /\ p_sendto'[x] = p_sendto[x]
  PROVE  NoSendCycle'
<1> SUFFICES ASSUME NEW S \in SUBSET Proc, S # {},
                    \A x \in S : Sending(x)' /\ p_sendto'[x] \in S
             PROVE  FALSE
  BY DEF NoSendCycle
<1>1. CASE p \notin S
  BY <1>1 DEF NoSendCycle
<1>2. CASE p \in S
  <2>1. PICK T \in SUBSET Proc :
          /\ dest \in T /\ ChainClosed(T)
          /\ ~\E t \in T : Sending(t) /\ p_sendto[t] = p
    BY DEF deadlock
  <2> DEFINE U == (S \cap T) \ {p}
  <2>2. U \in SUBSET Proc
    OBVIOUS
  <2>3. dest \in U
    BY <1>2, <2>1
  <2>4. ASSUME NEW x \in U PROVE Sending(x) /\ p_sendto[x] \in U
    <3>1. x \in S /\ x \in T /\ x \in Proc \ {p}
      BY <2>2
    <3>2. Sending(x) /\ p_sendto[x] \in S
      BY <3>1
    <3>3. p_sendto[x] \in T
      BY <2>1, <3>1, <3>2 DEF ChainClosed
    <3>4. p_sendto[x] # p
      BY <2>1, <3>1, <3>2
    <3> QED
      BY <3>2, <3>3, <3>4
  <2> HIDE DEF U
  <2> QED
    BY <2>2, <2>3, <2>4 DEF NoSendCycle
<1> QED
  BY <1>1, <1>2

(* No step closes a cycle of senders: SendBlock runs only after deadlock().*)
LEMMA StepNoSendCycle == IInv /\ [Next]_vars => NoSendCycle'
<1> SUFFICES ASSUME IInv, [Next]_vars PROVE NoSendCycle'
  OBVIOUS
<1>0. TypeOK /\ NoSendCycle
  BY DEF IInv
<1> USE DEF SENDING, RECEIVING
<1>1. ASSUME NEW p \in Proc, NEW dest \in Proc, NEW t \in Type,
             SendDeadlock(p, dest, t)
      PROVE  NoSendCycle'
  BY <1>0, <1>1, FewerSenders DEF SendDeadlock, Sending
<1>2. ASSUME NEW p \in Proc, NEW dest \in Proc, NEW t \in Type,
             SendDeliver(p, dest, t)
      PROVE  NoSendCycle'
  <2>1. p_flags' = [p_flags EXCEPT ![dest] = {}] /\ p_sendto' = p_sendto
    BY <1>2, DeliverEffect
  <2>2. \A x \in Proc : Sending(x)' => Sending(x) /\ p_sendto'[x] = p_sendto[x]
    BY <1>0, <2>1 DEF Sending, TypeOK
  <2> QED
    BY <1>0, <2>2, FewerSenders
<1>3. ASSUME NEW p \in Proc, NEW dest \in Proc, NEW t \in Type,
             SendBlock(p, dest, t)
      PROVE  NoSendCycle'
  <2>1. /\ p_flags' = [p_flags EXCEPT ![p] = {SENDING}] /\ p_flags[p] = {}
        /\ p_sendto' = [p_sendto EXCEPT ![p] = dest]
        /\ p # dest /\ ~deadlock(p, dest)
    BY <1>0, <1>3 DEF SendBlock, CanCall, TypeOK
  <2>2. /\ ~Sending(p) /\ p_sendto'[p] = dest
        /\ \A x \in Proc \ {p} : /\ Sending(x)' <=> Sending(x)
                                 /\ p_sendto'[x] = p_sendto[x]
    BY <1>0, <2>1 DEF Sending, TypeOK
  <2> QED
    BY <1>0, <2>1, <2>2, NewEdge
<1>4. ASSUME NEW p \in Proc, NEW src \in Source, ReceiveInterrupt(p, src)
      PROVE  NoSendCycle'
  BY <1>0, <1>4, FewerSenders DEF ReceiveInterrupt, Sending
<1>5. ASSUME NEW p \in Proc, NEW src \in Source, ReceiveFetch(p, src)
      PROVE  NoSendCycle'
  <2>1. PICK from \in Proc : Fetched(p, src, from)
    BY <1>5, FetchEffect
  <2>2. /\ p_sendto' = [p_sendto EXCEPT ![from] = NO_TASK]
        /\ p_flags' = [p_flags EXCEPT ![from] = {}]
    BY <2>1 DEF Fetched
  <2>3. \A x \in Proc : Sending(x)' => Sending(x) /\ p_sendto'[x] = p_sendto[x]
    BY <1>0, <2>2 DEF Sending, TypeOK
  <2> QED
    BY <1>0, <2>3, FewerSenders
<1>6. ASSUME NEW p \in Proc, NEW src \in Source, ReceiveBlock(p, src)
      PROVE  NoSendCycle'
  <2>1. /\ p_flags' = [p_flags EXCEPT ![p] = {RECEIVING}]
        /\ p_sendto' = p_sendto
    BY <1>0, <1>6 DEF ReceiveBlock, CanCall, TypeOK
  <2>2. \A x \in Proc : Sending(x)' => Sending(x) /\ p_sendto'[x] = p_sendto[x]
    BY <1>0, <2>1 DEF Sending, TypeOK
  <2> QED
    BY <1>0, <2>2, FewerSenders
<1>7. ASSUME NEW p \in Proc, ReceiveStray(p)
      PROVE  NoSendCycle'
  BY <1>0, <1>7, FewerSenders DEF ReceiveStray, Sending
<1>8. ASSUME NEW t \in IrqTask, InformDeliver(t)
      PROVE  NoSendCycle'
  <2>1. /\ t \in Proc /\ p_sendto' = p_sendto
        /\ p_flags' = [p_flags EXCEPT ![t] = {}]
    BY <1>8, InformEffect, IrqTaskAssumption
  <2>2. \A x \in Proc : Sending(x)' => Sending(x) /\ p_sendto'[x] = p_sendto[x]
    BY <1>0, <2>1 DEF Sending, TypeOK
  <2> QED
    BY <1>0, <2>2, FewerSenders
<1>9. ASSUME NEW t \in IrqTask, InformPend(t)
      PROVE  NoSendCycle'
  BY <1>0, <1>9, FewerSenders DEF InformPend, Sending
<1>10. CASE UNCHANGED vars
  BY <1>0, <1>10, FewerSenders DEF vars, Sending
<1> QED
  BY <1>1, <1>2, <1>3, <1>4, <1>5, <1>6, <1>7, <1>8, <1>9, <1>10
     DEF Next, SendStep, ReceiveStep, InformStep

-----------------------------------------------------------------------------
(* The theorems.                                                           *)

(* Every step keeps the inductive invariant.                               *)
LEMMA StepIInv == IInv /\ [Next]_vars => IInv'
BY StepTypeOK, StepBlockedState, StepQueue, StepRendezvous,
   StepPendingInterrupt, StepNoSendCycle DEF IInv

(* The inductive invariant holds in every state of the message passing.    *)
THEOREM Invariance == Spec => []IInv
<1>1. Init => IInv
  BY InitIInv
<1>2. IInv /\ [Next]_vars => IInv'
  BY StepIInv
<1> QED
  BY <1>1, <1>2, PTL DEF Spec

(* Every field of the process table keeps its type.                        *)
THEOREM TypeCorrect == Spec => []TypeOK
<1>1. IInv => TypeOK
  BY DEF IInv
<1> QED
  BY <1>1, Invariance, PTL

(* What proc.c asserts of blocked processes holds whenever a system call   *)
(* starts, for any number of processes.                                    *)
THEOREM BlockedStateCorrect == Spec => []BlockedStateAgrees
<1>1. IInv => BlockedStateAgrees
  BY DEF IInv
<1> QED
  BY <1>1, Invariance, PTL

(* The sending queues hold exactly the blocked senders, each once.         *)
THEOREM QueuesCorrect == Spec => []QueueExact
<1>1. IInv => QueueExact
  BY DEF IInv
<1> QED
  BY <1>1, Invariance, PTL

(* No sender and receiver ever wait for each other.                        *)
THEOREM RendezvousNotMissed == Spec => []NoMissedRendezvous
<1>1. IInv => NoMissedRendezvous
  BY DEF IInv
<1> QED
  BY <1>1, Invariance, PTL

(* No task sleeps on an interrupt that has already come.                   *)
THEOREM InterruptNotMissed == Spec => []NoPendingInterrupt
<1>1. IInv => NoPendingInterrupt
  BY DEF IInv
<1> QED
  BY <1>1, Invariance, PTL

(* The check of deadlock() before each send keeps the messaging graph      *)
(* acyclic, for any number of processes, so no walk along it runs in a     *)
(* circle.                                                                 *)
THEOREM MessagingGraphAcyclic == Spec => []NoSendCycle
<1>1. IInv => NoSendCycle
  BY DEF IInv
<1> QED
  BY <1>1, Invariance, PTL

-----------------------------------------------------------------------------
(* Action properties.                                                      *)

(* What every step does to those it releases.                              *)
LEMMA StepDelivers == IInv /\ [Next]_vars => RendezvousStep
<1> SUFFICES ASSUME IInv, [Next]_vars, NEW x \in Proc
             PROVE  /\ Sending(x) /\ p_flags'[x] = {} =>
                          mem'[p_sendto[x]] = mem[x]
                    /\ RECEIVING \in p_flags[x] /\ p_flags'[x] = {} =>
                          \/ mem'[x].source \in Proc /\ p_recvfrom[x] \in {ANY, mem'[x].source}
                          \/ mem'[x].source = INTERRUPT /\ p_recvfrom[x] \in {ANY, INTERRUPT}
  BY DEF RendezvousStep
<1>0. TypeOK
  BY DEF IInv
<1> DEFINE Kept == p_flags'[x] = p_flags[x] \/ p_flags'[x] # {}
           Goal == /\ Sending(x) /\ p_flags'[x] = {} =>
                          mem'[p_sendto[x]] = mem[x]
                   /\ RECEIVING \in p_flags[x] /\ p_flags'[x] = {} =>
                          \/ mem'[x].source \in Proc /\ p_recvfrom[x] \in {ANY, mem'[x].source}
                          \/ mem'[x].source = INTERRUPT /\ p_recvfrom[x] \in {ANY, INTERRUPT}
<1>k. Kept => Goal
  BY DEF Sending
<1> USE DEF SENDING, RECEIVING
<1>1. ASSUME NEW p \in Proc, NEW dest \in Proc, NEW t \in Type,
             SendDeadlock(p, dest, t)
      PROVE  Goal
  BY <1>k, <1>1 DEF SendDeadlock
<1>2. ASSUME NEW p \in Proc, NEW dest \in Proc, NEW t \in Type,
             SendDeliver(p, dest, t)
      PROVE  Goal
  <2>1. /\ p_flags[dest] = {RECEIVING}
        /\ p_flags' = [p_flags EXCEPT ![dest] = {}]
    BY <1>2, DeliverEffect
  <2>2. p_recvfrom[dest] \in {p, ANY} /\ mem'[dest] = Stamped(p, t)
    BY <1>0, <1>2 DEF SendDeliver, Awaits, TypeOK
  <2>3. CASE x = dest
    BY <2>1, <2>2, <2>3 DEF Sending, Stamped
  <2>4. CASE x # dest
    BY <1>0, <1>k, <2>1, <2>4 DEF TypeOK
  <2> QED
    BY <2>3, <2>4
<1>3. ASSUME NEW p \in Proc, NEW dest \in Proc, NEW t \in Type,
             SendBlock(p, dest, t)
      PROVE  Goal
  <2>1. p_flags' = [p_flags EXCEPT ![p] = @ \cup {SENDING}]
    BY <1>3 DEF SendBlock
  <2> QED
    BY <1>0, <1>k, <2>1 DEF TypeOK
<1>4. ASSUME NEW p \in Proc, NEW src \in Source, ReceiveInterrupt(p, src)
      PROVE  Goal
  BY <1>k, <1>4 DEF ReceiveInterrupt
<1>5. ASSUME NEW p \in Proc, NEW src \in Source, ReceiveFetch(p, src)
      PROVE  Goal
  <2>1. PICK from \in Proc : Fetched(p, src, from)
    BY <1>5, FetchEffect
  <2>2. /\ p_flags[from] = {SENDING} /\ p_sendto[from] = p
        /\ p_flags' = [p_flags EXCEPT ![from] = {}]
        /\ mem' = [mem EXCEPT ![p] = mem[from]]
    BY <2>1 DEF Fetched
  <2>3. CASE x = from
    BY <1>0, <2>2, <2>3 DEF TypeOK, Sending
  <2>4. CASE x # from
    BY <1>0, <1>k, <2>2, <2>4 DEF TypeOK
  <2> QED
    BY <2>3, <2>4
<1>6. ASSUME NEW p \in Proc, NEW src \in Source, ReceiveBlock(p, src)
      PROVE  Goal
  <2>1. p_flags' = [p_flags EXCEPT ![p] = @ \cup {RECEIVING}]
    BY <1>6 DEF ReceiveBlock
  <2> QED
    BY <1>0, <1>k, <2>1 DEF TypeOK
<1>7. ASSUME NEW p \in Proc, ReceiveStray(p)
      PROVE  Goal
  BY <1>k, <1>7 DEF ReceiveStray
<1>8. ASSUME NEW t \in IrqTask, InformDeliver(t)
      PROVE  Goal
  <2>1. /\ t \in Proc /\ p_flags[t] = {RECEIVING}
        /\ p_flags' = [p_flags EXCEPT ![t] = {}]
    BY <1>8, InformEffect, IrqTaskAssumption
  <2>2. p_recvfrom[t] \in {INTERRUPT, ANY} /\ mem'[t] = IntMessage
    BY <1>0, <1>8, <2>1 DEF InformDeliver, Informs, TypeOK
  <2>3. CASE x = t
    BY <2>1, <2>2, <2>3 DEF Sending, IntMessage
  <2>4. CASE x # t
    BY <1>0, <1>k, <2>1, <2>4 DEF TypeOK
  <2> QED
    BY <2>3, <2>4
<1>9. ASSUME NEW t \in IrqTask, InformPend(t)
      PROVE  Goal
  BY <1>k, <1>9 DEF InformPend
<1>10. CASE UNCHANGED vars
  BY <1>k, <1>10 DEF vars
<1> QED
  BY <1>1, <1>2, <1>3, <1>4, <1>5, <1>6, <1>7, <1>8, <1>9, <1>10
     DEF Next, SendStep, ReceiveStep, InformStep

(* Every message is delivered as it was sent and to a process that accepts *)
(* it, and its sender is blocked until then.                               *)
THEOREM RendezvousCorrect == Spec => Rendezvous
<1>1. IInv /\ [Next]_vars => [RendezvousStep]_vars
  BY StepDelivers
<1> QED
  BY <1>1, Invariance, PTL DEF Spec, Rendezvous

(* In a queue without duplicates the order of the senders that stay is     *)
(* their order before the unlinking, or before the appending.              *)
LEMMA UnlinkKeepsOrder ==
  ASSUME NEW S, NEW q \in Seq(S), NEW n \in 1..Len(q),
         \A j, k \in 1..Len(q) : q[j] = q[k] => j = k,
         NEW i \in 1..Len(q), NEW j \in 1..Len(q), i < j,
         NEW k \in 1..Len(Unlink(q, n)), NEW l \in 1..Len(Unlink(q, n)),
         Unlink(q, n)[k] = q[i], Unlink(q, n)[l] = q[j]
  PROVE  k < l
<1> DEFINE r == Unlink(q, n)
<1>1. /\ Len(r) = Len(q) - 1
      /\ \A m \in 1..(Len(q) - 1) : r[m] = IF m < n THEN q[m] ELSE q[m + 1]
  BY UnlinkProperties
<1>2. Len(q) \in Nat
  OBVIOUS
<1>3. k = i \/ k + 1 = i
  BY <1>1, <1>2
<1>4. l = j \/ l + 1 = j
  BY <1>1, <1>2
<1>5. k < n => k = i
  BY <1>1, <1>2
<1>6. ~(k < n) => k + 1 = i
  BY <1>1, <1>2
<1>7. l < n => l = j
  BY <1>1, <1>2
<1>8. ~(l < n) => l + 1 = j
  BY <1>1, <1>2
<1> QED
  BY <1>2, <1>5, <1>6, <1>7, <1>8

(* Appending a process that is not in the queue keeps the others' order.   *)
LEMMA AppendKeepsOrder ==
  ASSUME NEW S, NEW q \in Seq(S), NEW e \in S,
         \A j \in 1..Len(q) : q[j] # e,
         \A j, k \in 1..Len(q) : q[j] = q[k] => j = k,
         NEW i \in 1..Len(q), NEW j \in 1..Len(q), i < j,
         NEW k \in 1..Len(Append(q, e)), NEW l \in 1..Len(Append(q, e)),
         Append(q, e)[k] = q[i], Append(q, e)[l] = q[j]
  PROVE  k < l
<1> DEFINE r == Append(q, e)
<1>1. /\ Len(r) = Len(q) + 1 /\ r[Len(q) + 1] = e
      /\ \A m \in 1..Len(q) : r[m] = q[m]
      /\ Len(q) \in Nat
  OBVIOUS
<1>2. k \in 1..(Len(q) + 1) /\ l \in 1..(Len(q) + 1) /\ r[k] = q[i] /\ r[l] = q[j]
  BY <1>1
<1> HIDE DEF r
<1>3. k = i
  <2>1. k \in 1..Len(q)
    BY <1>1, <1>2
  <2> QED
    BY <1>1, <1>2, <2>1
<1>4. l = j
  <2>1. l \in 1..Len(q)
    BY <1>1, <1>2
  <2> QED
    BY <1>1, <1>2, <2>1
<1> QED
  BY <1>3, <1>4

(* No step lets one blocked sender overtake another.                       *)
LEMMA StepFifo == IInv /\ [Next]_vars => FifoStep
<1> SUFFICES ASSUME IInv, [Next]_vars, NEW d \in Proc,
                    NEW i \in 1..Len(q_sending[d]), NEW j \in 1..Len(q_sending[d]),
                    NEW k \in 1..Len(q_sending'[d]), NEW l \in 1..Len(q_sending'[d]),
                    i < j, q_sending'[d][k] = q_sending[d][i],
                    q_sending'[d][l] = q_sending[d][j]
             PROVE  k < l
  BY DEF FifoStep
<1>0. /\ q_sending[d] \in Seq(Proc) /\ q_sending \in [Proc -> Seq(Proc)]
      /\ \A m, n \in 1..Len(q_sending[d]) : q_sending[d][m] = q_sending[d][n] => m = n
  BY DEF IInv, TypeOK, QueueExact
<1>s. q_sending'[d] = q_sending[d] => k < l
  BY <1>0
<1>1. ASSUME NEW p \in Proc, NEW dest \in Proc, NEW t \in Type,
             SendStep(p, dest, t)
      PROVE  k < l
  <2>1. CASE SendDeadlock(p, dest, t) \/ SendDeliver(p, dest, t)
    BY <1>s, <2>1 DEF SendDeadlock, SendDeliver
  <2>2. CASE SendBlock(p, dest, t)
    <3>1. /\ q_sending' = [q_sending EXCEPT ![dest] = Append(@, p)]
          /\ ~Sending(p)
      BY <2>2 DEF SendBlock, CanCall, Sending
    <3>2. CASE d = dest
      <4>1. q_sending'[d] = Append(q_sending[d], p)
        BY <1>0, <3>1, <3>2
      <4>2. \A m \in 1..Len(q_sending[d]) : q_sending[d][m] # p
        BY <3>1 DEF IInv, QueueExact
      <4>3. /\ k \in 1..Len(Append(q_sending[d], p))
            /\ l \in 1..Len(Append(q_sending[d], p))
            /\ Append(q_sending[d], p)[k] = q_sending[d][i]
            /\ Append(q_sending[d], p)[l] = q_sending[d][j]
        BY <4>1
      <4> QED
        BY <1>0, <4>2, <4>3, AppendKeepsOrder
    <3>3. CASE d # dest
      BY <1>0, <1>s, <3>1, <3>3
    <3> QED
      BY <3>2, <3>3
  <2> QED
    BY <1>1, <2>1, <2>2 DEF SendStep
<1>2. ASSUME NEW p \in Proc, NEW src \in Source, ReceiveStep(p, src)
      PROVE  k < l
  <2>1. CASE ReceiveInterrupt(p, src) \/ ReceiveBlock(p, src)
    BY <1>s, <2>1 DEF ReceiveInterrupt, ReceiveBlock
  <2>2. CASE ReceiveFetch(p, src)
    <3>1. PICK from \in Proc : Fetched(p, src, from)
      BY <2>2, FetchEffect
    <3>2. PICK n \in 1..Len(q_sending[p]) :
            q_sending' = [q_sending EXCEPT ![p] = Unlink(@, n)]
      BY <3>1 DEF Fetched
    <3>3. CASE d = p
      <4>1. q_sending'[d] = Unlink(q_sending[d], n)
        BY <1>0, <3>2, <3>3
      <4> DEFINE q == q_sending[d]
                 u == Unlink(q, n)
      <4>2. q \in Seq(Proc) /\ \A a, b \in 1..Len(q) : q[a] = q[b] => a = b
        BY <1>0
      <4>3. n \in 1..Len(q) /\ i \in 1..Len(q) /\ j \in 1..Len(q) /\ i < j
        BY <3>2, <3>3
      <4>4. k \in 1..Len(u) /\ l \in 1..Len(u) /\ u[k] = q[i] /\ u[l] = q[j]
        BY <4>1
      <4> HIDE DEF q
      <4> QED
        BY <4>2, <4>3, <4>4, UnlinkKeepsOrder
    <3>4. CASE d # p
      BY <1>0, <1>s, <3>2, <3>4
    <3> QED
      BY <3>3, <3>4
  <2> QED
    BY <1>2, <2>1, <2>2 DEF ReceiveStep
<1>3. ASSUME NEW p \in Proc, ReceiveStray(p)
      PROVE  k < l
  BY <1>s, <1>3 DEF ReceiveStray
<1>4. ASSUME NEW t \in IrqTask, InformStep(t)
      PROVE  k < l
  BY <1>s, <1>4 DEF InformStep, InformDeliver, InformPend
<1>5. CASE UNCHANGED vars
  BY <1>s, <1>5 DEF vars
<1> QED
  BY <1>1, <1>2, <1>3, <1>4, <1>5 DEF Next

(* Senders blocked on the same process never overtake each other.          *)
THEOREM FifoCorrect == Spec => Fifo
<1>1. IInv /\ [Next]_vars => [FifoStep]_vars
  BY StepFifo
<1> QED
  BY <1>1, Invariance, PTL DEF Spec, Fifo

-----------------------------------------------------------------------------
(* The walk of deadlock().                                                 *)

(* Each hop follows the link of a sender, or stays.                        *)
LEMMA WalkHops ==
  ASSUME TypeOK, BlockedStateAgrees, NEW dest \in Proc
  PROVE  /\ Walk(dest) \in [Nat -> Proc]
         /\ Walk(dest)[0] = dest
         /\ \A i \in Nat : Walk(dest)[i + 1] = IF Sending(Walk(dest)[i])
                                               THEN p_sendto[Walk(dest)[i]] ELSE Walk(dest)[i]
<1> DEFINE hop == [q \in Proc |-> IF Sending(q) THEN p_sendto[q] ELSE q]
           step == [i \in Nat |-> hop]
           Walks(at) == at = [i \in Nat |-> IF i = 0 THEN dest
                                ELSE IF Sending(at[i - 1]) THEN p_sendto[at[i - 1]] ELSE at[i - 1]]
<1>1. hop \in [Proc -> Proc]
  BY DEF TypeOK, BlockedStateAgrees
<1>2. step \in [Nat -> [Proc -> Proc]]
  BY <1>1
<1>3. PICK f \in [Nat -> Proc] : f = [i \in Nat |-> IF i = 0 THEN dest ELSE step[i][f[i - 1]]]
  <2> HIDE DEF step
  <2> QED
    BY <1>2, Iteration
<1>4. Walks(f)
  <2>1. \A i \in Nat : i # 0 => i - 1 \in Nat /\ f[i - 1] \in Proc
    OBVIOUS
  <2>2. \A i \in Nat : (IF i = 0 THEN dest ELSE step[i][f[i - 1]])
          = (IF i = 0 THEN dest
             ELSE IF Sending(f[i - 1]) THEN p_sendto[f[i - 1]] ELSE f[i - 1])
    BY <2>1
  <2> QED
    BY <1>3, <2>2
<1>5. Walk(dest) = CHOOSE at : Walks(at)
  BY DEF Walk
<1>6. Walks(Walk(dest))
  <2> HIDE DEF Walks
  <2> QED
    BY <1>4, <1>5
<1> DEFINE w == Walk(dest)
<1>7. w = [i \in Nat |-> IF i = 0 THEN dest
             ELSE IF Sending(w[i - 1]) THEN p_sendto[w[i - 1]] ELSE w[i - 1]]
  BY <1>6
<1> HIDE DEF w
<1>8. w[0] = dest
  BY <1>7
<1>9. \A i \in Nat : w[i + 1] = IF Sending(w[i]) THEN p_sendto[w[i]] ELSE w[i]
  <2> TAKE i \in Nat
  <2>1. i + 1 \in Nat /\ i + 1 # 0 /\ (i + 1) - 1 = i
    OBVIOUS
  <2> QED
    BY <1>7, <2>1
<1>10. w \in [Nat -> Proc]
  <2> DEFINE G == {i \in Nat : w[i] \in Proc}
  <2>1. 0 \in G
    BY <1>8
  <2>2. ASSUME NEW i \in G PROVE i + 1 \in G
    <3>1. i \in Nat /\ w[i] \in Proc
      OBVIOUS
    <3>2. \A q \in Proc : Sending(q) => p_sendto[q] \in Proc
      BY DEF TypeOK, BlockedStateAgrees
    <3>3. w[i + 1] \in Proc
      BY <1>9, <3>1, <3>2
    <3> QED
      BY <3>1, <3>3
  <2>3. G = Nat
    <3>1. G \in SUBSET Nat
      OBVIOUS
    <3> HIDE DEF G
    <3> QED
      BY <2>1, <2>2, <3>1, NatSetInduction
  <2>4. \A i \in Nat : w[i] \in Proc
    BY <2>3
  <2>5. \E d : w = [i \in Nat |-> w[i]]
    BY <1>7
  <2> QED
    BY <2>4, <2>5
<1> QED
  BY <1>8, <1>9, <1>10 DEF w

(* It does not go on for ever, for the processes it would visit would all  *)
(* be sending to each other; and up to its end it meets nobody twice.      *)
LEMMA WalkEnds ==
  ASSUME TypeOK, BlockedStateAgrees, NoSendCycle, NEW dest \in Proc
  PROVE  \E m \in Nat : /\ ~Sending(Walk(dest)[m])
                        /\ \A i \in 0..(m - 1) : Sending(Walk(dest)[i])
                        /\ \A i, j \in 0..m : Walk(dest)[i] = Walk(dest)[j] => i = j
<1> DEFINE at == Walk(dest)
<1>1. /\ at \in [Nat -> Proc]
      /\ \A i \in Nat : at[i + 1] = IF Sending(at[i]) THEN p_sendto[at[i]] ELSE at[i]
  BY WalkHops
<1> HIDE DEF at
<1>2. \E m \in Nat : ~Sending(at[m])
  <2> SUFFICES ASSUME \A i \in Nat : Sending(at[i]) PROVE FALSE
    OBVIOUS
  <2> DEFINE T == {at[i] : i \in Nat}
  <2>1. T \in SUBSET Proc /\ T # {}
    BY <1>1
  <2>2. ASSUME NEW q \in T PROVE Sending(q) /\ p_sendto[q] \in T
    <3>1. PICK i \in Nat : q = at[i]
      OBVIOUS
    <3>2. i + 1 \in Nat /\ Sending(at[i]) /\ at[i + 1] = p_sendto[q]
      BY <1>1, <3>1
    <3> QED
      BY <3>1, <3>2
  <2> HIDE DEF T
  <2> QED
    BY <2>1, <2>2 DEF NoSendCycle
<1>3. PICK m \in Nat : ~Sending(at[m]) /\ \A i \in 0..(m - 1) : Sending(at[i])
  <2> DEFINE E == {m \in Nat : ~Sending(at[m])}
  <2>1. E \in SUBSET Nat /\ E # {}
    BY <1>2
  <2>2. PICK m \in E : \A k \in E : m <= k
    <3> HIDE DEF E
    <3> QED
      BY <2>1, LeastNat
  <2>3. m \in Nat /\ ~Sending(at[m])
    OBVIOUS
  <2>4. ASSUME NEW i \in 0..(m - 1) PROVE Sending(at[i])
    <3>1. i \in Nat /\ ~(m <= i)
      BY <2>3
    <3> QED
      BY <2>2, <3>1
  <2> QED
    BY <2>3, <2>4
<1>4. ASSUME NEW i \in 0..m, NEW j \in 0..m, i < j PROVE at[i] # at[j]
  <2> SUFFICES ASSUME at[i] = at[j] PROVE FALSE
    OBVIOUS
  <2> DEFINE T == {at[k] : k \in i..(j - 1)}
  <2>1. T \in SUBSET Proc /\ T # {}
    <3>1. i \in i..(j - 1) /\ i..(j - 1) \subseteq Nat
      BY <1>4
    <3>2. at[i] \in T
      BY <3>1
    <3> QED
      BY <1>1, <3>1, <3>2
  <2>2. ASSUME NEW q \in T PROVE Sending(q) /\ p_sendto[q] \in T
    <3>1. PICK k \in i..(j - 1) : q = at[k]
      OBVIOUS
    <3>2. k \in Nat /\ k \in 0..(m - 1) /\ i \in i..(j - 1)
      BY <1>4
    <3>3. Sending(at[k]) /\ at[k + 1] = p_sendto[at[k]]
      BY <1>1, <1>3, <3>2
    <3>4. k + 1 \in i..(j - 1) \/ k + 1 = j
      BY <3>2
    <3>5. at[k + 1] \in T
      BY <3>2, <3>4
    <3> QED
      BY <3>1, <3>3, <3>5
  <2> HIDE DEF T
  <2> QED
    BY <2>1, <2>2 DEF NoSendCycle
<1>5. \A i, j \in 0..m : at[i] = at[j] => i = j
  BY <1>4
<1> QED
  BY <1>3, <1>5 DEF at

(* As many processes as that there are.                                    *)
LEMMA WalkIsShort ==
  ASSUME IsFiniteSet(Proc), NEW m \in Nat, NEW at \in [Nat -> Proc],
         \A i, j \in 0..m : at[i] = at[j] => i = j
  PROVE  Cardinality(Proc) \in Nat /\ m <= Cardinality(Proc)
<1> DEFINE f == [i \in 0..m |-> at[i]]
<1>1. f \in Injection(0..m, Proc)
  BY DEF Injection, IsInjective
<1>2. Cardinality(0..m) = m + 1
  BY FS_Interval
<1>3. Cardinality(0..m) <= Cardinality(Proc)
  <2> HIDE DEF f
  <2> QED
    BY <1>1, FS_Injection
<1>4. Cardinality(Proc) \in Nat
  BY FS_CardinalityType
<1> QED
  BY <1>2, <1>3, <1>4

(* The loop stops where the definition by closed sets says.                *)
LEMMA WalkFinds ==
  ASSUME IInv, IsFiniteSet(Proc), NEW p \in Proc, NEW dest \in Proc
  PROVE  \E n \in 0..Cardinality(Proc) :
           /\ \A i \in 0..(n - 1) : LET q == Walk(dest)[i] IN Sending(q) /\ p_sendto[q] # p
           /\ LET q == Walk(dest)[n] IN
              IF deadlock(p, dest)
              THEN Sending(q) /\ p_sendto[q] = p /\ \A i \in 0..n : p_msg[Walk(dest)[i]] = 1
              ELSE ~Sending(q)
<1> DEFINE at == Walk(dest)
<1>1. TypeOK /\ BlockedStateAgrees /\ NoSendCycle
  BY DEF IInv
<1>2. /\ at \in [Nat -> Proc] /\ at[0] = dest
      /\ \A i \in Nat : at[i + 1] = IF Sending(at[i]) THEN p_sendto[at[i]] ELSE at[i]
  BY <1>1, WalkHops
<1>3. PICK m \in Nat : /\ ~Sending(at[m])
                       /\ \A i \in 0..(m - 1) : Sending(at[i])
                       /\ \A i, j \in 0..m : at[i] = at[j] => i = j
  BY <1>1, WalkEnds
<1> HIDE DEF at
<1>4. Cardinality(Proc) \in Nat /\ m <= Cardinality(Proc)
  BY <1>2, <1>3, WalkIsShort
<1> DEFINE Finds(i) == Sending(at[i]) /\ p_sendto[at[i]] = p
<1>5. CASE deadlock(p, dest)
  <2> DEFINE T == {at[i] : i \in 0..m}
  <2>1. T \in SUBSET Proc /\ dest \in T
    BY <1>2
  <2>2. ASSUME NEW t \in T, Sending(t) PROVE p_sendto[t] \in T
    <3>1. PICK i \in 0..m : t = at[i]
      OBVIOUS
    <3>2. i # m /\ i \in Nat /\ i + 1 \in 0..m
      BY <1>3, <2>2, <3>1
    <3>3. at[i + 1] = p_sendto[t]
      BY <1>2, <2>2, <3>1, <3>2
    <3> QED
      BY <3>2, <3>3
  <2>3. PICK t \in T : Sending(t) /\ p_sendto[t] = p
    <3> HIDE DEF T
    <3> QED
      BY <1>5, <2>1, <2>2 DEF deadlock, ChainClosed
  <2>4. PICK k \in 0..m : t = at[k]
    OBVIOUS
  <2> DEFINE E == {i \in Nat : Finds(i)}
  <2>5. E \in SUBSET Nat /\ k \in E
    BY <2>3, <2>4
  <2>6. PICK n \in E : \A i \in E : n <= i
    <3> HIDE DEF E
    <3> QED
      BY <2>5, LeastNat
  <2>7. n \in Nat /\ Finds(n) /\ n <= k /\ n <= m /\ n # m
    BY <1>3, <2>4, <2>5, <2>6
  <2>8. ASSUME NEW i \in 0..(n - 1) PROVE Sending(at[i]) /\ p_sendto[at[i]] # p
    <3>1. i \in Nat /\ ~(n <= i) /\ i \in 0..(m - 1)
      BY <2>7
    <3>2. i \notin E
      BY <2>6, <3>1
    <3> QED
      BY <1>3, <3>1, <3>2
  <2>9. ASSUME NEW i \in 0..n PROVE p_msg[at[i]] = 1
    <3>1. i \in Nat /\ (i = n \/ i \in 0..(n - 1))
      BY <2>7
    <3>2. at[i] \in Proc /\ Sending(at[i])
      BY <1>2, <2>7, <2>8, <3>1
    <3> QED
      BY <1>1, <3>2 DEF BlockedStateAgrees, Sending
  <2>10. n \in 0..Cardinality(Proc)
    BY <1>4, <2>7
  <2> QED
    BY <1>5, <2>7, <2>8, <2>9, <2>10 DEF at
<1>6. CASE ~deadlock(p, dest)
  <2>1. PICK T \in SUBSET Proc : /\ dest \in T /\ ChainClosed(T)
                                 /\ \A t \in T : ~(Sending(t) /\ p_sendto[t] = p)
    BY <1>6 DEF deadlock
  <2> DEFINE G == {i \in Nat : at[i] \in T}
  <2>2. 0 \in G
    BY <1>2, <2>1
  <2>3. ASSUME NEW i \in G PROVE i + 1 \in G
    BY <1>2, <2>1 DEF ChainClosed
  <2>4. G = Nat
    <3>1. G \in SUBSET Nat
      OBVIOUS
    <3> HIDE DEF G
    <3> QED
      BY <2>2, <2>3, <3>1, NatSetInduction
  <2>5. ASSUME NEW i \in 0..(m - 1) PROVE Sending(at[i]) /\ p_sendto[at[i]] # p
    <3>1. i \in G
      BY <2>4
    <3> QED
      BY <1>3, <2>1, <3>1
  <2>6. m \in 0..Cardinality(Proc)
    BY <1>4
  <2> QED
    BY <1>3, <1>6, <2>5, <2>6 DEF at
<1> QED
  BY <1>5, <1>6

(* The loop of deadlock() always ends, after at most so many hops as there *)
(* are processes, and with the answer that a closed set of senders decides *)
(* on; for any finite process table.                                       *)
THEOREM WalkCorrect ==
  ASSUME IsFiniteSet(Proc)
  PROVE  Spec => []WalkAgrees
<1>1. IInv => WalkAgrees
  BY WalkFinds DEF WalkAgrees
<1> QED
  BY Invariance, <1>1, PTL
=============================================================================
