------------------------- MODULE IpcRefinementProofs -------------------------
(***************************************************************************)
(* Above and below Ipc, for any number of processes and any message types. *)
(*                                                                         *)
(* Above: the message passing of proc.c implements mailboxes; initial      *)
(* states map to initial states and every system call and interrupt is a   *)
(* step of the mailboxes.                                                  *)
(*                                                                         *)
(* Below: the system calls of IpcPreempt, with interrupts between their    *)
(* statements, keep the structure of the process table, and implement the  *)
(* atomic calls of Ipc until an interrupt falls into one of three windows. *)
(***************************************************************************)
EXTENDS IpcMailbox, IpcAtomic, IpcProofs

-----------------------------------------------------------------------------
(* The mailboxes.                                                          *)

(* The message of a blocked sender carries its own number, so the messages *)
(* in a mailbox tell whose they are.                                       *)
SendersStamped == \A p \in Proc : Sending(p) => mem[p].source = p

MInv == IInv /\ SendersStamped

(* Nobody is sending at the start.                                         *)
LEMMA InitMInv == Init => MInv
BY InitIInv DEF MInv, SendersStamped, Init, Sending

(* Senders stay stamped where nobody starts sending and no sender's memory *)
(* is written.                                                             *)
LEMMA StillStamped ==
  ASSUME SendersStamped,
         \A x \in Proc : Sending(x)' => Sending(x) /\ mem'[x] = mem[x]
  PROVE  SendersStamped'
BY DEF SendersStamped

LEMMA StepStamped == MInv /\ [Next]_vars => SendersStamped'
<1> SUFFICES ASSUME MInv, [Next]_vars PROVE SendersStamped'
  OBVIOUS
<1>0. IInv /\ TypeOK /\ SendersStamped
  BY DEF MInv, IInv
<1> USE DEF SENDING, RECEIVING
<1>1. ASSUME NEW p \in Proc, NEW dest \in Proc, NEW t \in Type,
             SendDeadlock(p, dest, t)
      PROVE  SendersStamped'
  BY <1>0, <1>1, StillStamped DEF SendDeadlock, CanCall, Sending, TypeOK
<1>2. ASSUME NEW p \in Proc, NEW dest \in Proc, NEW t \in Type,
             SendDeliver(p, dest, t)
      PROVE  SendersStamped'
  <2>1. /\ p_flags[dest] = {RECEIVING} /\ p_flags[p] = {}
        /\ p_flags' = [p_flags EXCEPT ![dest] = {}]
    BY <1>0, <1>2, DeliverEffect
  <2>2. \A x \in Proc : Sending(x)' => Sending(x) /\ mem'[x] = mem[x]
    BY <1>0, <1>2, <2>1 DEF SendDeliver, Sending, TypeOK
  <2> QED
    BY <1>0, <2>2, StillStamped
<1>3. ASSUME NEW p \in Proc, NEW dest \in Proc, NEW t \in Type,
             SendBlock(p, dest, t)
      PROVE  SendersStamped'
  <2>1. mem' = [mem EXCEPT ![p] = Stamped(p, t)]
    BY <1>3 DEF SendBlock
  <2>2. \A x \in Proc \ {p} : Sending(x)' <=> Sending(x)
    BY <1>0, <1>3 DEF SendBlock, Sending, TypeOK
  <2> QED
    BY <1>0, <2>1, <2>2 DEF SendersStamped, Stamped, TypeOK
<1>4. ASSUME NEW p \in Proc, NEW src \in Source, ReceiveInterrupt(p, src)
      PROVE  SendersStamped'
  BY <1>0, <1>4, StillStamped DEF ReceiveInterrupt, CanCall, Sending, TypeOK
<1>5. ASSUME NEW p \in Proc, NEW src \in Source, ReceiveFetch(p, src)
      PROVE  SendersStamped'
  <2>1. PICK from \in Proc : Fetched(p, src, from)
    BY <1>0, <1>5, FetchEffect
  <2>2. /\ p_flags[p] = {} /\ p_flags' = [p_flags EXCEPT ![from] = {}]
        /\ mem' = [mem EXCEPT ![p] = mem[from]]
    BY <2>1 DEF Fetched
  <2>3. \A x \in Proc : Sending(x)' => Sending(x) /\ mem'[x] = mem[x]
    BY <1>0, <2>2 DEF Sending, TypeOK
  <2> QED
    BY <1>0, <2>3, StillStamped
<1>6. ASSUME NEW p \in Proc, NEW src \in Source, ReceiveBlock(p, src)
      PROVE  SendersStamped'
  <2>1. \A x \in Proc : Sending(x)' => Sending(x) /\ mem'[x] = mem[x]
    BY <1>0, <1>6 DEF ReceiveBlock, CanCall, Sending, TypeOK
  <2> QED
    BY <1>0, <2>1, StillStamped
<1>7. ASSUME NEW p \in Proc, ReceiveStray(p)
      PROVE  SendersStamped'
  BY <1>0, <1>7, StillStamped DEF ReceiveStray, CanCall, Sending, TypeOK
<1>8. ASSUME NEW t \in IrqTask, InformDeliver(t)
      PROVE  SendersStamped'
  <2>1. /\ t \in Proc /\ p_flags[t] = {RECEIVING}
        /\ p_flags' = [p_flags EXCEPT ![t] = {}]
    BY <1>0, <1>8, InformEffect, IrqTaskAssumption
  <2>2. \A x \in Proc : Sending(x)' => Sending(x) /\ mem'[x] = mem[x]
    BY <1>0, <1>8, <2>1 DEF InformDeliver, Sending, TypeOK
  <2> QED
    BY <1>0, <2>2, StillStamped
<1>9. ASSUME NEW t \in IrqTask, InformPend(t)
      PROVE  SendersStamped'
  BY <1>0, <1>9, StillStamped DEF InformPend, Sending
<1>10. CASE UNCHANGED vars
  BY <1>0, <1>10, StillStamped DEF vars, Sending
<1> QED
  BY <1>1, <1>2, <1>3, <1>4, <1>5, <1>6, <1>7, <1>8, <1>9, <1>10
     DEF Next, SendStep, ReceiveStep, InformStep

(* In every reachable state a blocked sender's message tells who sent it.  *)
THEOREM StampedInvariance == Spec => []MInv
<1>1. MInv /\ [Next]_vars => MInv'
  BY StepIInv, StepStamped DEF MInv
<1> QED
  BY InitMInv, <1>1, PTL DEF Spec

-----------------------------------------------------------------------------
(* Mailboxes and queues.                                                   *)

(* A mailbox is as long as the queue, and its messages are the senders'.   *)
LEMMA ContentsQueue ==
  ASSUME MInv, NEW d \in Proc
  PROVE  /\ q_sending[d] \in Seq(Proc)
         /\ Contents(d) \in Seq(Message)
         /\ Len(Contents(d)) = Len(q_sending[d])
         /\ \A i \in 1..Len(q_sending[d]) :
              /\ q_sending[d][i] \in Proc
              /\ Contents(d)[i] = mem[q_sending[d][i]]
              /\ Sending(q_sending[d][i]) /\ p_sendto[q_sending[d][i]] = d
              /\ Contents(d)[i].source = q_sending[d][i]
<1>1. q_sending[d] \in Seq(Proc) /\ mem \in [Proc -> Message]
  BY DEF MInv, IInv, TypeOK
<1>2. \A i \in 1..Len(q_sending[d]) : q_sending[d][i] \in Proc
  BY <1>1
<1>3. /\ Contents(d) \in Seq(Message)
      /\ Len(Contents(d)) = Len(q_sending[d])
      /\ \A i \in 1..Len(q_sending[d]) : Contents(d)[i] = mem[q_sending[d][i]]
  <2>1. Len(q_sending[d]) \in Nat
    BY <1>1
  <2>2. Contents(d) \in [1..Len(q_sending[d]) -> Message]
    BY <1>1, <1>2 DEF Contents
  <2> QED
    BY <2>1, <2>2 DEF Contents
<1>4. \A i \in 1..Len(q_sending[d]) :
         Sending(q_sending[d][i]) /\ p_sendto[q_sending[d][i]] = d
  BY <1>2 DEF MInv, IInv, QueueExact
<1> QED
  BY <1>1, <1>2, <1>3, <1>4 DEF MInv, SendersStamped

(* A step that leaves queues and the senders' memory alone leaves the      *)
(* mailboxes alone.                                                        *)
LEMMA BoxesUnchanged ==
  ASSUME MInv, q_sending' = q_sending,
         \A x \in Proc : Sending(x) => mem'[x] = mem[x]
  PROVE  [d \in Proc |-> Contents(d)]' = [d \in Proc |-> Contents(d)]
<1>1. ASSUME NEW d \in Proc PROVE Contents(d)' = Contents(d)
  <2>1. \A i \in 1..Len(q_sending[d]) : mem'[q_sending[d][i]] = mem[q_sending[d][i]]
    BY ContentsQueue
  <2> QED
    BY <2>1 DEF Contents
<1> QED
  BY <1>1

(* a's message waits in b's mailbox exactly while a is blocked sending to b*)
LEMMA OffersSending ==
  ASSUME MInv, NEW a \in Proc, NEW b \in Proc
  PROVE  Boxes!Offers(a, b) <=> Sending(a) /\ p_sendto[a] = b
<1>1. Boxes!Offers(a, b) <=> \E i \in DOMAIN Contents(b) : Contents(b)[i].source = a
  BY DEF Boxes!Offers
<1>2. DOMAIN Contents(b) = 1..Len(q_sending[b])
  BY DEF Contents
<1>3. \A i \in 1..Len(q_sending[b]) : Contents(b)[i].source = q_sending[b][i]
  BY ContentsQueue
<1>4. Boxes!Offers(a, b) <=> \E i \in 1..Len(q_sending[b]) : q_sending[b][i] = a
  BY <1>1, <1>2, <1>3
<1> QED
  BY <1>4 DEF MInv, IInv, QueueExact

(* Who can call is free.                                                   *)
LEMMA CallersFree ==
  ASSUME MInv, NEW p \in Proc
  PROVE  CanCall(p) => Boxes!Free(p)
<1> SUFFICES ASSUME CanCall(p) PROVE Boxes!Free(p)
  OBVIOUS
<1>1. panic = "no" /\ ~Sending(p) /\ p_recvfrom[p] = NO_TASK
  BY DEF CanCall, Sending, MInv, IInv, BlockedStateAgrees
<1>2. \A d \in Proc : ~Boxes!Offers(p, d)
  BY <1>1, OffersSending
<1> QED
  BY <1>1, <1>2 DEF Boxes!Free

(* deadlock() finds a circle of senders that leads from dest back to p     *)
(* exactly if sending would leave everyone in a circle waiting.  One way,  *)
(* the processes that do not depend on p are closed under p_sendto; the    *)
(* other way, a walk inside the circle that missed p would be a cycle      *)
(* already.                                                                *)
LEMMA DeadlockIsCircle ==
  ASSUME MInv, NEW p \in Proc, NEW dest \in Proc, p # dest, ~Sending(p)
  PROVE  deadlock(p, dest) <=> Boxes!ClosesCircle(p, dest)
<1> DEFINE Waits(S) == \A a \in S \ {p} : Sending(a) /\ p_sendto[a] \in S
<1>0. \A a \in Proc : p_sendto[a] \in Proc \cup {NO_TASK} /\ (Sending(a) => p_sendto[a] \in Proc)
  BY DEF MInv, IInv, TypeOK, BlockedStateAgrees
<1>1. Boxes!ClosesCircle(p, dest) <=> \E S \in SUBSET Proc : {p, dest} \subseteq S /\ Waits(S)
  <2>1. \A S \in SUBSET Proc :
          Waits(S) <=> \A a \in S \ {p} : \E b \in S : Boxes!Offers(a, b)
    BY OffersSending
  <2> QED
    BY <2>1 DEF Boxes!ClosesCircle
<1>2. ASSUME NEW S \in SUBSET Proc, {p, dest} \subseteq S, Waits(S),
             NEW T \in SUBSET Proc, dest \in T, ChainClosed(T),
             \A t \in T : ~(Sending(t) /\ p_sendto[t] = p)
      PROVE  FALSE
  <2> DEFINE W == (S \cap T) \ {p}
  <2>1. dest \in W /\ W \in SUBSET Proc
    BY <1>2
  <2>2. \A a \in W : Sending(a) /\ p_sendto[a] \in W
    BY <1>2 DEF ChainClosed
  <2> HIDE DEF W
  <2> QED
    BY <2>1, <2>2 DEF MInv, IInv, NoSendCycle
<1>3. ASSUME deadlock(p, dest)
      PROVE  \E S \in SUBSET Proc : {p, dest} \subseteq S /\ Waits(S)
  <2> DEFINE U == UNION {S \in SUBSET Proc : p \in S /\ Waits(S)}
             T == Proc \ U
  <2>1. U \in SUBSET Proc /\ Waits(U)
    OBVIOUS
  <2>2. p \in U
    <3>1. {p} \in SUBSET Proc /\ Waits({p})
      OBVIOUS
    <3> QED
      BY <3>1
  <2>3. ASSUME NEW t \in T, Sending(t) PROVE p_sendto[t] \in T
    <3>1. SUFFICES ASSUME p_sendto[t] \in U PROVE FALSE
      BY <1>0, <2>3
    <3> DEFINE V == U \cup {t}
    <3>2. V \in SUBSET Proc /\ p \in V
      BY <2>1, <2>2, <2>3
    <3>3. Waits(V)
      <4> SUFFICES ASSUME NEW a \in V \ {p} PROVE Sending(a) /\ p_sendto[a] \in V
        OBVIOUS
      <4>1. CASE a = t
        BY <2>3, <3>1, <4>1
      <4>2. CASE a # t
        <5>1. a \in U \ {p}
          BY <4>2
        <5> QED
          BY <2>1, <5>1
      <4> QED
        BY <4>1, <4>2
    <3>4. t \in U
      BY <3>2, <3>3
    <3> QED
      BY <2>3, <3>4
  <2>4. ASSUME dest \notin U PROVE FALSE
    <3>1. dest \in T /\ T \in SUBSET Proc /\ ChainClosed(T)
      BY <2>3, <2>4 DEF ChainClosed
    <3>2. \A t \in T : ~(Sending(t) /\ p_sendto[t] = p)
      <4>1. p \notin T
        BY <2>2
      <4> HIDE DEF T
      <4> QED
        BY <2>3, <4>1
    <3> HIDE DEF T
    <3>3. {t \in T : Sending(t) /\ p_sendto[t] = p} # {}
      BY <1>3, <3>1 DEF deadlock
    <3> QED
      BY <3>2, <3>3
  <2> HIDE DEF U
  <2> QED
    BY <2>1, <2>2, <2>4
<1> HIDE DEF Waits
<1>4. ASSUME NEW S \in SUBSET Proc, {p, dest} \subseteq S, Waits(S)
      PROVE  deadlock(p, dest)
  BY <1>2, <1>4 DEF deadlock
<1> QED
  BY <1>1, <1>3, <1>4

-----------------------------------------------------------------------------
(* Every step of the kernel is one of the mailboxes.                       *)

(* The sends.  Where the sender neither was nor gets queued the mailboxes  *)
(* stay as they are.                                                       *)
LEMMA DeadlockMaps ==
  ASSUME MInv, NEW p \in Proc, NEW dest \in Proc, NEW t \in Type,
         SendDeadlock(p, dest, t)
  PROVE  Boxes!Send(p, dest, t)
<1>1. CanCall(p) /\ ~Sending(p) /\ p # dest
  BY DEF SendDeadlock, CanCall, Sending
<1>2. Boxes!Free(p) /\ Boxes!ClosesCircle(p, dest)
  BY <1>1, CallersFree, DeadlockIsCircle DEF SendDeadlock
<1>3. q_sending' = q_sending /\ \A x \in Proc : Sending(x) => mem'[x] = mem[x]
  BY <1>1 DEF SendDeadlock, MInv, IInv, TypeOK
<1>4. [d \in Proc |-> Contents(d)]' = [d \in Proc |-> Contents(d)]
  BY <1>3, BoxesUnchanged
<1> QED
  BY <1>1, <1>2, <1>4 DEF SendDeadlock, Stamped, Boxes!Send

(* p_recvfrom tells whom a process waits for, and that it waits.           *)
LEMMA WantsAwaits ==
  ASSUME MInv, NEW p \in Proc, NEW dest \in Proc
  PROVE  /\ Awaits(dest, p) <=> p_recvfrom[dest] \in {p, ANY}
         /\ Informs(dest) <=> p_recvfrom[dest] \in {INTERRUPT, ANY}
BY PseudoProcAssumption DEF Awaits, Informs, MInv, IInv, BlockedStateAgrees

LEMMA DeliverMaps ==
  ASSUME MInv, NEW p \in Proc, NEW dest \in Proc, NEW t \in Type,
         SendDeliver(p, dest, t)
  PROVE  Boxes!Send(p, dest, t)
<1>1. CanCall(p) /\ ~Sending(p) /\ p # dest
  BY DEF SendDeliver, CanCall, Sending
<1>2. Boxes!Free(p) /\ ~Boxes!ClosesCircle(p, dest)
  BY <1>1, CallersFree, DeadlockIsCircle DEF SendDeliver
<1>3. p_recvfrom[dest] \in {p, ANY}
  BY WantsAwaits DEF SendDeliver
<1>4. ~Sending(dest) /\ q_sending' = q_sending
  BY DeliverEffect DEF MInv, Sending, SENDING, RECEIVING
<1>5. \A x \in Proc : Sending(x) => mem'[x] = mem[x]
  BY <1>1, <1>4 DEF SendDeliver, MInv, IInv, TypeOK
<1>6. [d \in Proc |-> Contents(d)]' = [d \in Proc |-> Contents(d)]
  BY <1>4, <1>5, BoxesUnchanged
<1> QED
  BY <1>1, <1>2, <1>3, <1>6 DEF SendDeliver, Stamped, Boxes!Send

LEMMA BlockMaps ==
  ASSUME MInv, NEW p \in Proc, NEW dest \in Proc, NEW t \in Type,
         SendBlock(p, dest, t)
  PROVE  Boxes!Send(p, dest, t)
<1> DEFINE m == Stamped(p, t)
<1>0. TypeOK /\ q_sending[dest] \in Seq(Proc) /\ m \in Message
  BY DEF MInv, IInv, TypeOK, Stamped, Message
<1>1. CanCall(p) /\ ~Sending(p) /\ p # dest
  BY DEF SendBlock, CanCall, Sending
<1>2. Boxes!Free(p) /\ ~Boxes!ClosesCircle(p, dest)
  BY <1>1, CallersFree, DeadlockIsCircle DEF SendBlock
<1>3. p_recvfrom[dest] \notin {p, ANY}
  BY WantsAwaits DEF SendBlock
<1>4. /\ q_sending' = [q_sending EXCEPT ![dest] = Append(@, p)]
      /\ mem' = [mem EXCEPT ![p] = m]
  BY DEF SendBlock
<1>5. \A x \in Proc : Sending(x) => mem'[x] = mem[x]
  BY <1>0, <1>1, <1>4 DEF TypeOK
<1>6. ASSUME NEW d \in Proc
      PROVE  Contents(d)' = IF d = dest THEN Append(Contents(d), m) ELSE Contents(d)
  <2>1. \A i \in 1..Len(q_sending[d]) : mem'[q_sending[d][i]] = mem[q_sending[d][i]]
    BY <1>5, ContentsQueue
  <2>2. CASE d # dest
    <3>1. q_sending'[d] = q_sending[d]
      BY <1>0, <1>4, <2>2 DEF TypeOK
    <3> QED
      BY <2>1, <2>2, <3>1 DEF Contents
  <2>3. CASE d = dest
    <3> DEFINE n == Len(q_sending[d])
               old == Contents(d)
               new == Contents(d)'
    <3>1. /\ q_sending'[d] = Append(q_sending[d], p)
          /\ Len(q_sending'[d]) = n + 1 /\ n \in Nat
          /\ \A i \in 1..n : q_sending'[d][i] = q_sending[d][i]
          /\ q_sending'[d][n + 1] = p
      BY <1>0, <1>4, <2>3 DEF TypeOK
    <3>2. mem'[p] = m
      BY <1>0, <1>4 DEF TypeOK
    <3>3. /\ old \in Seq(Message) /\ Len(old) = n
          /\ \A i \in 1..n : old[i] = mem[q_sending[d][i]] /\ old[i] \in Message
      BY ContentsQueue, ElementOfSeq
    <3>4. new = [i \in 1..(n + 1) |-> IF i = n + 1 THEN m ELSE mem[q_sending[d][i]]]
      BY <2>1, <3>1, <3>2 DEF Contents
    <3> HIDE DEF n, old, new
    <3>5. new \in [1..(n + 1) -> Message] /\ \A i \in 1..(n + 1) : i # n + 1 => i \in 1..n
      BY <1>0, <3>1, <3>3, <3>4
    <3>6. new \in Seq(Message) /\ Len(new) = n + 1
      BY <3>1, <3>5
    <3>7. /\ Append(old, m) \in Seq(Message) /\ Len(Append(old, m)) = n + 1
          /\ \A i \in 1..n : Append(old, m)[i] = old[i]
          /\ Append(old, m)[n + 1] = m
      BY <1>0, <3>3, AppendProperties
    <3>8. \A i \in 1..(n + 1) : new[i] = Append(old, m)[i]
      BY <3>1, <3>3, <3>4, <3>5, <3>7
    <3>9. new = Append(old, m)
      BY <3>6, <3>7, <3>8, SeqEqual
    <3> QED
      BY <2>3, <3>9 DEF old, new
  <2> QED
    BY <2>2, <2>3
<1>7. [d \in Proc |-> Contents(d)]'
        = [[d \in Proc |-> Contents(d)] EXCEPT ![dest] = Append(@, m)]
  BY <1>6
<1> QED
  BY <1>1, <1>2, <1>3, <1>7 DEF SendBlock, Stamped, Boxes!Send

(* RemoveAt, by its elements.                                              *)
LEMMA RemoveAtProperties ==
  ASSUME NEW S, NEW s \in Seq(S), NEW i \in 1..Len(s)
  PROVE  /\ Boxes!RemoveAt(s, i) \in Seq(S)
         /\ Len(Boxes!RemoveAt(s, i)) = Len(s) - 1
         /\ \A j \in 1..(Len(s) - 1) :
              Boxes!RemoveAt(s, i)[j] = IF j < i THEN s[j] ELSE s[j + 1]
<1> DEFINE n == Len(s)
           u == SubSeq(s, 1, i - 1)
           v == SubSeq(s, i + 1, n)
<1>1. n \in Nat /\ i \in 1..n /\ \A k \in 1..n : s[k] \in S
  BY ElementOfSeq, LenProperties
<1>2. /\ u \in Seq(S) /\ Len(u) = i - 1
      /\ \A j \in 1..(i - 1) : u[j] = s[j]
  <2>1. \A k \in 1..(i - 1) : s[k] \in S
    BY <1>1
  <2>2. /\ u \in Seq(S)
        /\ Len(u) = IF 1 <= i - 1 THEN (i - 1) - 1 + 1 ELSE 0
        /\ \A j \in 1..((i - 1) - 1 + 1) : u[j] = s[1 + j - 1]
    BY <1>1, <2>1, SubSeqProperties
  <2> HIDE DEF u
  <2> QED
    BY <1>1, <2>2
<1>3. /\ v \in Seq(S) /\ Len(v) = n - i
      /\ \A j \in 1..(n - i) : v[j] = s[i + j]
  <2>1. \A k \in (i + 1)..n : s[k] \in S
    BY <1>1
  <2>2. /\ v \in Seq(S)
        /\ Len(v) = IF i + 1 <= n THEN n - (i + 1) + 1 ELSE 0
        /\ \A j \in 1..(n - (i + 1) + 1) : v[j] = s[(i + 1) + j - 1]
    BY <1>1, <2>1, SubSeqProperties
  <2> HIDE DEF v
  <2> QED
    BY <1>1, <2>2
<1> HIDE DEF u, v
<1>4. /\ u \o v \in Seq(S) /\ Len(u \o v) = Len(u) + Len(v)
      /\ \A j \in 1..(Len(u) + Len(v)) :
           (u \o v)[j] = IF j <= Len(u) THEN u[j] ELSE v[j - Len(u)]
  BY <1>2, <1>3, ConcatProperties
<1>5. Boxes!RemoveAt(s, i) = u \o v
  BY DEF Boxes!RemoveAt, u, v
<1>6. \A j \in 1..(n - 1) : (u \o v)[j] = IF j < i THEN s[j] ELSE s[j + 1]
  <2> SUFFICES ASSUME NEW j \in 1..(n - 1)
               PROVE  (u \o v)[j] = IF j < i THEN s[j] ELSE s[j + 1]
    OBVIOUS
  <2>1. CASE j < i
    BY <1>1, <1>2, <1>3, <1>4, <2>1
  <2>2. CASE ~(j < i)
    <3>1. j - (i - 1) \in 1..(n - i) /\ ~(j <= i - 1) /\ j \in 1..(Len(u) + Len(v))
      BY <1>1, <1>2, <1>3, <2>2
    <3>2. (u \o v)[j] = v[j - (i - 1)]
      BY <1>2, <1>4, <3>1
    <3>3. v[j - (i - 1)] = s[i + (j - (i - 1))] /\ i + (j - (i - 1)) = j + 1
      BY <1>1, <1>3, <3>1
    <3> QED
      BY <2>2, <3>2, <3>3
  <2> QED
    BY <2>1, <2>2
<1> QED
  BY <1>1, <1>2, <1>3, <1>4, <1>5, <1>6

(* The mailbox of a process after a fetch.                                 *)
LEMMA FetchedBox ==
  ASSUME MInv, NEW p \in Proc, NEW i \in 1..Len(q_sending[p]),
         q_sending' = [q_sending EXCEPT ![p] = Unlink(@, i)],
         \A x \in Proc : Sending(x) => mem'[x] = mem[x]
  PROVE  [d \in Proc |-> Contents(d)]'
           = [[d \in Proc |-> Contents(d)] EXCEPT ![p] = Boxes!RemoveAt(@, i)]
<1>0. q_sending \in [Proc -> Seq(Proc)]
  BY DEF MInv, IInv, TypeOK
<1>1. ASSUME NEW d \in Proc, d # p PROVE Contents(d)' = Contents(d)
  <2>1. \A j \in 1..Len(q_sending[d]) : mem'[q_sending[d][j]] = mem[q_sending[d][j]]
    BY ContentsQueue
  <2>2. q_sending'[d] = q_sending[d]
    BY <1>0, <1>1
  <2> QED
    BY <2>1, <2>2 DEF Contents
<1>2. Contents(p)' = Boxes!RemoveAt(Contents(p), i)
  <2> DEFINE q == q_sending[p]
             n == Len(q)
             old == Contents(p)
             new == Contents(p)'
  <2>1. /\ q \in Seq(Proc) /\ n \in Nat /\ i \in 1..n /\ n - 1 \in Nat
        /\ old \in Seq(Message) /\ Len(old) = n
        /\ \A j \in 1..n : old[j] = mem'[q[j]] /\ old[j] \in Message
    <3>1. /\ q \in Seq(Proc) /\ old \in Seq(Message) /\ Len(old) = n
          /\ \A j \in 1..n : q[j] \in Proc /\ Sending(q[j]) /\ old[j] = mem[q[j]]
      BY ContentsQueue
    <3> HIDE DEF q, n, old
    <3>2. \A j \in 1..n : old[j] \in Message
      BY <3>1, ElementOfSeq
    <3>3. n \in Nat /\ n = Len(q)
      BY <3>1, LenProperties DEF n
    <3>4. i \in 1..n
      BY DEF n, q
    <3> QED
      BY <3>1, <3>2, <3>3, <3>4
  <2>2. /\ Len(Unlink(q, i)) = n - 1
        /\ \A j \in 1..(n - 1) : Unlink(q, i)[j] = IF j < i THEN q[j] ELSE q[j + 1]
    BY <2>1, UnlinkProperties
  <2>3. q_sending'[p] = Unlink(q, i)
    BY <1>0
  <2>4. new = [j \in 1..(n - 1) |-> mem'[Unlink(q, i)[j]]]
    BY <2>2, <2>3 DEF Contents
  <2> HIDE DEF q, n, old, new
  <2>5. ASSUME NEW j \in 1..(n - 1)
        PROVE  new[j] = IF j < i THEN old[j] ELSE old[j + 1]
    <3>1. j \in 1..n /\ j + 1 \in 1..n
      BY <2>1
    <3>2. new[j] = mem'[IF j < i THEN q[j] ELSE q[j + 1]]
      BY <2>2, <2>4
    <3> QED
      BY <2>1, <3>1, <3>2
  <2>6. \A j \in 1..(n - 1) : new[j] \in Message
    BY <2>1, <2>5
  <2>7. new \in [1..(n - 1) -> Message]
    BY <2>4, <2>6
  <2>8. new \in Seq(Message) /\ Len(new) = n - 1
    BY <2>1, <2>7
  <2>9. /\ Boxes!RemoveAt(old, i) \in Seq(Message)
        /\ Len(Boxes!RemoveAt(old, i)) = n - 1
        /\ \A j \in 1..(n - 1) :
             Boxes!RemoveAt(old, i)[j] = IF j < i THEN old[j] ELSE old[j + 1]
    BY <2>1, RemoveAtProperties
  <2>10. \A j \in 1..Len(new) : new[j] = Boxes!RemoveAt(old, i)[j]
    BY <2>5, <2>8, <2>9
  <2>11. new = Boxes!RemoveAt(old, i)
    BY <2>8, <2>9, <2>10, SeqEqual
  <2> QED
    BY <2>11 DEF old, new
<1> QED
  BY <1>1, <1>2

(* The receives.                                                           *)
LEMMA FetchMaps ==
  ASSUME MInv, NEW p \in Proc, NEW src \in Source, ReceiveFetch(p, src)
  PROVE  Boxes!Take(p, src)
<1> DEFINE i == FetchIndex(p, src)
           from == q_sending[p][i]
<1>0. TypeOK /\ QueueExact /\ IInv
  BY DEF MInv, IInv
<1>1. CanCall(p) /\ ~Sending(p) /\ p # src /\ ~TakesInt(p, src) /\ CopyOk(p, src)
  BY DEF ReceiveFetch, CanCall, Sending
<1>2. i \in 1..Len(q_sending[p]) /\ (src # ANY => from = src)
  BY <1>0, <1>1, FetchIndexInQueue
<1>3. src = ANY => i = 1
  BY DEF FetchIndex
<1>4. /\ q_sending' = [q_sending EXCEPT ![p] = Unlink(@, i)]
      /\ mem' = [mem EXCEPT ![p] = mem[from]]
      /\ UNCHANGED <<p_recvfrom, has_int_msg, panic>>
  BY DEF ReceiveFetch
<1>5. \A x \in Proc : Sending(x) => mem'[x] = mem[x]
  BY <1>0, <1>1, <1>4 DEF TypeOK
<1> HIDE DEF i
<1>6. [d \in Proc |-> Contents(d)]'
        = [[d \in Proc |-> Contents(d)] EXCEPT ![p] = Boxes!RemoveAt(@, i)]
  BY <1>2, <1>4, <1>5, FetchedBox
<1>7. /\ DOMAIN Contents(p) = 1..Len(q_sending[p])
      /\ \A j \in 1..Len(q_sending[p]) :
           /\ Contents(p)[j] = mem[q_sending[p][j]]
           /\ Contents(p)[j].source = q_sending[p][j] /\ q_sending[p][j] \in Proc
  BY ContentsQueue DEF Contents
<1>8. src \in {ANY, Contents(p)[i].source}
  BY <1>2, <1>7
<1>9. \A j \in 1..(i - 1) : src \notin {ANY, Contents(p)[j].source}
  <2> SUFFICES ASSUME NEW j \in 1..(i - 1), src \in {ANY, Contents(p)[j].source}
               PROVE  FALSE
    OBVIOUS
  <2>1. j \in 1..Len(q_sending[p]) /\ j # i /\ i # 1
    BY <1>2
  <2>2. src # ANY
    BY <1>3, <2>1
  <2>3. q_sending[p][j] = q_sending[p][i]
    BY <1>2, <1>7, <2>1, <2>2
  <2> QED
    BY <1>0, <1>2, <2>1, <2>3 DEF QueueExact
<1>10. Boxes!Free(p)
  BY <1>1, CallersFree
<1>11. mem' = [mem EXCEPT ![p] = Contents(p)[i]]
  BY <1>2, <1>4, <1>7
<1>12. ~(p \in {x \in Proc : has_int_msg[x] = 1} /\ src \in {ANY, INTERRUPT})
  BY <1>1 DEF TakesInt
<1> HIDE DEF from
<1> QED
  BY <1>1, <1>2, <1>4, <1>6, <1>7, <1>8, <1>9, <1>10, <1>11, <1>12 DEF Boxes!Take

(* Of a process that can call nobody has fetched the message.              *)
LEMMA CallerNotSending ==
  ASSUME MInv, NEW p \in Proc, CanCall(p), q_sending' = q_sending,
         \A x \in Proc \ {p} : mem'[x] = mem[x]
  PROVE  [d \in Proc |-> Contents(d)]' = [d \in Proc |-> Contents(d)]
<1>1. \A x \in Proc : Sending(x) => mem'[x] = mem[x]
  BY DEF CanCall, Sending
<1> QED
  BY <1>1, BoxesUnchanged

LEMMA TakeInterruptMaps ==
  ASSUME MInv, NEW p \in Proc, NEW src \in Source, ReceiveInterrupt(p, src)
  PROVE  Boxes!TakeInterrupt(p, src)
<1>0. TypeOK
  BY DEF MInv, IInv
<1>1. Boxes!Free(p) /\ CanCall(p)
  BY CallersFree DEF ReceiveInterrupt
<1>2. [d \in Proc |-> Contents(d)]' = [d \in Proc |-> Contents(d)]
  BY <1>0, <1>1, CallerNotSending DEF ReceiveInterrupt, TypeOK
<1>3. {x \in Proc : has_int_msg[x] = 1}' = {x \in Proc : has_int_msg[x] = 1} \ {p}
  BY <1>0 DEF ReceiveInterrupt, TypeOK
<1> QED
  BY <1>1, <1>2, <1>3 DEF ReceiveInterrupt, TakesInt, IntMessage, Boxes!TakeInterrupt

LEMMA WaitMaps ==
  ASSUME MInv, NEW p \in Proc, NEW src \in Source, ReceiveBlock(p, src)
  PROVE  Boxes!Wait(p, src)
<1>0. TypeOK /\ QueueExact
  BY DEF MInv, IInv
<1>1. Boxes!Free(p) /\ CanCall(p) /\ p # src
  BY CallersFree DEF ReceiveBlock
<1>2. [d \in Proc |-> Contents(d)]' = [d \in Proc |-> Contents(d)]
  BY <1>0, <1>1, CallerNotSending DEF ReceiveBlock, TypeOK
<1>3. ~(p \in {x \in Proc : has_int_msg[x] = 1} /\ src \in {ANY, INTERRUPT})
  BY DEF ReceiveBlock, TakesInt
<1>4. \A i \in DOMAIN Contents(p) : src \notin {ANY, Contents(p)[i].source}
  <2> SUFFICES ASSUME NEW i \in DOMAIN Contents(p), src \in {ANY, Contents(p)[i].source}
               PROVE  FALSE
    OBVIOUS
  <2>1. i \in 1..Len(q_sending[p]) /\ q_sending[p] \in Seq(Proc)
    BY ContentsQueue DEF Contents
  <2>2. /\ q_sending[p][i] \in Proc /\ Contents(p)[i].source = q_sending[p][i]
        /\ Sending(q_sending[p][i]) /\ p_sendto[q_sending[p][i]] = p
    BY <2>1, ContentsQueue
  <2>3. CASE src = ANY
    BY <2>1, <2>3 DEF ReceiveBlock, CopyOk
  <2>4. CASE src # ANY
    BY <2>2, <2>4 DEF ReceiveBlock, CopyOk
  <2> QED
    BY <2>3, <2>4
<1>5. /\ mem' = [mem EXCEPT ![p].source = p]
      /\ p_recvfrom' = [p_recvfrom EXCEPT ![p] = src]
      /\ UNCHANGED <<has_int_msg, panic>>
  BY DEF ReceiveBlock
<1> QED
  BY <1>1, <1>2, <1>3, <1>4, <1>5, Zenon DEF Boxes!Wait

LEMMA StrayMaps ==
  ASSUME MInv, NEW p \in Proc, ReceiveStray(p)
  PROVE  Boxes!Stray(p)
<1>0. TypeOK
  BY DEF MInv, IInv
<1>1. Boxes!Free(p) /\ CanCall(p)
  BY CallersFree DEF ReceiveStray
<1>2. [d \in Proc |-> Contents(d)]' = [d \in Proc |-> Contents(d)]
  BY <1>0, <1>1, CallerNotSending DEF ReceiveStray, TypeOK
<1>3. p \notin {x \in Proc : has_int_msg[x] = 1}
  BY DEF ReceiveStray, TakesInt
<1>4. /\ mem' = [mem EXCEPT ![p].source = p]
      /\ ~(panic' = "no") /\ UNCHANGED <<p_recvfrom, has_int_msg>>
  BY DEF ReceiveStray
<1> QED
  BY <1>1, <1>2, <1>3, <1>4, Zenon DEF Boxes!Stray

(* The interrupts.                                                         *)
LEMMA InformMaps ==
  ASSUME MInv, NEW t \in IrqTask, InformStep(t)
  PROVE  Boxes!Interrupt(t)
<1>0. TypeOK /\ t \in Proc
  BY IrqTaskAssumption DEF MInv, IInv
<1>1. CASE InformDeliver(t)
  <2>1. p_recvfrom[t] \in {ANY, INTERRUPT} /\ has_int_msg[t] = 0
    BY <1>0, <1>1 DEF InformDeliver, Informs, MInv, IInv, NoPendingInterrupt, TypeOK
  <2>2. ~Sending(t) /\ q_sending' = q_sending
    BY <1>0, <1>1, InformEffect DEF MInv, Sending, SENDING, RECEIVING
  <2>3. \A x \in Proc : Sending(x) => mem'[x] = mem[x]
    BY <1>0, <1>1, <2>2 DEF InformDeliver, TypeOK
  <2>4. [d \in Proc |-> Contents(d)]' = [d \in Proc |-> Contents(d)]
    BY <2>2, <2>3, BoxesUnchanged
  <2>5. has_int_msg' = has_int_msg
    BY <1>0, <1>1, <2>1 DEF InformDeliver, TypeOK
  <2> QED
    BY <1>1, <2>1, <2>4, <2>5 DEF InformDeliver, IntMessage, Boxes!Interrupt
<1>2. CASE InformPend(t)
  <2>1. p_recvfrom[t] \notin {ANY, INTERRUPT}
    BY <1>0, <1>2, WantsAwaits DEF InformPend
  <2>2. [d \in Proc |-> Contents(d)]' = [d \in Proc |-> Contents(d)]
    BY <1>2, BoxesUnchanged DEF InformPend
  <2>3. {x \in Proc : has_int_msg[x] = 1}' = {x \in Proc : has_int_msg[x] = 1} \cup {t}
    BY <1>0, <1>2 DEF InformPend, TypeOK
  <2> QED
    BY <1>2, <2>1, <2>2, <2>3 DEF InformPend, Boxes!Interrupt
<1> QED
  BY <1>1, <1>2 DEF InformStep

-----------------------------------------------------------------------------
(* The refinement.                                                         *)

LEMMA InitMaps == Init => Boxes!Init
<1> SUFFICES ASSUME Init PROVE Boxes!Init
  OBVIOUS
<1>1. \A d \in Proc : Contents(d) = << >>
  BY DEF Init, Contents
<1>2. {p \in Proc : has_int_msg[p] = 1} = {}
  BY DEF Init
<1> QED
  BY <1>1, <1>2 DEF Init, Boxes!Init

LEMMA NextMaps == MInv /\ [Next]_vars => [Boxes!Next]_(Boxes!vars)
<1> SUFFICES ASSUME MInv, [Next]_vars PROVE [Boxes!Next]_(Boxes!vars)
  OBVIOUS
<1>1. ASSUME NEW p \in Proc, NEW dest \in Proc, NEW t \in Type, SendStep(p, dest, t)
      PROVE  Boxes!Send(p, dest, t)
  BY <1>1, DeadlockMaps, DeliverMaps, BlockMaps DEF SendStep
<1>2. ASSUME NEW p \in Proc, NEW src \in Source, ReceiveStep(p, src)
      PROVE  src \in Boxes!Sources
             /\ (Boxes!Take(p, src) \/ Boxes!TakeInterrupt(p, src) \/ Boxes!Wait(p, src))
  BY <1>2, FetchMaps, TakeInterruptMaps, WaitMaps DEF ReceiveStep, Source, Boxes!Sources
<1>3. CASE UNCHANGED vars
  <2>1. [d \in Proc |-> Contents(d)]' = [d \in Proc |-> Contents(d)]
    BY <1>3, BoxesUnchanged DEF vars
  <2> QED
    BY <1>3, <2>1 DEF vars, Boxes!vars
<1>4. CASE Next
  BY <1>1, <1>2, <1>4, StrayMaps, InformMaps DEF Next, Boxes!Next
<1> QED
  BY <1>3, <1>4

(* Every behaviour of the kernel's message passing is one of the mailboxes,*)
(* for any number of processes: messages wait in the order they came, are  *)
(* taken whole, once and by whom they are for, and SEND panics exactly when*)
(* a circle would close.                                                   *)
THEOREM KernelImplementsMailbox == Spec => ImplementsMailbox
<1> QED
  BY InitMaps, NextMaps, StampedInvariance, PTL DEF Spec, ImplementsMailbox, Boxes!Spec

-----------------------------------------------------------------------------
(* System calls with interrupts inside them.                               *)

(* What the table keeps to whatever an interrupt meets.  p_recvfrom may be *)
(* behind the flags only where msg_send() is about to clear it.            *)
SendersAgree == \A x \in Proc : Sending(x) <=> p_sendto[x] # NO_TASK

ReceiversAgree ==
  \A x \in Proc :
    p_recvfrom[x] # NO_TASK => \/ RECEIVING \in p_flags[x]
                               \/ call.pc = "unfrom" /\ x = call.peer

CallType == [p : Proc \cup {NO_TASK}, peer : Source \cup {NO_TASK},
             pc : SendPc \cup ReceivePc \cup {"none"}]

Structure ==
  /\ TypeOK /\ call \in CallType
  /\ SendersAgree /\ ReceiversAgree
  /\ QueueExact /\ NoMissedRendezvous /\ NoSendCycle

(* What a SEND in progress has found: no circle, and before it queues the  *)
(* sender that the other one is not waiting for it.                        *)
InSend ==
  call.pc \in SendPc =>
    /\ call.p \in Proc /\ call.peer \in Proc /\ call.p # call.peer
    /\ p_flags[call.p] = {}
    /\ ~deadlock(call.p, call.peer)
    /\ call.pc = "enqueue" => ~Awaits(call.peer, call.p)

(* What a RECEIVE in progress has found, and what it has set.              *)
InReceive ==
  call.pc \in ReceivePc =>
    /\ call.p \in Proc /\ call.peer \in Source /\ call.p # call.peer
    /\ ~Sending(call.p)
    /\ call.pc \in {"int", "intcopy", "intclear", "intassert", "look", "flag"} =>
         p_flags[call.p] = {}
    /\ call.pc \in {"msg", "from"} =>
         RECEIVING \in p_flags[call.p] /\ p_recvfrom[call.p] = NO_TASK
    /\ call.pc \in {"flag", "msg", "from", "block"} => ~CopyOk(call.p, call.peer)

SInv == Structure /\ (panic = "no" => InSend /\ InReceive)

-----------------------------------------------------------------------------
(* The next statement of the call in progress.                             *)
LEMMA GoToNext ==
  ASSUME NEW s \in SendPc \cup ReceivePc, call \in CallType, GoTo(s)
  PROVE  /\ call' \in CallType
         /\ call'.p = call.p /\ call'.peer = call.peer /\ call'.pc = s
BY DEF GoTo, CallType

(* A call that returns leaves no call in progress.                         *)
LEMMA ReturnsNone ==
  ASSUME Return
  PROVE  /\ call' \in CallType /\ call'.pc = "none"
         /\ InSend' /\ InReceive'
BY DEF Return, NoCall, CallType, InSend, InReceive, SendPc, ReceivePc

(* A step that does not touch who is sending where.                        *)
Quiet == /\ UNCHANGED <<p_sendto, q_sending>>
         /\ \A x \in Proc : Sending(x)' <=> Sending(x)

(* Then queues, circles and what a call has found of them stay as they     *)
(* are.                                                                    *)
LEMMA QuietKeeps ==
  ASSUME Quiet
  PROVE  /\ QueueExact => QueueExact'
         /\ NoSendCycle => NoSendCycle'
         /\ SendersAgree => SendersAgree'
         /\ \A p, dest \in Proc : deadlock(p, dest)' <=> deadlock(p, dest)
         /\ \A p \in Proc, src \in Source : CopyOk(p, src)' <=> CopyOk(p, src)
<1>1. QueueExact => QueueExact'
  BY DEF Quiet, QueueExact
<1>2. NoSendCycle => NoSendCycle'
  BY DEF Quiet, NoSendCycle
<1>3. SendersAgree => SendersAgree'
  BY DEF Quiet, SendersAgree
<1>4. ASSUME NEW p \in Proc, NEW dest \in Proc
      PROVE  deadlock(p, dest)' <=> deadlock(p, dest)
  <2>1. \A T \in SUBSET Proc : ChainClosed(T)' <=> ChainClosed(T)
    BY DEF Quiet, ChainClosed
  <2>2. \A T \in SUBSET Proc : {t \in T : Sending(t) /\ p_sendto[t] = p}'
                                 = {t \in T : Sending(t) /\ p_sendto[t] = p}
    BY DEF Quiet
  <2> QED
    BY <2>1, <2>2 DEF deadlock
<1>5. ASSUME NEW p \in Proc, NEW src \in Source
      PROVE  CopyOk(p, src)' <=> CopyOk(p, src)
  BY DEF Quiet, CopyOk
<1> QED
  BY <1>1, <1>2, <1>3, <1>4, <1>5

(* It keeps the structure if nobody new is receiving, either.              *)
LEMMA QuietStructure ==
  ASSUME Structure, Quiet, TypeOK', call' \in CallType, ReceiversAgree',
         \A d \in Proc : RECEIVING \in p_flags'[d] =>
            RECEIVING \in p_flags[d] /\ p_recvfrom'[d] = p_recvfrom[d]
  PROVE  Structure'
<1>1. QueueExact' /\ NoSendCycle' /\ SendersAgree'
  BY QuietKeeps DEF Structure
<1>2. NoMissedRendezvous'
  BY FewerBlocked DEF Structure, Quiet
<1> QED
  BY <1>1, <1>2 DEF Structure

(* A step of the call that leaves flags and queues alone.                  *)
LEMMA StillStructure ==
  ASSUME Structure, TypeOK', call' \in CallType,
         call.pc # "unfrom",
         UNCHANGED <<p_flags, p_sendto, q_sending, p_recvfrom>>
  PROVE  Structure' /\ Quiet
<1>1. Quiet
  BY DEF Quiet, Sending
<1>2. ReceiversAgree'
  BY DEF Structure, ReceiversAgree
<1> QED
  BY <1>1, <1>2, QuietStructure

(* deadlock() is asked before anything else, and nobody begins or ends a   *)
(* SEND until the call ends.                                               *)
LEMMA EnterSendSInv ==
  ASSUME SInv, NEW p \in Proc, NEW dest \in Proc, NEW t \in Type,
         EnterSend(p, dest, t)
  PROVE  SInv'
<1>1. call' \in CallType /\ call'.p = p /\ call'.peer = dest /\ call'.pc = "test"
  BY DEF EnterSend, CallType, Source, SendPc
<1>2. TypeOK'
  BY DEF SInv, Structure, TypeOK, EnterSend, Stamped, Message
<1>3. Structure' /\ Quiet
  BY <1>1, <1>2, StillStructure DEF EnterSend, At, SInv
<1>4. panic' = "no" => InSend'
  <2> SUFFICES ASSUME panic' = "no" PROVE InSend'
    OBVIOUS
  <2>1. ~deadlock(p, dest)
    BY DEF EnterSend
  <2>2. ~deadlock(p, dest)'
    BY <1>3, <2>1, QuietKeeps
  <2>3. p_flags'[p] = {} /\ p # dest
    BY DEF EnterSend, CanCall
  <2> QED
    BY <1>1, <2>2, <2>3 DEF InSend
<1>5. InReceive'
  BY <1>1 DEF InReceive, ReceivePc
<1> QED
  BY <1>3, <1>4, <1>5 DEF SInv

(* A RECEIVE that begins sets no flag and joins no queue.                  *)
LEMMA EnterReceiveSInv ==
  ASSUME SInv, NEW p \in Proc, NEW src \in Source, EnterReceive(p, src)
  PROVE  SInv'
<1>1. call' \in CallType /\ call'.p = p /\ call'.peer = src /\ call'.pc = "int"
  BY DEF EnterReceive, CallType, ReceivePc
<1>2. TypeOK'
  BY DEF SInv, Structure, TypeOK, EnterReceive, Message
<1>3. Structure' /\ Quiet
  BY <1>1, <1>2, StillStructure DEF EnterReceive, At, SInv
<1>4. p_flags'[p] = {} /\ p # src /\ ~Sending(p)'
  BY DEF EnterReceive, CanCall, Sending
<1>5. InReceive' /\ InSend'
  BY <1>1, <1>4 DEF InReceive, InSend, SendPc
<1> QED
  BY <1>3, <1>5 DEF SInv

(* The steps of a SEND up to the clearing of p_msg.                        *)
LEMMA SendFirstSInv ==
  ASSUME SInv, SendTest \/ SendAssert \/ SendCopy \/ SendClearMsg
  PROVE  SInv'
<1>0. /\ Structure /\ TypeOK /\ call \in CallType /\ panic = "no"
      /\ call.pc \in SendPc \ {"unfrom", "enqueue"} /\ InSend
  BY DEF SInv, Structure, SendTest, SendAssert, SendCopy, SendClearMsg, At, SendPc
<1>1. /\ call.p \in Proc /\ call.peer \in Proc /\ call.p # call.peer
      /\ p_flags[call.p] = {} /\ ~deadlock(call.p, call.peer)
  BY <1>0 DEF InSend
<1>2. TypeOK' /\ UNCHANGED <<p_flags, p_sendto, q_sending, p_recvfrom>>
  <2>1. CASE SendTest
    BY <1>0, <2>1 DEF TypeOK, SendTest, vars
  <2>2. CASE SendAssert
    BY <1>0, <2>2 DEF TypeOK, SendAssert, vars
  <2>3. CASE SendCopy
    BY <1>0, <1>1, <2>3 DEF TypeOK, SendCopy
  <2>4. CASE SendClearMsg
    BY <1>0, <1>1, <2>4 DEF TypeOK, SendClearMsg
  <2> QED
    BY <2>1, <2>2, <2>3, <2>4
<1>3. /\ call' \in CallType /\ call'.p = call.p /\ call'.peer = call.peer
      /\ call'.pc \in SendPc
      /\ call'.pc = "enqueue" => ~Awaits(call.peer, call.p)
  <2>1. CASE SendTest
    BY <1>0, <2>1, GoToNext DEF SendTest, SendPc
  <2>2. CASE SendAssert
    BY <1>0, <2>2, GoToNext DEF SendAssert, SendPc
  <2>3. CASE SendCopy
    BY <1>0, <2>3, GoToNext DEF SendCopy, SendPc
  <2>4. CASE SendClearMsg
    BY <1>0, <2>4, GoToNext DEF SendClearMsg, SendPc
  <2> QED
    BY <2>1, <2>2, <2>3, <2>4
<1>4. Structure' /\ Quiet
  BY <1>0, <1>2, <1>3, StillStructure
<1>5. InSend'
  <2>1. ~deadlock(call.p, call.peer)'
    BY <1>1, <1>3, <1>4, QuietKeeps DEF deadlock, ChainClosed
  <2> QED
    BY <1>1, <1>2, <1>3, <2>1 DEF InSend, Awaits
<1>6. InReceive'
  BY <1>3 DEF InReceive, SendPc, ReceivePc
<1> QED
  BY <1>4, <1>5, <1>6 DEF SInv

(* Clearing RECEIVING and p_recvfrom only takes a receiver away.           *)
LEMMA SendLastSInv ==
  ASSUME SInv, SendClearFlag \/ SendClearFrom
  PROVE  SInv'
<1>0. /\ Structure /\ TypeOK /\ call \in CallType /\ panic = "no" /\ InSend
      /\ call.pc \in {"unflag", "unfrom"}
  BY DEF SInv, Structure, SendClearFlag, SendClearFrom, At
<1>1. /\ call.p \in Proc /\ call.peer \in Proc /\ call.p # call.peer
      /\ p_flags[call.p] = {} /\ ~deadlock(call.p, call.peer)
  BY <1>0 DEF InSend, SendPc
<1>2. CASE SendClearFlag
  <2>1. /\ call' \in CallType /\ call'.p = call.p /\ call'.peer = call.peer
        /\ call'.pc = "unfrom" /\ call.pc = "unflag"
    BY <1>0, <1>2, GoToNext DEF SendClearFlag, SendPc, At
  <2>2. /\ p_flags' = [p_flags EXCEPT ![call.peer] = @ \ {RECEIVING}]
        /\ UNCHANGED <<p_recvfrom, p_sendto, p_msg, q_sending, has_int_msg, mem, panic>>
    BY <1>2 DEF SendClearFlag
  <2>3. TypeOK'
    BY <1>0, <1>1, <2>2 DEF TypeOK
  <2>4. Quiet
    BY <1>0, <1>1, <2>2 DEF Quiet, TypeOK, Sending, SENDING, RECEIVING
  <2>5. ReceiversAgree'
    BY <1>0, <2>1, <2>2 DEF Structure, ReceiversAgree, TypeOK
  <2>6. Structure'
    BY <1>0, <2>1, <2>2, <2>3, <2>4, <2>5, QuietStructure DEF TypeOK
  <2>7. ~deadlock(call.p, call.peer)'
    BY <1>1, <2>1, <2>4, QuietKeeps DEF deadlock, ChainClosed
  <2>8. InSend' /\ InReceive'
    BY <1>0, <1>1, <2>1, <2>2, <2>7 DEF InSend, InReceive, ReceivePc, TypeOK
  <2> QED
    BY <2>6, <2>8 DEF SInv
<1>3. CASE SendClearFrom
  <2>1. call' \in CallType /\ call'.pc = "none" /\ InSend' /\ InReceive'
    BY <1>3, ReturnsNone DEF SendClearFrom
  <2>2. /\ p_recvfrom' = [p_recvfrom EXCEPT ![call.peer] = NO_TASK]
        /\ UNCHANGED <<p_flags, p_sendto, p_msg, q_sending, has_int_msg, mem, panic>>
    BY <1>3 DEF SendClearFrom
  <2>3. TypeOK'
    BY <1>0, <1>1, <2>2 DEF TypeOK
  <2>4. Quiet
    BY <2>2 DEF Quiet, Sending
  <2>5. ReceiversAgree'
    BY <1>0, <2>1, <2>2 DEF Structure, ReceiversAgree, TypeOK
  <2>6. NoMissedRendezvous'
    <3>1. \A d, x \in Proc : Awaits(d, x)' => Awaits(d, x)
      BY <1>0, <2>2, PseudoProcAssumption DEF Awaits, TypeOK
    <3> QED
      BY <1>0, <2>4, <3>1 DEF NoMissedRendezvous, Quiet, Structure
  <2>7. Structure'
    BY <1>0, <2>1, <2>3, <2>4, <2>5, <2>6, QuietKeeps DEF Structure
  <2> QED
    BY <2>1, <2>7 DEF SInv
<1> QED
  BY <1>2, <1>3

(* The sender joins the queue: there is still no circle, and its           *)
(* destination is still not waiting for it.                                *)
LEMMA SendEnqueueSInv ==
  ASSUME SInv, SendEnqueue
  PROVE  SInv'
<1>0. /\ Structure /\ TypeOK /\ panic = "no" /\ InSend /\ call.pc = "enqueue"
  BY DEF SInv, Structure, SendEnqueue, At
<1>a. PICK p \in Proc, dest \in Proc : p = call.p /\ dest = call.peer
  BY <1>0 DEF InSend, SendPc
<1>1. p # dest /\ p_flags[p] = {} /\ ~deadlock(p, dest) /\ ~Awaits(dest, p)
  BY <1>0, <1>a DEF InSend, SendPc
<1>2. /\ p_flags' = [p_flags EXCEPT ![p] = @ \cup {SENDING}]
      /\ p_sendto' = [p_sendto EXCEPT ![p] = dest]
      /\ p_msg' = [p_msg EXCEPT ![p] = 1]
      /\ q_sending' = [q_sending EXCEPT ![dest] = Append(@, p)]
      /\ UNCHANGED <<p_recvfrom, has_int_msg, mem, panic>>
  BY <1>a DEF SendEnqueue
<1>3. call' \in CallType /\ call'.pc = "none" /\ InSend' /\ InReceive'
  BY ReturnsNone DEF SendEnqueue
<1>4. TypeOK'
  <2>1. Append(q_sending[dest], p) \in Seq(Proc)
    BY <1>0, <1>1 DEF TypeOK
  <2> QED
    BY <1>0, <1>1, <1>2, <2>1 DEF TypeOK
<1>5. /\ ~Sending(p) /\ Sending(p)' /\ p_sendto'[p] = dest
      /\ \A x \in Proc \ {p} : /\ Sending(x)' <=> Sending(x)
                               /\ p_sendto'[x] = p_sendto[x]
  BY <1>0, <1>1, <1>2 DEF Sending, TypeOK
<1>6. QueueExact'
  BY <1>0, <1>1, <1>2, <1>5, SenderJoins DEF Structure, TypeOK
<1>7. NoSendCycle'
  BY <1>0, <1>1, <1>5, NewEdge DEF Structure
<1>8. SendersAgree'
  BY <1>0, <1>1, <1>5, PseudoProcAssumption DEF Structure, SendersAgree
<1>9. ReceiversAgree'
  BY <1>0, <1>1, <1>2, <1>3 DEF Structure, ReceiversAgree, TypeOK
<1>10. NoMissedRendezvous'
  <2>1. \A d, x \in Proc : Awaits(d, x)' => Awaits(d, x)
    BY <1>0, <1>1, <1>2 DEF Awaits, TypeOK, SENDING, RECEIVING
  <2>2. ASSUME NEW x \in Proc, NEW d \in Proc, Sending(x)', p_sendto'[x] = d
        PROVE  ~Awaits(d, x)
    <3>1. CASE x = p
      BY <1>1, <1>5, <2>2, <3>1
    <3>2. CASE x # p
      BY <1>0, <1>5, <2>2, <3>2 DEF NoMissedRendezvous, Structure
    <3> QED
      BY <3>1, <3>2
  <2> QED
    BY <2>1, <2>2 DEF NoMissedRendezvous
<1> QED
  BY <1>3, <1>4, <1>6, <1>7, <1>8, <1>9, <1>10 DEF SInv, Structure

(* Looking for an interrupt touches none of this.                          *)
LEMMA ReceiveFirstSInv ==
  ASSUME SInv, \/ ReceiveTestInt \/ ReceiveCopyInt \/ ReceiveClearInt
               \/ ReceiveAssertInt \/ ReceiveLookStray
  PROVE  SInv'
<1>0. /\ Structure /\ TypeOK /\ call \in CallType /\ panic = "no" /\ InReceive
      /\ call.pc \in {"int", "intcopy", "intclear", "intassert", "look"}
  BY DEF SInv, Structure, ReceiveTestInt, ReceiveCopyInt, ReceiveClearInt,
         ReceiveAssertInt, ReceiveLookStray, At
<1>1. /\ call.p \in Proc /\ call.peer \in Source /\ call.p # call.peer
      /\ p_flags[call.p] = {} /\ ~Sending(call.p)
  BY <1>0 DEF InReceive, ReceivePc
<1>2. TypeOK' /\ UNCHANGED <<p_flags, p_sendto, q_sending, p_recvfrom>>
  <2>1. CASE ReceiveTestInt
    BY <1>0, <2>1 DEF ReceiveTestInt, vars, TypeOK
  <2>2. CASE ReceiveCopyInt
    BY <1>0, <1>1, <2>2 DEF ReceiveCopyInt, TypeOK, IntMessage, Message
  <2>3. CASE ReceiveClearInt
    BY <1>0, <1>1, <2>3 DEF ReceiveClearInt, TypeOK
  <2>4. CASE ReceiveLookStray
    BY <1>0, <2>4 DEF ReceiveLookStray, TypeOK
  <2>5. CASE ReceiveAssertInt
    BY <1>0, <2>5 DEF ReceiveAssertInt, TypeOK
  <2> QED
    BY <2>1, <2>2, <2>3, <2>4, <2>5
<1>3. /\ call' \in CallType
      /\ panic' = "no" =>
           \/ call'.pc = "none"
           \/ /\ call'.p = call.p /\ call'.peer = call.peer
              /\ call'.pc \in {"intcopy", "intclear", "intassert", "look"}
  <2>1. CASE ReceiveTestInt
    BY <1>0, <2>1, GoToNext DEF ReceiveTestInt, ReceivePc
  <2>2. CASE ReceiveCopyInt
    BY <1>0, <2>2, GoToNext DEF ReceiveCopyInt, ReceivePc
  <2>3. CASE ReceiveClearInt
    BY <1>0, <2>3, GoToNext DEF ReceiveClearInt, ReceivePc
  <2>4. CASE ReceiveLookStray
    BY <1>0, <2>4 DEF ReceiveLookStray
  <2>5. CASE ReceiveAssertInt
    BY <1>0, <2>5, ReturnsNone DEF ReceiveAssertInt
  <2> QED
    BY <2>1, <2>2, <2>3, <2>4, <2>5
<1>4. Structure'
  BY <1>0, <1>2, <1>3, StillStructure
<1>5. panic' = "no" => InReceive' /\ InSend'
  BY <1>1, <1>2, <1>3 DEF InReceive, InSend, ReceivePc, SendPc, Sending
<1> QED
  BY <1>4, <1>5 DEF SInv

(* A fetch, as Ipc's: the sender leaves the queue it was in.               *)
LEMMA ReceiveLookSInv ==
  ASSUME SInv, ReceiveLook
  PROVE  SInv'
<1>0. /\ Structure /\ TypeOK /\ call \in CallType /\ panic = "no" /\ InReceive
      /\ call.pc = "look"
  BY DEF SInv, Structure, ReceiveLook, At
<1>a. PICK p \in Proc, src \in Source : p = call.p /\ src = call.peer
  BY <1>0 DEF InReceive, ReceivePc
<1>1. p # src /\ ~Sending(p) /\ p_flags[p] = {}
  BY <1>0, <1>a DEF InReceive, ReceivePc
<1>2. CASE CopyOk(p, src)
  <2>a. PICK i \in 1..Len(q_sending[p]) : i = FetchIndex(p, src)
    BY <1>0, <1>2, FetchIndexInQueue DEF Structure
  <2>1. PICK from \in Proc : from = q_sending[p][i]
    BY <1>0, ElementOfSeq DEF TypeOK
  <2>2. Sending(from) /\ p_sendto[from] = p
    BY <1>0, <1>1, <2>1 DEF Structure, QueueExact
  <2>3. /\ q_sending' = [q_sending EXCEPT ![p] = Unlink(@, i)]
        /\ mem' = [mem EXCEPT ![p] = mem[from]]
        /\ p_msg' = [p_msg EXCEPT ![from] = 0]
        /\ p_sendto' = [p_sendto EXCEPT ![from] = NO_TASK]
        /\ p_flags' = [p_flags EXCEPT ![from] = @ \ {SENDING}]
        /\ Return
        /\ UNCHANGED <<p_recvfrom, has_int_msg, panic>>
    BY <1>a, <1>2, <2>a, <2>1 DEF ReceiveLook
  <2>4. Unlink(q_sending[p], i) \in Seq(Proc)
    BY <1>0, <1>1, <2>1, UnlinkProperties DEF TypeOK
  <2>6. TypeOK'
    BY <1>0, <1>1, <2>1, <2>3, <2>4 DEF TypeOK
  <2>7. /\ ~Sending(from)'
        /\ \A x \in Proc \ {from} : /\ Sending(x)' <=> Sending(x)
                                    /\ p_sendto'[x] = p_sendto[x]
    BY <1>0, <2>1, <2>3 DEF Sending, TypeOK
  <2>8. QueueExact'
    BY <1>0, <1>1, <2>1, <2>2, <2>3, <2>7, SenderLeaves DEF Structure, TypeOK
  <2>9. \A x \in Proc : Sending(x)' => Sending(x) /\ p_sendto'[x] = p_sendto[x]
    BY <2>7
  <2>10. NoSendCycle'
    BY <1>0, <2>9, FewerSenders DEF Structure
  <2>11. \A d \in Proc : RECEIVING \in p_flags'[d] <=> RECEIVING \in p_flags[d]
    BY <1>0, <2>1, <2>3 DEF TypeOK, SENDING, RECEIVING
  <2>12. NoMissedRendezvous'
    BY <1>0, <2>3, <2>9, <2>11, FewerBlocked DEF Structure
  <2>13. SendersAgree'
    BY <1>0, <2>1, <2>3, <2>7 DEF Structure, SendersAgree, TypeOK
  <2>14. ReceiversAgree'
    BY <1>0, <2>3, <2>11 DEF Structure, ReceiversAgree
  <2> QED
    BY <2>3, <2>6, <2>8, <2>10, <2>12, <2>13, <2>14, ReturnsNone DEF SInv, Structure
<1>3. CASE ~CopyOk(p, src)
  <2>1. GoTo("flag") /\ UNCHANGED vars
    BY <1>a, <1>3 DEF ReceiveLook, vars
  <2>2. /\ call' \in CallType /\ call'.p = p /\ call'.peer = src /\ call'.pc = "flag"
    BY <1>0, <1>a, <2>1, GoToNext DEF ReceivePc
  <2>3. TypeOK' /\ UNCHANGED <<p_flags, p_sendto, q_sending, p_recvfrom>>
    BY <1>0, <2>1 DEF vars, TypeOK
  <2>4. Structure' /\ Quiet
    BY <1>0, <2>2, <2>3, StillStructure
  <2>5. ~CopyOk(p, src)'
    BY <1>1, <1>3, <2>2, <2>3 DEF CopyOk, Sending
  <2>6. InReceive' /\ InSend'
    BY <1>1, <2>2, <2>3, <2>5 DEF InReceive, InSend, SendPc, Sending
  <2> QED
    BY <2>4, <2>6 DEF SInv
<1> QED
  BY <1>2, <1>3

(* The receiver is marked, without p_recvfrom yet: it awaits nobody.       *)
LEMMA ReceiveSetFlagSInv ==
  ASSUME SInv, ReceiveSetFlag
  PROVE  SInv'
<1>0. /\ Structure /\ TypeOK /\ call \in CallType /\ panic = "no" /\ InReceive
      /\ call.pc = "flag"
  BY DEF SInv, Structure, ReceiveSetFlag, At
<1>a. PICK p \in Proc, src \in Source : p = call.p /\ src = call.peer
  BY <1>0 DEF InReceive, ReceivePc
<1>1. p # src /\ ~Sending(p) /\ p_flags[p] = {} /\ ~CopyOk(p, src)
  BY <1>0, <1>a DEF InReceive, ReceivePc
<1>2. p_recvfrom[p] = NO_TASK
  BY <1>0, <1>1 DEF Structure, ReceiversAgree
<1>3. /\ p_flags' = [p_flags EXCEPT ![p] = {RECEIVING}]
      /\ UNCHANGED <<p_recvfrom, p_sendto, p_msg, q_sending, has_int_msg, mem, panic>>
  BY <1>0, <1>a, <1>1 DEF ReceiveSetFlag, TypeOK
<1>4. /\ call' \in CallType /\ call'.p = p /\ call'.peer = src /\ call'.pc = "msg"
  BY <1>0, <1>a, GoToNext DEF ReceiveSetFlag, ReceivePc
<1>5. TypeOK'
  BY <1>0, <1>3 DEF TypeOK
<1>6. Quiet
  BY <1>0, <1>1, <1>3 DEF Quiet, TypeOK, Sending, SENDING, RECEIVING
<1>7. ReceiversAgree'
  BY <1>0, <1>3 DEF Structure, ReceiversAgree, TypeOK
<1>8. \A d, x \in Proc : Awaits(d, x)' => Awaits(d, x)
  BY <1>0, <1>2, <1>3, PseudoProcAssumption DEF Awaits, TypeOK
<1>9. NoMissedRendezvous'
  BY <1>0, <1>6, <1>8 DEF NoMissedRendezvous, Quiet, Structure
<1>10. Structure'
  BY <1>0, <1>4, <1>5, <1>6, <1>7, <1>9, QuietKeeps DEF Structure
<1>11. ~Sending(p)' /\ ~CopyOk(p, src)'
  BY <1>1, <1>6, QuietKeeps DEF Quiet
<1>12. RECEIVING \in p_flags'[p] /\ p_recvfrom'[p] = NO_TASK
  BY <1>0, <1>2, <1>3 DEF TypeOK
<1>13. InReceive' /\ InSend'
  BY <1>1, <1>4, <1>11, <1>12 DEF InReceive, InSend, SendPc, Sending, CopyOk
<1> QED
  BY <1>10, <1>13 DEF SInv

(* p_msg and p_recvfrom of the receiver come after its flag; here p_msg.   *)
LEMMA ReceiveSetMsgSInv ==
  ASSUME SInv, ReceiveSetMsg
  PROVE  SInv'
<1>0. /\ Structure /\ TypeOK /\ call \in CallType /\ panic = "no" /\ InReceive
      /\ call.pc = "msg"
  BY DEF SInv, Structure, ReceiveSetMsg, At
<1>a. PICK p \in Proc, src \in Source : p = call.p /\ src = call.peer
  BY <1>0 DEF InReceive, ReceivePc
<1>1. /\ p # src /\ ~Sending(p) /\ ~CopyOk(p, src)
      /\ RECEIVING \in p_flags[p] /\ p_recvfrom[p] = NO_TASK
  BY <1>0, <1>a DEF InReceive, ReceivePc
<1>2. TypeOK' /\ UNCHANGED <<p_flags, p_recvfrom, p_sendto, q_sending>>
  BY <1>0, <1>a DEF ReceiveSetMsg, TypeOK
<1>3. /\ call' \in CallType /\ call'.p = p /\ call'.peer = src /\ call'.pc = "from"
  BY <1>0, <1>a, GoToNext DEF ReceiveSetMsg, ReceivePc
<1>4. Structure' /\ Quiet
  BY <1>0, <1>2, <1>3, StillStructure
<1>5. ~Sending(p)' /\ ~CopyOk(p, src)'
  BY <1>1, <1>4, QuietKeeps DEF Quiet
<1>6. InReceive' /\ InSend'
  BY <1>1, <1>2, <1>3, <1>5 DEF InReceive, InSend, SendPc, Sending, CopyOk
<1> QED
  BY <1>4, <1>6 DEF SInv

(* Whom the receiver now awaits, is not sending to it.                     *)
LEMMA ReceiveSetFromSInv ==
  ASSUME SInv, ReceiveSetFrom
  PROVE  SInv'
<1>0. /\ Structure /\ TypeOK /\ call \in CallType /\ panic = "no" /\ InReceive
      /\ call.pc = "from"
  BY DEF SInv, Structure, ReceiveSetFrom, At
<1>a. PICK p \in Proc, src \in Source : p = call.p /\ src = call.peer
  BY <1>0 DEF InReceive, ReceivePc
<1>1. /\ p # src /\ ~Sending(p) /\ ~CopyOk(p, src) /\ RECEIVING \in p_flags[p]
  BY <1>0, <1>a DEF InReceive, ReceivePc
<1>2. /\ p_recvfrom' = [p_recvfrom EXCEPT ![p] = src]
      /\ UNCHANGED <<p_flags, p_sendto, p_msg, q_sending, has_int_msg, mem, panic>>
  BY <1>a DEF ReceiveSetFrom
<1>3. /\ call' \in CallType /\ call'.p = p /\ call'.peer = src /\ call'.pc = "block"
  BY <1>0, <1>a, GoToNext DEF ReceiveSetFrom, ReceivePc
<1>4. TypeOK'
  BY <1>0, <1>2 DEF TypeOK
<1>5. Quiet
  BY <1>2 DEF Quiet, Sending
<1>6. ReceiversAgree'
  BY <1>0, <1>1, <1>2 DEF Structure, ReceiversAgree, TypeOK
<1>7. NoMissedRendezvous'
  <2> SUFFICES ASSUME NEW x \in Proc, NEW d \in Proc, Sending(x), p_sendto[x] = d
               PROVE  ~Awaits(d, x)'
    BY <1>5 DEF NoMissedRendezvous, Quiet
  <2>1. CASE d # p
    BY <1>0, <1>2, <2>1 DEF Structure, NoMissedRendezvous, Awaits, TypeOK
  <2>2. CASE d = p
    <3>1. \E k \in 1..Len(q_sending[p]) : q_sending[p][k] = x
      BY <1>0, <2>2 DEF Structure, QueueExact
    <3>2. q_sending[p] # << >>
      BY <3>1
    <3>3. src # ANY /\ src # x
      BY <1>1, <2>2, <3>2 DEF CopyOk
    <3> QED
      BY <1>0, <1>2, <2>2, <3>3 DEF Awaits, TypeOK
  <2> QED
    BY <2>1, <2>2
<1>8. Structure'
  BY <1>0, <1>3, <1>4, <1>5, <1>6, <1>7, QuietKeeps DEF Structure
<1>9. ~Sending(p)' /\ ~CopyOk(p, src)'
  BY <1>1, <1>5, QuietKeeps DEF Quiet
<1>10. InReceive' /\ InSend'
  BY <1>1, <1>3, <1>9 DEF InReceive, InSend, SendPc, Sending, CopyOk
<1> QED
  BY <1>8, <1>10 DEF SInv

(* The receiver has set everything: block() returns from the call.         *)
LEMMA ReceiveDoBlockSInv ==
  ASSUME SInv, ReceiveDoBlock
  PROVE  SInv'
<1>0. Structure /\ TypeOK /\ call \in CallType /\ call.pc = "block"
  BY DEF SInv, Structure, ReceiveDoBlock, At
<1>1. TypeOK' /\ UNCHANGED <<p_flags, p_recvfrom, p_sendto, q_sending>>
  BY <1>0 DEF ReceiveDoBlock, TypeOK
<1>2. call' \in CallType /\ (panic' = "no" => InSend' /\ InReceive')
  BY <1>0, ReturnsNone DEF ReceiveDoBlock
<1>3. Structure'
  BY <1>0, <1>1, <1>2, StillStructure
<1> QED
  BY <1>2, <1>3 DEF SInv

(* An interrupt releases a receiver, or is remembered.                     *)
LEMMA PreemptDeliverSInv ==
  ASSUME SInv, NEW t \in IrqTask, PreemptDeliver(t)
  PROVE  SInv'
<1>0. /\ Structure /\ TypeOK /\ panic = "no" /\ InSend /\ InReceive /\ t \in Proc
      /\ RECEIVING \in p_flags[t] /\ p_recvfrom[t] \in {INTERRUPT, ANY}
  BY IrqTaskAssumption DEF SInv, Structure, PreemptDeliver, Informs
<1>1. /\ p_flags' = [p_flags EXCEPT ![t] = @ \ {RECEIVING}]
      /\ p_recvfrom' = [p_recvfrom EXCEPT ![t] = NO_TASK]
      /\ UNCHANGED <<p_sendto, q_sending, panic, call>>
  BY DEF PreemptDeliver
<1>2. TypeOK'
  BY <1>0 DEF PreemptDeliver, TypeOK, IntMessage, Message
<1>3. Quiet
  BY <1>0, <1>1 DEF Quiet, TypeOK, Sending, SENDING, RECEIVING
<1>4. ReceiversAgree'
  BY <1>0, <1>1 DEF Structure, ReceiversAgree, TypeOK
<1>5. \A d \in Proc : RECEIVING \in p_flags'[d] =>
            RECEIVING \in p_flags[d] /\ p_recvfrom'[d] = p_recvfrom[d]
  BY <1>0, <1>1 DEF TypeOK
<1>6. Structure'
  BY <1>0, <1>1, <1>2, <1>3, <1>4, <1>5, QuietStructure DEF Structure
<1>7. InSend'
  <2> SUFFICES ASSUME call.pc \in SendPc PROVE InSend'
    BY <1>1 DEF InSend
  <2>1. /\ call.p \in Proc /\ call.peer \in Proc /\ call.p # call.peer
        /\ p_flags[call.p] = {} /\ ~deadlock(call.p, call.peer)
        /\ call.pc = "enqueue" => ~Awaits(call.peer, call.p)
    BY <1>0 DEF InSend
  <2>2. p_flags'[call.p] = {}
    BY <1>0, <1>1, <2>1 DEF TypeOK
  <2>3. ~deadlock(call.p, call.peer)'
    BY <1>1, <1>3, <2>1, QuietKeeps
  <2>4. Awaits(call.peer, call.p)' => Awaits(call.peer, call.p)
    BY <1>1, <1>5, <2>1 DEF Awaits
  <2> QED
    BY <1>1, <2>1, <2>2, <2>3, <2>4 DEF InSend
<1>8. InReceive'
  <2> SUFFICES ASSUME call.pc \in ReceivePc PROVE InReceive'
    BY <1>1 DEF InReceive
  <2>1. /\ call.p \in Proc /\ call.peer \in Source /\ ~Sending(call.p)
        /\ call.pc \in {"int", "intcopy", "intclear", "intassert", "look", "flag"} =>
             p_flags[call.p] = {}
        /\ call.pc \in {"msg", "from"} =>
             RECEIVING \in p_flags[call.p] /\ p_recvfrom[call.p] = NO_TASK
        /\ call.pc \in {"flag", "msg", "from", "block"} => ~CopyOk(call.p, call.peer)
    BY <1>0 DEF InReceive
  <2>2. ~Sending(call.p)' /\ (CopyOk(call.p, call.peer)' <=> CopyOk(call.p, call.peer))
    BY <1>1, <1>3, <2>1, QuietKeeps DEF Quiet
  <2>3. call.pc \in {"int", "intcopy", "intclear", "intassert", "look", "flag"} =>
             p_flags'[call.p] = {}
    BY <1>0, <1>1, <2>1 DEF TypeOK
  <2>4. call.pc \in {"msg", "from"} => call.p # t
    BY <1>0, <2>1, PseudoProcAssumption
  <2>5. call.pc \in {"msg", "from"} =>
             RECEIVING \in p_flags'[call.p] /\ p_recvfrom'[call.p] = NO_TASK
    BY <1>0, <1>1, <2>1, <2>4 DEF TypeOK
  <2> QED
    BY <1>0, <1>1, <2>1, <2>2, <2>3, <2>5 DEF InReceive
<1> QED
  BY <1>6, <1>7, <1>8 DEF SInv

(* A step that leaves flags, queues and the call alone keeps all of it.    *)
LEMMA UntouchedSInv ==
  ASSUME SInv, TypeOK',
         UNCHANGED <<p_flags, p_recvfrom, p_sendto, q_sending, panic, call>>
  PROVE  SInv'
<1>0. Structure /\ call \in CallType
  BY DEF SInv, Structure
<1>1. Quiet
  BY DEF Quiet, Sending
<1>2. ReceiversAgree'
  BY <1>0 DEF Structure, ReceiversAgree
<1>3. Structure'
  BY <1>0, <1>1, <1>2, QuietStructure
<1>4. InSend <=> InSend'
  BY DEF InSend, deadlock, ChainClosed, Sending, Awaits
<1>5. InReceive <=> InReceive'
  BY DEF InReceive, CopyOk, Sending
<1> QED
  BY <1>3, <1>4, <1>5 DEF SInv

(* An interrupt that is remembered does that.                              *)
LEMMA PreemptPendSInv ==
  ASSUME SInv, NEW t \in IrqTask, PreemptPend(t)
  PROVE  SInv'
<1>1. TypeOK'
  BY DEF SInv, Structure, PreemptPend, InformPend, TypeOK
<1> QED
  BY <1>1, UntouchedSInv DEF PreemptPend, InformPend

-----------------------------------------------------------------------------
(* At the start no call is in progress and the table is that of Ipc.       *)
LEMMA InitSInv == PreemptInit => SInv
<1> SUFFICES ASSUME PreemptInit PROVE SInv
  OBVIOUS
<1>1. IInv
  BY InitIInv DEF PreemptInit
<1>2. call \in CallType /\ call.pc = "none"
  BY DEF PreemptInit, NoCall, CallType
<1>3. SendersAgree /\ ReceiversAgree
  BY <1>1 DEF IInv, BlockedStateAgrees, SendersAgree, ReceiversAgree
<1> QED
  BY <1>1, <1>2, <1>3 DEF IInv, SInv, Structure, InSend, InReceive, SendPc, ReceivePc

(* Each statement of a call and each interrupt keeps the invariant.        *)
LEMMA StepSInv == SInv /\ [PreemptNext]_pvars => SInv'
<1> SUFFICES ASSUME SInv, [PreemptNext]_pvars PROVE SInv'
  OBVIOUS
<1>1. CASE SendStatement
  BY <1>1, SendFirstSInv, SendLastSInv, SendEnqueueSInv DEF SendStatement
<1>2. CASE ReceiveStatement
  BY <1>2, ReceiveFirstSInv, ReceiveLookSInv, ReceiveSetFlagSInv, ReceiveSetMsgSInv,
     ReceiveSetFromSInv, ReceiveDoBlockSInv DEF ReceiveStatement
<1>3. CASE \E t \in IrqTask : PreemptInform(t)
  BY <1>3, PreemptDeliverSInv, PreemptPendSInv DEF PreemptInform
<1>4. CASE UNCHANGED pvars
  <2>1. TypeOK'
    BY <1>4 DEF pvars, SInv, Structure, TypeOK
  <2> QED
    BY <1>4, <2>1, UntouchedSInv DEF pvars
<1> QED
  BY <1>1, <1>2, <1>3, <1>4, EnterSendSInv, EnterReceiveSInv DEF PreemptNext, CallStep

(* Wherever interrupts fall, the queues hold the blocked senders, nobody   *)
(* misses a rendezvous, and no circle of senders comes about.              *)
THEOREM StructureKept == PreemptSpec => []StructureSurvives
<1>1. SInv => StructureSurvives
  BY DEF SInv, Structure, StructureSurvives
<1> QED
  BY <1>1, InitSInv, StepSInv, PTL DEF PreemptSpec

(* The variables seen and disturbed only watch.                            *)
LEMMA AtomicIsPreempt == AtomicSpec => PreemptSpec
<1>1. AtomicInit => PreemptInit
  BY DEF AtomicInit
<1>2. [AtomicNext]_hvars => [PreemptNext]_pvars
  <2>1. ASSUME NEW t \in IrqTask, ShownInform(t) \/ DisturbingInform(t)
        PROVE  PreemptInform(t)
    BY <2>1 DEF ShownInform, DisturbingInform, PreemptInform
  <2> QED
    BY <2>1 DEF AtomicNext, ShownCall, PreemptNext, hvars
<1> QED
  BY <1>1, <1>2, PTL DEF AtomicSpec, PreemptSpec

(* The same of the specification the run checks, which adds the history    *)
(* variables: whatever statement of msg_send() or msg_receive() an         *)
(* interrupt falls on, the structure of the process table survives.        *)
THEOREM StructureKeptWithHistory == AtomicSpec => []StructureSurvives
BY StructureKept, AtomicIsPreempt, PTL

-----------------------------------------------------------------------------
(* What seen shows of the table while no interrupt has disturbed a call:   *)
(* the table without what the call has done so far.                        *)

SeenShape ==
  seen = [p_flags |-> seen.p_flags, p_recvfrom |-> seen.p_recvfrom,
          p_sendto |-> seen.p_sendto, p_msg |-> seen.p_msg,
          q_sending |-> seen.q_sending, has_int_msg |-> seen.has_int_msg,
          mem |-> seen.mem, panic |-> seen.panic]

FlagsShown ==
  p_flags =
    IF call.pc = "unfrom" THEN [seen.p_flags EXCEPT ![call.peer] = @ \ {RECEIVING}]
    ELSE IF call.pc \in {"msg", "from", "block"}
         THEN [seen.p_flags EXCEPT ![call.p] = {RECEIVING}]
         ELSE seen.p_flags

FromShown ==
  p_recvfrom = IF call.pc = "block" THEN [seen.p_recvfrom EXCEPT ![call.p] = call.peer]
               ELSE seen.p_recvfrom

MsgShown ==
  p_msg = IF call.pc \in {"unflag", "unfrom"} THEN [seen.p_msg EXCEPT ![call.peer] = 0]
          ELSE IF call.pc \in {"from", "block"} THEN [seen.p_msg EXCEPT ![call.p] = 1]
               ELSE seen.p_msg

MemShown ==
  /\ call.pc = "none" => mem = seen.mem
  /\ call.pc \in {"test", "assert", "copy", "enqueue"} =>
       \E t \in Type : mem = [seen.mem EXCEPT ![call.p] = Stamped(call.p, t)]
  /\ call.pc \in {"unmsg", "unflag", "unfrom"} =>
       \E t \in Type : mem = [seen.mem EXCEPT ![call.p] = Stamped(call.p, t),
                                              ![call.peer] = Stamped(call.p, t)]
  /\ call.pc \in ReceivePc \ {"intclear", "intassert"} =>
       mem = [seen.mem EXCEPT ![call.p].source = call.p]
  /\ call.pc \in {"intclear", "intassert"} =>
       mem = [seen.mem EXCEPT ![call.p] = IntMessage]

IntShown ==
  /\ call.pc # "intassert" => has_int_msg = seen.has_int_msg
  /\ call.pc = "intassert" => has_int_msg = [seen.has_int_msg EXCEPT ![call.p] = 0]

(* What the call in progress has found still holds of seen.                *)
FoundShown ==
  /\ call.pc \in {"assert", "copy", "unmsg", "unflag", "unfrom"} =>
       Kernel!Awaits(call.peer, call.p)
  /\ call.pc = "enqueue" => ~Kernel!Awaits(call.peer, call.p)
  /\ call.pc \in {"intcopy", "intclear", "intassert"} =>
       Kernel!TakesInt(call.p, call.peer)
  /\ call.pc \in {"look", "flag", "msg", "from", "block"} =>
       ~Kernel!TakesInt(call.p, call.peer)
  /\ call.pc \in {"msg", "from", "block"} => seen.p_flags[call.p] = {}

TableShown ==
  /\ seen.panic = "no"
  /\ seen.p_sendto = p_sendto /\ seen.q_sending = q_sending
  /\ IntShown
  /\ FlagsShown /\ FromShown /\ MsgShown /\ MemShown
  /\ FoundShown

Shown == INSTANCE IpcProofs WITH
           p_flags <- seen.p_flags, p_recvfrom <- seen.p_recvfrom,
           p_sendto <- seen.p_sendto, p_msg <- seen.p_msg,
           q_sending <- seen.q_sending, has_int_msg <- seen.has_int_msg,
           mem <- seen.mem, panic <- seen.panic

AInv ==
  /\ SInv
  /\ ~disturbed => /\ SeenShape /\ Shown!IInv
                   /\ panic = "no" => TableShown
                   /\ panic # "no" => seen = Table

-----------------------------------------------------------------------------
(* Kernel, the table that seen shows, under the names of IpcProofs.        *)

(* The instance Kernel of Ipc and the instance Shown of IpcProofs are two  *)
(* names of the same SEND, ...                                             *)
LEMMA SameSends ==
  ASSUME NEW p, NEW dest, NEW t
  PROVE  Kernel!SendStep(p, dest, t) <=> Shown!SendStep(p, dest, t)
<1> USE DEF Kernel!CanCall, Shown!CanCall, Kernel!deadlock, Shown!deadlock,
            Kernel!ChainClosed, Shown!ChainClosed, Kernel!Sending, Shown!Sending,
            Kernel!Stamped, Shown!Stamped, Kernel!Awaits, Shown!Awaits,
            Kernel!SENDING, Shown!SENDING, Kernel!RECEIVING, Shown!RECEIVING
<1>1. Kernel!SendDeadlock(p, dest, t) <=> Shown!SendDeadlock(p, dest, t)
  BY DEF Kernel!SendDeadlock, Shown!SendDeadlock
<1>2. Kernel!SendDeliver(p, dest, t) <=> Shown!SendDeliver(p, dest, t)
  BY DEF Kernel!SendDeliver, Shown!SendDeliver
<1>3. Kernel!SendBlock(p, dest, t) <=> Shown!SendBlock(p, dest, t)
  BY DEF Kernel!SendBlock, Shown!SendBlock
<1> QED
  BY <1>1, <1>2, <1>3 DEF Kernel!SendStep, Shown!SendStep

(* ... RECEIVE ...                                                         *)
LEMMA SameReceives ==
  ASSUME NEW p, NEW src
  PROVE  /\ Kernel!ReceiveStep(p, src) <=> Shown!ReceiveStep(p, src)
         /\ Kernel!ReceiveStray(p) <=> Shown!ReceiveStray(p)
<1> USE DEF Kernel!CanCall, Shown!CanCall, Kernel!Sending, Shown!Sending,
            Kernel!TakesInt, Shown!TakesInt, Kernel!CopyOk, Shown!CopyOk,
            Kernel!SENDING, Shown!SENDING, Kernel!RECEIVING, Shown!RECEIVING
<1>1. Kernel!ReceiveInterrupt(p, src) <=> Shown!ReceiveInterrupt(p, src)
  BY DEF Kernel!ReceiveInterrupt, Shown!ReceiveInterrupt,
         Kernel!IntMessage, Shown!IntMessage
<1>2. Kernel!ReceiveFetch(p, src) <=> Shown!ReceiveFetch(p, src)
  BY DEF Kernel!ReceiveFetch, Shown!ReceiveFetch, Kernel!Unlink, Shown!Unlink,
         Kernel!FetchIndex, Shown!FetchIndex
<1>3. Kernel!ReceiveBlock(p, src) <=> Shown!ReceiveBlock(p, src)
  BY DEF Kernel!ReceiveBlock, Shown!ReceiveBlock
<1>4. Kernel!ReceiveStray(p) <=> Shown!ReceiveStray(p)
  BY DEF Kernel!ReceiveStray, Shown!ReceiveStray
<1> QED
  BY <1>1, <1>2, <1>3, <1>4 DEF Kernel!ReceiveStep, Shown!ReceiveStep

(* ... and inform_int().                                                   *)
LEMMA SameInforms ==
  ASSUME NEW t
  PROVE  Kernel!InformStep(t) <=> Shown!InformStep(t)
<1> USE DEF Kernel!Informs, Shown!Informs, Kernel!RECEIVING, Shown!RECEIVING
<1>1. Kernel!InformDeliver(t) <=> Shown!InformDeliver(t)
  BY DEF Kernel!InformDeliver, Shown!InformDeliver,
         Kernel!IntMessage, Shown!IntMessage
<1>2. Kernel!InformPend(t) <=> Shown!InformPend(t)
  BY DEF Kernel!InformPend, Shown!InformPend
<1> QED
  BY <1>1, <1>2 DEF Kernel!InformStep, Shown!InformStep

(* So they have the same initial states and the same steps.                *)
LEMMA SameKernel ==
  /\ Kernel!Next => Shown!Next
  /\ Kernel!vars = Shown!vars
  /\ Kernel!Init <=> Shown!Init
<1>1. Kernel!Next => Shown!Next
  BY SameSends, SameReceives, SameInforms
     DEF Kernel!Next, Shown!Next, Kernel!Source, Shown!Source
<1>2. Kernel!vars = Shown!vars
  BY DEF Kernel!vars, Shown!vars
<1>3. Kernel!Init <=> Shown!Init
  BY DEF Kernel!Init, Shown!Init
<1> QED
  BY <1>1, <1>2, <1>3

(* A step of Ipc keeps what Ipc keeps.                                     *)
LEMMA ShownInvariant == Shown!IInv /\ [Kernel!Next]_(Kernel!vars) => Shown!IInv'
<1>1. Shown!IInv /\ [Shown!Next]_(Shown!vars) => Shown!IInv'
  BY Shown!StepIInv, IrqTaskAssumption, PseudoProcAssumption, TypeAssumption
<1>2. Kernel!vars' = Kernel!vars => Shown!vars' = Shown!vars
  BY DEF Kernel!vars, Shown!vars
<1> QED
  BY <1>1, <1>2, SameKernel

(* What the proofs need of it.                                             *)
LEMMA SeenFacts ==
  ASSUME Shown!IInv
  PROVE  /\ seen.p_flags \in [Proc -> SUBSET {SENDING, RECEIVING}]
         /\ seen.p_recvfrom \in [Proc -> Source \cup {NO_TASK}]
         /\ seen.p_sendto \in [Proc -> Proc \cup {NO_TASK}]
         /\ seen.p_msg \in [Proc -> {0, 1}]
         /\ seen.has_int_msg \in [Proc -> {0, 1}]
         /\ seen.mem \in [Proc -> Message]
         /\ \A x \in Proc :
              /\ RECEIVING \in seen.p_flags[x] <=> seen.p_recvfrom[x] # NO_TASK
              /\ seen.p_flags[x] # {SENDING, RECEIVING}
              /\ seen.p_msg[x] = 1 <=> seen.p_flags[x] # {}
<1>1. Shown!TypeOK /\ Shown!BlockedStateAgrees
  BY DEF Shown!IInv
<1> QED
  BY <1>1 DEF Shown!TypeOK, Shown!BlockedStateAgrees, Shown!Sending, Shown!SENDING,
     Shown!RECEIVING, SENDING, RECEIVING, Shown!Source, Source, Shown!Message, Message

-----------------------------------------------------------------------------
(* Each statement of a call shows nothing, until the last one shows the    *)
(* step of Ipc that the whole call is.                                     *)

Follows ==
  /\ [Kernel!Next]_(Kernel!vars)
  /\ SeenShape'
  /\ panic' = "no" => TableShown'
  /\ panic' # "no" => seen' = Table'

(* A statement that shows nothing is a stuttering step of Ipc.             *)
LEMMA SilentFollows ==
  ASSUME SeenShape, seen' = seen, panic' = "no", TableShown'
  PROVE  Follows
BY DEF Follows, SeenShape, Kernel!vars

(* What seen shows when all of the table is shown.                         *)
LEMMA TableFields ==
  ASSUME seen' = Table'
  PROVE  /\ seen'.panic = panic' /\ seen'.p_sendto = p_sendto'
         /\ seen'.q_sending = q_sending' /\ seen'.has_int_msg = has_int_msg'
         /\ seen'.p_flags = p_flags' /\ seen'.p_recvfrom = p_recvfrom'
         /\ seen'.p_msg = p_msg' /\ seen'.mem = mem'
BY DEF Table

(* A call that returns or halts the machine shows the table as it is.      *)
LEMMA ReturnFollows ==
  ASSUME seen' = Table', call'.pc = "none" \/ panic' # "no", Kernel!Next
  PROVE  Follows
<1>1. SeenShape'
  BY DEF SeenShape, Table
<1>2. ASSUME panic' = "no" PROVE TableShown'
  <2>1. /\ seen'.panic = "no" /\ seen'.p_sendto = p_sendto'
        /\ seen'.q_sending = q_sending' /\ seen'.has_int_msg = has_int_msg'
        /\ seen'.p_flags = p_flags' /\ seen'.p_recvfrom = p_recvfrom'
        /\ seen'.p_msg = p_msg' /\ seen'.mem = mem'
    BY <1>2 DEF Table
  <2>2. call'.pc = "none"
    BY <1>2
  <2> QED
    BY <2>1, <2>2 DEF TableShown, IntShown, FlagsShown, FromShown, MsgShown, MemShown,
       FoundShown, ReceivePc
<1> QED
  BY <1>1, <1>2 DEF Follows

(* Where a call in progress stands.                                        *)
LEMMA InProgress ==
  ASSUME AInv, ~disturbed, panic = "no"
  PROVE  /\ Structure /\ TypeOK /\ call \in CallType /\ InSend /\ InReceive
         /\ SeenShape /\ Shown!IInv /\ TableShown
BY DEF AInv, SInv, Structure

(* deadlock() sees the same in both.                                       *)
LEMMA SameDeadlock ==
  ASSUME NEW p, NEW dest, seen.p_sendto = p_sendto,
         \A x \in Proc : Kernel!Sending(x) <=> Sending(x)
  PROVE  Kernel!deadlock(p, dest) <=> deadlock(p, dest)
<1>1. \A T \in SUBSET Proc : Kernel!ChainClosed(T) <=> ChainClosed(T)
  BY DEF Kernel!ChainClosed, ChainClosed
<1>2. \A T \in SUBSET Proc :
        {t \in T : Kernel!Sending(t) /\ seen.p_sendto[t] = p}
          = {t \in T : Sending(t) /\ p_sendto[t] = p}
  OBVIOUS
<1> QED
  BY <1>1, <1>2 DEF Kernel!deadlock, deadlock

(* Statements change who is receiving, and show who is sending.            *)
LEMMA SameSending ==
  ASSUME TypeOK, call \in CallType, InSend, InReceive, TableShown, Shown!IInv
  PROVE  \A x \in Proc : Kernel!Sending(x) <=> Sending(x)
<1>1. seen.p_flags \in [Proc -> SUBSET {SENDING, RECEIVING}]
  BY SeenFacts
<1>2. FlagsShown
  BY DEF TableShown, IntShown
<1>3. CASE call.pc = "unfrom"
  <2>1. call.peer \in Proc
    BY <1>3 DEF InSend, SendPc
  <2> QED
    BY <1>1, <1>2, <1>3, <2>1 DEF FlagsShown, Kernel!Sending, Kernel!SENDING,
       Sending, SENDING, RECEIVING
<1>4. CASE call.pc \in {"msg", "from", "block"}
  <2>1. call.p \in Proc /\ seen.p_flags[call.p] = {}
    BY <1>4 DEF InReceive, ReceivePc, TableShown, IntShown, FoundShown
  <2> QED
    BY <1>1, <1>2, <1>4, <2>1 DEF FlagsShown, Kernel!Sending, Kernel!SENDING,
       Sending, SENDING, RECEIVING
<1>5. CASE call.pc \notin {"unfrom", "msg", "from", "block"}
  BY <1>2, <1>5 DEF FlagsShown, Kernel!Sending, Kernel!SENDING, Sending, SENDING
<1> QED
  BY <1>3, <1>4, <1>5

(* A SEND that begins shows nothing, or panics at once: Ipc!SendDeadlock.  *)
LEMMA EnterSendFollows ==
  ASSUME AInv, ~disturbed, ShownCall, NEW p \in Proc, NEW dest \in Proc,
         NEW t \in Type, EnterSend(p, dest, t)
  PROVE  Follows
<1>0. /\ panic = "no" /\ call.pc = "none" /\ CanCall(p) /\ p # dest
      /\ mem' = [mem EXCEPT ![p] = Stamped(p, t)]
      /\ call' = [p |-> p, peer |-> dest, pc |-> "test"]
      /\ panic' = IF deadlock(p, dest) THEN "DEADLOCK" ELSE panic
      /\ UNCHANGED <<p_flags, p_recvfrom, p_sendto, p_msg, q_sending, has_int_msg>>
  BY DEF EnterSend, At
<1>1. /\ TypeOK /\ call \in CallType /\ InSend /\ InReceive
      /\ SeenShape /\ Shown!IInv /\ TableShown
  BY <1>0, InProgress
<1>2. /\ seen.p_flags = p_flags /\ seen.p_recvfrom = p_recvfrom
      /\ seen.p_msg = p_msg /\ seen.mem = mem /\ seen.panic = "no"
      /\ seen.p_sendto = p_sendto /\ seen.q_sending = q_sending
      /\ seen.has_int_msg = has_int_msg
  BY <1>0, <1>1 DEF TableShown, IntShown, FlagsShown, FromShown, MsgShown, MemShown
<1>3. CASE deadlock(p, dest)
  <2>1. seen' = Table' /\ panic' = "DEADLOCK"
    BY <1>0, <1>3 DEF ShownCall
  <2>2. Kernel!deadlock(p, dest)
    BY <1>1, <1>2, <1>3, SameDeadlock, SameSending
  <2>3. Kernel!SendDeadlock(p, dest, t)
    BY <1>0, <1>2, <2>1, <2>2 DEF Kernel!SendDeadlock, Kernel!CanCall, CanCall,
       Kernel!Stamped, Stamped, Table
  <2> QED
    BY <2>1, <2>3, ReturnFollows DEF Kernel!Next, Kernel!SendStep
<1>4. CASE ~deadlock(p, dest)
  <2>1. seen' = seen /\ panic' = "no" /\ call'.pc = "test" /\ call'.p = p
    BY <1>0, <1>4 DEF ShownCall, NoCall
  <2>2. TableShown'
    BY <1>0, <1>2, <2>1 DEF TableShown, IntShown, FlagsShown, FromShown, MsgShown, MemShown,
       FoundShown, ReceivePc, Stamped
  <2> QED
    BY <1>1, <2>1, <2>2, SilentFollows
<1> QED
  BY <1>3, <1>4

(* A RECEIVE that begins shows nothing.                                    *)
LEMMA EnterReceiveFollows ==
  ASSUME AInv, ~disturbed, ShownCall, NEW p \in Proc, NEW src \in Source,
         EnterReceive(p, src)
  PROVE  Follows
<1>0. /\ panic = "no" /\ call.pc = "none"
      /\ mem' = [mem EXCEPT ![p].source = p]
      /\ call' = [p |-> p, peer |-> src, pc |-> "int"]
      /\ UNCHANGED <<p_flags, p_recvfrom, p_sendto, p_msg, q_sending, has_int_msg,
                     panic>>
  BY DEF EnterReceive, At
<1>1. SeenShape /\ TableShown
  BY <1>0, InProgress
<1>2. seen' = seen /\ panic' = "no" /\ call'.pc = "int" /\ call'.p = p
  BY <1>0 DEF ShownCall, NoCall
<1>3. TableShown'
  BY <1>0, <1>1, <1>2 DEF TableShown, IntShown, FlagsShown, FromShown, MsgShown, MemShown,
     FoundShown, ReceivePc
<1> QED
  BY <1>1, <1>2, <1>3, SilentFollows

(* A silent statement: the call goes on to s, seen stays.                  *)
LEMMA Silent ==
  ASSUME AInv, ~disturbed, ShownCall, panic = "no", panic' = "no",
         NEW s \in SendPc \cup ReceivePc, GoTo(s)
  PROVE  /\ call' \in CallType /\ seen' = seen
         /\ call'.p = call.p /\ call'.peer = call.peer /\ call'.pc = s
<1>1. /\ call' \in CallType
      /\ call'.p = call.p /\ call'.peer = call.peer /\ call'.pc = s
  BY InProgress, GoToNext
<1>2. call' # NoCall
  BY <1>1 DEF NoCall, SendPc, ReceivePc
<1> QED
  BY <1>1, <1>2 DEF ShownCall

(* The sender has looked whether the destination awaits it.                *)
LEMMA SendTestFollows ==
  ASSUME AInv, ~disturbed, ShownCall, SendTest
  PROVE  Follows
<1>0. panic = "no" /\ call.pc = "test" /\ UNCHANGED vars
  BY DEF SendTest, At
<1>1. SeenShape /\ TableShown
  BY <1>0, InProgress
<1>2. /\ seen' = seen /\ panic' = "no" /\ call'.p = call.p /\ call'.peer = call.peer
      /\ call'.pc = IF Awaits(call.peer, call.p) THEN "assert" ELSE "enqueue"
  BY <1>0, Silent DEF SendTest, SendPc, vars
<1>3. Kernel!Awaits(call.peer, call.p) <=> Awaits(call.peer, call.p)
  BY <1>0, <1>1 DEF TableShown, IntShown, FlagsShown, FromShown, Kernel!Awaits, Awaits,
     Kernel!RECEIVING, RECEIVING
<1>4. FoundShown'
  BY <1>2, <1>3 DEF FoundShown, Kernel!Awaits
<1>5. FlagsShown' /\ FromShown' /\ MsgShown'
  BY <1>0, <1>1, <1>2 DEF TableShown, IntShown, FlagsShown, FromShown, MsgShown, vars
<1>6. MemShown'
  BY <1>0, <1>1, <1>2 DEF TableShown, IntShown, MemShown, vars, ReceivePc, Stamped
<1>7. TableShown'
  BY <1>0, <1>1, <1>2, <1>4, <1>5, <1>6 DEF TableShown, IntShown, vars
<1> QED
  BY <1>1, <1>2, <1>7, SilentFollows

(* The receiver's p_msg is set, so the assertion holds.                    *)
LEMMA ReceiverHasMsg ==
  ASSUME AInv, ~disturbed, panic = "no",
         call.pc \in {"assert", "copy", "unmsg", "unflag", "unfrom"}
  PROVE  seen.p_msg[call.peer] = 1
<1>1. TableShown /\ InSend /\ Shown!IInv
  BY InProgress
<1>2. call.peer \in Proc
  BY <1>1 DEF InSend, SendPc
<1>3. RECEIVING \in seen.p_flags[call.peer]
  BY <1>1 DEF TableShown, IntShown, FoundShown, Kernel!Awaits, Kernel!RECEIVING, RECEIVING
<1> QED
  BY <1>1, <1>2, <1>3, SeenFacts

(* So the statement shows nothing, and never panics.                       *)
LEMMA SendAssertFollows ==
  ASSUME AInv, ~disturbed, ShownCall, SendAssert
  PROVE  Follows
<1>0. /\ panic = "no" /\ call.pc = "assert"
      /\ UNCHANGED <<p_flags, p_recvfrom, p_sendto, p_msg, q_sending, has_int_msg,
                     mem>>
  BY DEF SendAssert, At
<1>1. SeenShape /\ TableShown
  BY <1>0, InProgress
<1>2. p_msg[call.peer] = 1
  BY <1>0, <1>1, ReceiverHasMsg DEF TableShown, IntShown, MsgShown
<1>3. panic' = "no" /\ GoTo("copy")
  BY <1>0, <1>2 DEF SendAssert
<1>4. /\ seen' = seen /\ call'.p = call.p /\ call'.peer = call.peer
      /\ call'.pc = "copy"
  BY <1>0, <1>3, Silent DEF SendPc
<1>5. MemShown' /\ FoundShown'
  BY <1>0, <1>1, <1>4 DEF TableShown, IntShown, MemShown, FoundShown, ReceivePc, Stamped,
     Kernel!Awaits
<1>6. TableShown'
  BY <1>0, <1>1, <1>4, <1>5 DEF TableShown, IntShown, FlagsShown, FromShown, MsgShown
<1> QED
  BY <1>1, <1>3, <1>4, <1>6, SilentFollows

(* The message is in the receiver's memory, which nobody reads until the   *)
(* call returns.                                                           *)
LEMMA SendCopyFollows ==
  ASSUME AInv, ~disturbed, ShownCall, SendCopy
  PROVE  Follows
<1>0. /\ panic = "no" /\ call.pc = "copy" /\ GoTo("unmsg")
      /\ UNCHANGED <<p_flags, p_recvfrom, p_sendto, p_msg, q_sending, has_int_msg,
                     panic>>
  BY DEF SendCopy, At
<1>1. SeenShape /\ TableShown /\ Shown!IInv /\ InSend
  BY <1>0, InProgress
<1>2. p_msg[call.peer] = 1
  BY <1>0, <1>1, ReceiverHasMsg DEF TableShown, IntShown, MsgShown
<1>3. /\ seen' = seen /\ call'.p = call.p /\ call'.peer = call.peer
      /\ call'.pc = "unmsg"
  BY <1>0, Silent DEF SendPc
<1>a. PICK p \in Proc, dest \in Proc : p = call.p /\ dest = call.peer /\ p # dest
  BY <1>0, <1>1 DEF InSend, SendPc
<1>4. PICK t \in Type : mem = [seen.mem EXCEPT ![p] = Stamped(p, t)]
  BY <1>0, <1>1, <1>a DEF TableShown, IntShown, MemShown
<1>5. mem' = [seen.mem EXCEPT ![p] = Stamped(p, t), ![dest] = Stamped(p, t)]
  <2>1. seen.mem \in [Proc -> Message]
    BY <1>1, SeenFacts
  <2>2. mem[p] = Stamped(p, t)
    BY <1>4, <2>1
  <2>3. mem' = [mem EXCEPT ![dest] = mem[p]]
    BY <1>2, <1>a DEF SendCopy
  <2> QED
    BY <1>4, <2>1, <2>2, <2>3
<1>6. MemShown'
  BY <1>3, <1>5, <1>a DEF MemShown, Stamped, ReceivePc
<1>7. FoundShown'
  BY <1>0, <1>1, <1>3 DEF TableShown, IntShown, FoundShown, Kernel!Awaits
<1>8. TableShown'
  BY <1>0, <1>1, <1>3, <1>6, <1>7 DEF TableShown, IntShown, FlagsShown, FromShown, MsgShown
<1> QED
  BY <1>0, <1>1, <1>3, <1>8, SilentFollows

(* The receiver's p_msg and then its flag are cleared.                     *)
LEMMA SendClearFollows ==
  ASSUME AInv, ~disturbed, ShownCall, SendClearMsg \/ SendClearFlag
  PROVE  Follows
<1>0. /\ panic = "no"
      /\ UNCHANGED <<p_recvfrom, p_sendto, q_sending, has_int_msg, mem, panic>>
  BY DEF SendClearMsg, SendClearFlag, At
<1>1. SeenShape /\ TableShown
  BY <1>0, InProgress
<1>2. CASE SendClearMsg
  <2>1. /\ seen' = seen /\ call'.p = call.p /\ call'.peer = call.peer
        /\ call.pc = "unmsg" /\ call'.pc = "unflag"
    BY <1>0, <1>2, Silent DEF SendPc, SendClearMsg, At
  <2>2. p_flags' = p_flags /\ p_msg' = [p_msg EXCEPT ![call.peer] = 0]
    BY <1>2 DEF SendClearMsg
  <2>3. MemShown' /\ FoundShown'
    BY <1>0, <1>1, <2>1 DEF TableShown, IntShown, MemShown, FoundShown, ReceivePc, Stamped,
       Kernel!Awaits
  <2>4. TableShown'
    BY <1>0, <1>1, <2>1, <2>2, <2>3 DEF TableShown, IntShown, FlagsShown, FromShown, MsgShown
  <2> QED
    BY <1>0, <1>1, <2>1, <2>4, SilentFollows
<1>3. CASE SendClearFlag
  <2>1. /\ seen' = seen /\ call'.p = call.p /\ call'.peer = call.peer
        /\ call.pc = "unflag" /\ call'.pc = "unfrom"
    BY <1>0, <1>3, Silent DEF SendPc, SendClearFlag, At
  <2>2. p_msg' = p_msg /\ p_flags' = [p_flags EXCEPT ![call.peer] = @ \ {RECEIVING}]
    BY <1>3 DEF SendClearFlag
  <2>3. MemShown' /\ FoundShown'
    BY <1>0, <1>1, <2>1 DEF TableShown, IntShown, MemShown, FoundShown, ReceivePc, Stamped,
       Kernel!Awaits
  <2>4. TableShown'
    BY <1>0, <1>1, <2>1, <2>2, <2>3 DEF TableShown, IntShown, FlagsShown, FromShown, MsgShown,
       RECEIVING
  <2> QED
    BY <1>0, <1>1, <2>1, <2>4, SilentFollows
<1> QED
  BY <1>2, <1>3

(* The rendezvous is complete: Ipc!SendDeliver.                            *)
LEMMA SendClearFromFollows ==
  ASSUME AInv, ~disturbed, ShownCall, SendClearFrom
  PROVE  Follows
<1>0. /\ panic = "no" /\ call.pc = "unfrom" /\ Return
      /\ UNCHANGED <<p_flags, p_sendto, p_msg, q_sending, has_int_msg, mem, panic>>
  BY DEF SendClearFrom, At
<1>1. /\ TypeOK /\ call \in CallType /\ InSend /\ InReceive
      /\ TableShown /\ Shown!IInv
  BY <1>0, InProgress
<1>a. PICK p \in Proc, dest \in Proc : p = call.p /\ dest = call.peer
  BY <1>0, <1>1 DEF InSend, SendPc
<1>2. p # dest /\ p_flags[p] = {} /\ ~deadlock(p, dest)
  BY <1>0, <1>1, <1>a DEF InSend, SendPc
<1>3. PICK t \in Type :
        mem = [seen.mem EXCEPT ![p] = Stamped(p, t), ![dest] = Stamped(p, t)]
  BY <1>0, <1>1, <1>a DEF TableShown, IntShown, MemShown
<1>4. /\ p_flags = [seen.p_flags EXCEPT ![dest] = @ \ {RECEIVING}]
      /\ p_recvfrom = seen.p_recvfrom
      /\ p_msg = [seen.p_msg EXCEPT ![dest] = 0]
      /\ seen.panic = "no" /\ seen.p_sendto = p_sendto
      /\ seen.q_sending = q_sending /\ seen.has_int_msg = has_int_msg
  BY <1>0, <1>1, <1>a DEF TableShown, IntShown, FlagsShown, FromShown, MsgShown
<1>5. Kernel!Awaits(dest, p) /\ ~Kernel!deadlock(p, dest)
  BY <1>0, <1>1, <1>2, <1>4, <1>a, SameDeadlock, SameSending DEF TableShown, IntShown, FoundShown
<1>6. seen.p_flags[p] = {}
  BY <1>1, <1>2, <1>4, SeenFacts
<1>7. p_recvfrom' = [p_recvfrom EXCEPT ![dest] = NO_TASK]
  BY <1>a DEF SendClearFrom
<1>8. seen' = Table' /\ call'.pc = "none"
  BY <1>0 DEF ShownCall, Return, NoCall
<1>9. Kernel!SendDeliver(p, dest, t)
  BY <1>0, <1>2, <1>3, <1>4, <1>5, <1>6, <1>7, <1>8 DEF Kernel!SendDeliver,
     Kernel!CanCall, Kernel!Stamped, Stamped, Table, Kernel!RECEIVING, RECEIVING
<1> QED
  BY <1>8, <1>9, ReturnFollows DEF Kernel!Next, Kernel!SendStep

(* The sender is queued: Ipc!SendBlock.                                    *)
LEMMA SendEnqueueFollows ==
  ASSUME AInv, ~disturbed, ShownCall, SendEnqueue
  PROVE  Follows
<1>0. panic = "no" /\ call.pc = "enqueue" /\ Return
  BY DEF SendEnqueue, At
<1>1. /\ TypeOK /\ call \in CallType /\ InSend /\ InReceive
      /\ TableShown /\ Shown!IInv
  BY <1>0, InProgress
<1>a. PICK p \in Proc, dest \in Proc : p = call.p /\ dest = call.peer
  BY <1>0, <1>1 DEF InSend, SendPc
<1>2. p # dest /\ p_flags[p] = {} /\ ~deadlock(p, dest)
  BY <1>0, <1>1, <1>a DEF InSend, SendPc
<1>3. PICK t \in Type : mem = [seen.mem EXCEPT ![p] = Stamped(p, t)]
  BY <1>0, <1>1, <1>a DEF TableShown, IntShown, MemShown
<1>4. /\ p_flags = seen.p_flags /\ p_recvfrom = seen.p_recvfrom
      /\ p_msg = seen.p_msg
      /\ seen.panic = "no" /\ seen.p_sendto = p_sendto
      /\ seen.q_sending = q_sending /\ seen.has_int_msg = has_int_msg
  BY <1>0, <1>1 DEF TableShown, IntShown, FlagsShown, FromShown, MsgShown
<1>5. ~Kernel!Awaits(dest, p) /\ ~Kernel!deadlock(p, dest)
  BY <1>0, <1>1, <1>2, <1>4, <1>a, SameDeadlock, SameSending DEF TableShown, IntShown, FoundShown
<1>6. /\ p_flags' = [p_flags EXCEPT ![p] = @ \cup {SENDING}]
      /\ p_sendto' = [p_sendto EXCEPT ![p] = dest]
      /\ p_msg' = [p_msg EXCEPT ![p] = 1]
      /\ q_sending' = [q_sending EXCEPT ![dest] = Append(@, p)]
      /\ UNCHANGED <<p_recvfrom, has_int_msg, mem, panic>>
  BY <1>a DEF SendEnqueue
<1>7. seen' = Table' /\ call'.pc = "none"
  BY <1>0 DEF ShownCall, Return, NoCall
<1>8. Kernel!SendBlock(p, dest, t)
  <2>1. seen'.mem = [seen.mem EXCEPT ![p] = Kernel!Stamped(p, t)]
    BY <1>3, <1>6, <1>7, TableFields DEF Kernel!Stamped, Stamped
  <2>2. /\ seen'.p_flags = [seen.p_flags EXCEPT ![p] = @ \cup {Kernel!SENDING}]
        /\ seen'.p_sendto = [seen.p_sendto EXCEPT ![p] = dest]
        /\ seen'.p_msg = [seen.p_msg EXCEPT ![p] = 1]
        /\ seen'.q_sending = [seen.q_sending EXCEPT ![dest] = Append(@, p)]
        /\ seen'.p_recvfrom = seen.p_recvfrom
        /\ seen'.has_int_msg = seen.has_int_msg /\ seen'.panic = seen.panic
    BY <1>0, <1>4, <1>6, <1>7, TableFields DEF Kernel!SENDING, SENDING
  <2> QED
    BY <1>2, <1>4, <1>5, <2>1, <2>2 DEF Kernel!SendBlock, Kernel!CanCall
<1> QED
  BY <1>7, <1>8, ReturnFollows DEF Kernel!Next, Kernel!SendStep

(* The receiver has looked whether an interrupt waits that it takes.       *)
LEMMA ReceiveTestIntFollows ==
  ASSUME AInv, ~disturbed, ShownCall, ReceiveTestInt
  PROVE  Follows
<1>0. panic = "no" /\ call.pc = "int" /\ UNCHANGED vars
  BY DEF ReceiveTestInt, At
<1>1. SeenShape /\ TableShown
  BY <1>0, InProgress
<1>2. /\ seen' = seen /\ panic' = "no" /\ call'.p = call.p /\ call'.peer = call.peer
      /\ call'.pc = IF TakesInt(call.p, call.peer) THEN "intcopy" ELSE "look"
  BY <1>0, Silent DEF ReceiveTestInt, ReceivePc, vars
<1>3. Kernel!TakesInt(call.p, call.peer) <=> TakesInt(call.p, call.peer)
  BY <1>0, <1>1 DEF TableShown, IntShown, Kernel!TakesInt, TakesInt
<1>4. FoundShown'
  BY <1>2, <1>3 DEF FoundShown, Kernel!TakesInt
<1>5. FlagsShown' /\ FromShown' /\ MsgShown'
  BY <1>0, <1>1, <1>2 DEF TableShown, IntShown, FlagsShown, FromShown, MsgShown, vars
<1>6. MemShown'
  BY <1>0, <1>1, <1>2 DEF TableShown, IntShown, MemShown, vars, ReceivePc, SendPc
<1>7. TableShown'
  BY <1>0, <1>1, <1>2, <1>4, <1>5, <1>6 DEF TableShown, IntShown, vars
<1> QED
  BY <1>1, <1>2, <1>7, SilentFollows

(* The interrupt's message is copied, has_int_msg is not yet cleared.      *)
LEMMA ReceiveCopyIntFollows ==
  ASSUME AInv, ~disturbed, ShownCall, ReceiveCopyInt
  PROVE  Follows
<1>0. /\ panic = "no" /\ call.pc = "intcopy" /\ GoTo("intclear")
      /\ UNCHANGED <<p_flags, p_recvfrom, p_sendto, p_msg, q_sending, has_int_msg,
                     panic>>
      /\ mem' = [mem EXCEPT ![call.p] = IntMessage]
  BY DEF ReceiveCopyInt, At
<1>1. SeenShape /\ TableShown /\ Shown!IInv /\ InReceive
  BY <1>0, InProgress
<1>2. /\ seen' = seen /\ call'.p = call.p /\ call'.peer = call.peer
      /\ call'.pc = "intclear"
  BY <1>0, Silent DEF ReceivePc
<1>3. mem' = [seen.mem EXCEPT ![call.p] = IntMessage]
  <2>1. call.p \in Proc /\ seen.mem \in [Proc -> Message]
    BY <1>0, <1>1, SeenFacts DEF InReceive, ReceivePc
  <2>2. mem = [seen.mem EXCEPT ![call.p].source = call.p]
    BY <1>0, <1>1 DEF TableShown, IntShown, MemShown, ReceivePc
  <2> QED
    BY <1>0, <2>1, <2>2
<1>4. MemShown'
  BY <1>2, <1>3 DEF MemShown, ReceivePc, IntMessage
<1>5. FoundShown'
  BY <1>0, <1>1, <1>2 DEF TableShown, IntShown, FoundShown, Kernel!TakesInt
<1>6. TableShown'
  BY <1>0, <1>1, <1>2, <1>4, <1>5 DEF TableShown, IntShown, FlagsShown, FromShown, MsgShown
<1> QED
  BY <1>0, <1>1, <1>2, <1>6, SilentFollows

(* has_int_msg is cleared, the assertions are still to come.               *)
LEMMA ReceiveClearIntFollows ==
  ASSUME AInv, ~disturbed, ShownCall, ReceiveClearInt
  PROVE  Follows
<1>0. /\ panic = "no" /\ call.pc = "intclear" /\ GoTo("intassert")
      /\ has_int_msg' = [has_int_msg EXCEPT ![call.p] = 0]
      /\ UNCHANGED <<p_flags, p_recvfrom, p_sendto, p_msg, q_sending, mem, panic>>
  BY DEF ReceiveClearInt, At
<1>1. SeenShape /\ TableShown
  BY <1>0, InProgress
<1>2. /\ seen' = seen /\ call'.p = call.p /\ call'.peer = call.peer
      /\ call'.pc = "intassert"
  BY <1>0, Silent DEF ReceivePc
<1>3. MemShown'
  BY <1>0, <1>1, <1>2 DEF TableShown, MemShown, ReceivePc, IntMessage
<1>4. FoundShown'
  BY <1>0, <1>1, <1>2 DEF TableShown, FoundShown, Kernel!TakesInt
<1>5. IntShown'
  BY <1>0, <1>1, <1>2 DEF TableShown, IntShown
<1>6. TableShown'
  BY <1>0, <1>1, <1>2, <1>3, <1>4, <1>5 DEF TableShown, FlagsShown, FromShown, MsgShown
<1> QED
  BY <1>0, <1>1, <1>2, <1>6, SilentFollows

(* No interrupt has come since, so the assertions hold and the interrupt is*)
(* taken: Ipc!ReceiveInterrupt.                                            *)
LEMMA ReceiveAssertIntFollows ==
  ASSUME AInv, ~disturbed, ShownCall, ReceiveAssertInt
  PROVE  Follows
<1>0. /\ panic = "no" /\ call.pc = "intassert"
      /\ UNCHANGED <<p_flags, p_recvfrom, p_sendto, p_msg, q_sending, has_int_msg, mem>>
  BY DEF ReceiveAssertInt, At
<1>1. TableShown /\ InReceive /\ Shown!IInv
  BY <1>0, InProgress
<1>a. PICK p \in Proc, src \in Source : p = call.p /\ src = call.peer
  BY <1>0, <1>1 DEF InReceive, ReceivePc
<1>2. p_flags[p] = {}
  BY <1>0, <1>1, <1>a DEF InReceive, ReceivePc
<1>3. /\ p_flags = seen.p_flags /\ p_recvfrom = seen.p_recvfrom /\ p_msg = seen.p_msg
      /\ mem = [seen.mem EXCEPT ![p] = IntMessage]
      /\ seen.panic = "no" /\ seen.p_sendto = p_sendto
      /\ seen.q_sending = q_sending
      /\ has_int_msg = [seen.has_int_msg EXCEPT ![p] = 0]
  BY <1>0, <1>1, <1>a DEF TableShown, IntShown, FlagsShown, FromShown, MsgShown, MemShown
<1>4. Kernel!TakesInt(p, src)
  BY <1>0, <1>1, <1>a DEF TableShown, FoundShown
<1>5. has_int_msg[p] = 0
  BY <1>1, <1>3, SeenFacts
<1>b. Return /\ panic' = panic
  BY <1>5, <1>a DEF ReceiveAssertInt
<1>6. seen' = Table' /\ call'.pc = "none"
  BY <1>b DEF ShownCall, Return, NoCall
<1>7. Kernel!ReceiveInterrupt(p, src)
  BY <1>0, <1>2, <1>3, <1>4, <1>6, <1>b, TableFields DEF Kernel!ReceiveInterrupt,
     Kernel!CanCall, Kernel!IntMessage, IntMessage
<1> QED
  BY <1>6, <1>7, ReturnFollows DEF Kernel!Next, Kernel!ReceiveStep, Kernel!Source, Source

(* Somebody is sending: Ipc!ReceiveFetch.                                  *)
LEMMA ReceiveLookFollows ==
  ASSUME AInv, ~disturbed, ShownCall, ReceiveLook
  PROVE  Follows
<1>0. panic = "no" /\ call.pc = "look" /\ UNCHANGED <<p_recvfrom, has_int_msg, panic>>
  BY DEF ReceiveLook, At
<1>1. /\ Structure /\ TypeOK /\ call \in CallType /\ InSend /\ InReceive
      /\ SeenShape /\ TableShown /\ Shown!IInv
  BY <1>0, InProgress
<1>a. PICK p \in Proc, src \in Source : p = call.p /\ src = call.peer
  BY <1>0, <1>1 DEF InReceive, ReceivePc
<1>2. p # src /\ p_flags[p] = {} /\ ~Sending(p)
  BY <1>0, <1>1, <1>a DEF InReceive, ReceivePc
<1>3. /\ p_flags = seen.p_flags /\ p_recvfrom = seen.p_recvfrom /\ p_msg = seen.p_msg
      /\ mem = [seen.mem EXCEPT ![p].source = p]
      /\ seen.panic = "no" /\ seen.p_sendto = p_sendto
      /\ seen.q_sending = q_sending /\ seen.has_int_msg = has_int_msg
  BY <1>0, <1>1, <1>a DEF TableShown, IntShown, FlagsShown, FromShown, MsgShown, MemShown, ReceivePc
<1>4. ~Kernel!TakesInt(p, src)
  BY <1>0, <1>1, <1>a DEF TableShown, IntShown, FoundShown
<1>5. CASE CopyOk(p, src)
  <2>a. PICK i \in 1..Len(q_sending[p]) : i = FetchIndex(p, src)
    BY <1>1, <1>5, FetchIndexInQueue DEF Structure
  <2>1. PICK from \in Proc : from = q_sending[p][i]
    BY <1>1, ElementOfSeq DEF TypeOK
  <2>2. from # p
    BY <1>1, <1>2, <2>1 DEF Structure, QueueExact
  <2>3. /\ q_sending' = [q_sending EXCEPT ![p] = Unlink(@, i)]
        /\ mem' = [mem EXCEPT ![p] = mem[from]]
        /\ p_msg' = [p_msg EXCEPT ![from] = 0]
        /\ p_sendto' = [p_sendto EXCEPT ![from] = NO_TASK]
        /\ p_flags' = [p_flags EXCEPT ![from] = @ \ {SENDING}]
        /\ Return
    BY <1>5, <1>a, <2>a, <2>1 DEF ReceiveLook
  <2>4. seen' = Table' /\ call'.pc = "none"
    BY <2>3 DEF ShownCall, Return, NoCall
  <2>5. mem' = [seen.mem EXCEPT ![p] = seen.mem[from]]
    <3>1. seen.mem \in [Proc -> Message]
      BY <1>1, SeenFacts
    <3>2. mem[from] = seen.mem[from]
      BY <1>3, <2>2, <3>1
    <3> QED
      BY <1>3, <2>3, <3>1, <3>2
  <2>6. Kernel!CopyOk(p, src) /\ Kernel!FetchIndex(p, src) = i
    BY <1>3, <1>5, <2>a DEF Kernel!CopyOk, CopyOk, Kernel!FetchIndex, FetchIndex,
       Kernel!Sending, Sending, Kernel!SENDING, SENDING
  <2>7. Kernel!Unlink(q_sending[p], i) = Unlink(q_sending[p], i)
    BY DEF Kernel!Unlink, Unlink
  <2>8. /\ seen'.q_sending = [seen.q_sending EXCEPT ![p] = Kernel!Unlink(@, i)]
        /\ seen'.mem = [seen.mem EXCEPT ![p] = seen.mem[from]]
        /\ seen'.p_msg = [seen.p_msg EXCEPT ![from] = 0]
        /\ seen'.p_sendto = [seen.p_sendto EXCEPT ![from] = NO_TASK]
        /\ seen'.p_flags = [seen.p_flags EXCEPT ![from] = @ \ {Kernel!SENDING}]
        /\ seen'.p_recvfrom = seen.p_recvfrom
        /\ seen'.has_int_msg = seen.has_int_msg /\ seen'.panic = seen.panic
    BY <1>0, <1>3, <2>3, <2>4, <2>5, <2>7, TableFields DEF Kernel!SENDING, SENDING
  <2>9. Kernel!ReceiveFetch(p, src)
    BY <1>2, <1>3, <1>4, <2>1, <2>6, <2>8 DEF Kernel!ReceiveFetch, Kernel!CanCall
  <2> QED
    BY <2>4, <2>9, ReturnFollows DEF Kernel!Next, Kernel!ReceiveStep, Kernel!Source, Source
<1>6. CASE ~CopyOk(p, src)
  <2>1. GoTo("flag") /\ UNCHANGED <<q_sending, mem, p_msg, p_sendto, p_flags>>
    BY <1>6, <1>a DEF ReceiveLook
  <2>2. /\ seen' = seen /\ panic' = "no" /\ call'.p = call.p /\ call'.peer = call.peer
        /\ call'.pc = "flag"
    BY <1>0, <2>1, Silent DEF ReceivePc
  <2>3. MemShown' /\ FoundShown'
    BY <1>0, <1>1, <2>1, <2>2 DEF TableShown, IntShown, MemShown, FoundShown, ReceivePc, SendPc,
       Kernel!TakesInt
  <2>4. TableShown'
    BY <1>0, <1>1, <2>1, <2>2, <2>3 DEF TableShown, IntShown, FlagsShown, FromShown, MsgShown
  <2> QED
    BY <1>1, <2>2, <2>4, SilentFollows
<1> QED
  BY <1>5, <1>6

(* A RECEIVE from INTERRUPT that finds none runs into the assertion:       *)
(* Ipc!ReceiveStray.                                                       *)
LEMMA ReceiveLookStrayFollows ==
  ASSUME AInv, ~disturbed, ShownCall, ReceiveLookStray
  PROVE  Follows
<1>0. /\ panic = "no" /\ call.pc = "look" /\ call.peer = INTERRUPT /\ panic' = "ASSERT"
      /\ UNCHANGED <<p_flags, p_recvfrom, p_sendto, p_msg, q_sending, has_int_msg, mem>>
  BY DEF ReceiveLookStray, At
<1>1. TableShown /\ InReceive
  BY <1>0, InProgress
<1>a. PICK p \in Proc : p = call.p
  BY <1>0, <1>1 DEF InReceive, ReceivePc
<1>2. p_flags[p] = {}
  BY <1>0, <1>1, <1>a DEF InReceive, ReceivePc
<1>3. /\ p_flags = seen.p_flags /\ p_recvfrom = seen.p_recvfrom /\ p_msg = seen.p_msg
      /\ mem = [seen.mem EXCEPT ![p].source = p]
      /\ seen.panic = "no" /\ seen.p_sendto = p_sendto
      /\ seen.q_sending = q_sending /\ seen.has_int_msg = has_int_msg
  BY <1>0, <1>1, <1>a DEF TableShown, IntShown, FlagsShown, FromShown, MsgShown, MemShown, ReceivePc
<1>4. ~Kernel!TakesInt(p, INTERRUPT)
  BY <1>0, <1>1, <1>a DEF TableShown, IntShown, FoundShown
<1>5. seen' = Table'
  BY <1>0 DEF ShownCall
<1>6. Kernel!ReceiveStray(p)
  BY <1>0, <1>2, <1>3, <1>4, <1>5, TableFields DEF Kernel!ReceiveStray, Kernel!CanCall
<1> QED
  BY <1>0, <1>5, <1>6, ReturnFollows DEF Kernel!Next

(* The receiver's flag is set ...                                          *)
LEMMA ReceiveSetFlagFollows ==
  ASSUME AInv, ~disturbed, ShownCall, ReceiveSetFlag
  PROVE  Follows
<1>0. /\ panic = "no" /\ call.pc = "flag" /\ GoTo("msg")
      /\ p_flags' = [p_flags EXCEPT ![call.p] = @ \cup {RECEIVING}]
      /\ UNCHANGED <<p_recvfrom, p_sendto, p_msg, q_sending, has_int_msg, mem, panic>>
  BY DEF ReceiveSetFlag, At
<1>1. SeenShape /\ TableShown /\ InReceive /\ TypeOK
  BY <1>0, InProgress
<1>2. /\ seen' = seen /\ call'.p = call.p /\ call'.peer = call.peer
      /\ call'.pc = "msg"
  BY <1>0, Silent DEF ReceivePc
<1>3. call.p \in Proc /\ p_flags[call.p] = {} /\ p_flags = seen.p_flags
  BY <1>0, <1>1 DEF InReceive, ReceivePc, TableShown, IntShown, FlagsShown
<1>4. FlagsShown'
  <2>1. p_flags' = [seen.p_flags EXCEPT ![call.p] = {RECEIVING}]
    BY <1>0, <1>1, <1>3 DEF TypeOK
  <2> QED
    BY <1>2, <2>1 DEF FlagsShown, RECEIVING
<1>5. MemShown' /\ FoundShown'
  BY <1>0, <1>1, <1>2, <1>3 DEF TableShown, IntShown, MemShown, FoundShown, ReceivePc, SendPc,
     Kernel!TakesInt
<1>6. TableShown'
  BY <1>0, <1>1, <1>2, <1>4, <1>5 DEF TableShown, IntShown, FromShown, MsgShown
<1> QED
  BY <1>0, <1>1, <1>2, <1>6, SilentFollows

(* ... and its p_msg and p_recvfrom.                                       *)
LEMMA ReceiveSetFollows ==
  ASSUME AInv, ~disturbed, ShownCall, ReceiveSetMsg \/ ReceiveSetFrom
  PROVE  Follows
<1>0. panic = "no" /\ UNCHANGED <<p_flags, p_sendto, q_sending, has_int_msg, mem, panic>>
  BY DEF ReceiveSetMsg, ReceiveSetFrom, At
<1>1. SeenShape /\ TableShown
  BY <1>0, InProgress
<1>2. CASE ReceiveSetMsg
  <2>1. /\ seen' = seen /\ call'.p = call.p /\ call'.peer = call.peer
        /\ call.pc = "msg" /\ call'.pc = "from"
    BY <1>0, <1>2, Silent DEF ReceivePc, ReceiveSetMsg, At
  <2>2. p_recvfrom' = p_recvfrom /\ p_msg' = [p_msg EXCEPT ![call.p] = 1]
    BY <1>2 DEF ReceiveSetMsg
  <2>3. MemShown' /\ FoundShown'
    BY <1>0, <1>1, <2>1 DEF TableShown, IntShown, MemShown, FoundShown, ReceivePc, SendPc,
       Kernel!TakesInt
  <2>4. TableShown'
    BY <1>0, <1>1, <2>1, <2>2, <2>3 DEF TableShown, IntShown, FlagsShown, FromShown, MsgShown,
       RECEIVING
  <2> QED
    BY <1>0, <1>1, <2>1, <2>4, SilentFollows
<1>3. CASE ReceiveSetFrom
  <2>1. /\ seen' = seen /\ call'.p = call.p /\ call'.peer = call.peer
        /\ call.pc = "from" /\ call'.pc = "block"
    BY <1>0, <1>3, Silent DEF ReceivePc, ReceiveSetFrom, At
  <2>2. p_msg' = p_msg /\ p_recvfrom' = [p_recvfrom EXCEPT ![call.p] = call.peer]
    BY <1>3 DEF ReceiveSetFrom
  <2>3. MemShown' /\ FoundShown'
    BY <1>0, <1>1, <2>1 DEF TableShown, IntShown, MemShown, FoundShown, ReceivePc, SendPc,
       Kernel!TakesInt
  <2>4. TableShown'
    BY <1>0, <1>1, <2>1, <2>2, <2>3 DEF TableShown, IntShown, FlagsShown, FromShown, MsgShown,
       RECEIVING
  <2> QED
    BY <1>0, <1>1, <2>1, <2>4, SilentFollows
<1> QED
  BY <1>2, <1>3

(* Nobody was sending: Ipc!ReceiveBlock.                                   *)
LEMMA ReceiveDoBlockFollows ==
  ASSUME AInv, ~disturbed, ShownCall, ReceiveDoBlock
  PROVE  Follows
<1>0. /\ panic = "no" /\ call.pc = "block"
      /\ UNCHANGED <<p_flags, p_recvfrom, p_sendto, p_msg, q_sending, has_int_msg, mem>>
  BY DEF ReceiveDoBlock, At
<1>1. /\ TypeOK /\ call \in CallType /\ InSend /\ InReceive
      /\ TableShown /\ Shown!IInv
  BY <1>0, InProgress
<1>a. PICK p \in Proc, src \in Source : p = call.p /\ src = call.peer
  BY <1>0, <1>1 DEF InReceive, ReceivePc
<1>2. p # src /\ ~CopyOk(p, src) /\ seen.p_flags[p] = {}
  BY <1>0, <1>1, <1>a DEF InReceive, ReceivePc, TableShown, IntShown, FoundShown
<1>3. /\ p_flags = [seen.p_flags EXCEPT ![p] = {RECEIVING}]
      /\ p_recvfrom = [seen.p_recvfrom EXCEPT ![p] = src]
      /\ p_msg = [seen.p_msg EXCEPT ![p] = 1]
      /\ mem = [seen.mem EXCEPT ![p].source = p]
      /\ seen.panic = "no" /\ seen.p_sendto = p_sendto
      /\ seen.q_sending = q_sending /\ seen.has_int_msg = has_int_msg
  BY <1>0, <1>1, <1>a DEF TableShown, IntShown, FlagsShown, FromShown, MsgShown, MemShown, ReceivePc
<1>4. p_flags[p] # {}
  BY <1>1, <1>3, SeenFacts
<1>5. Return /\ panic' = panic
  BY <1>4, <1>a DEF ReceiveDoBlock
<1>6. seen' = Table' /\ call'.pc = "none"
  BY <1>5 DEF ShownCall, Return, NoCall
<1>7. ~Kernel!TakesInt(p, src)
  BY <1>0, <1>1, <1>a DEF TableShown, IntShown, FoundShown
<1>8. ~Kernel!CopyOk(p, src)
  BY <1>1, <1>2, <1>3, SameSending DEF Kernel!CopyOk, CopyOk
<1>9. seen'.p_flags = [seen.p_flags EXCEPT ![p] = @ \cup {Kernel!RECEIVING}]
  BY <1>0, <1>1, <1>2, <1>3, <1>6, SeenFacts, TableFields DEF Kernel!RECEIVING, RECEIVING
<1>10. Kernel!ReceiveBlock(p, src)
  BY <1>0, <1>2, <1>3, <1>5, <1>6, <1>7, <1>8, <1>9, TableFields
     DEF Kernel!ReceiveBlock, Kernel!CanCall
<1> QED
  BY <1>6, <1>10, ReturnFollows DEF Kernel!Next, Kernel!ReceiveStep, Kernel!Source, Source

-----------------------------------------------------------------------------
(* Two fields of a table may be written in any order.                      *)
LEMMA CommutedUpdates ==
  ASSUME NEW S, NEW V, NEW f \in [S -> V], NEW a \in S, NEW b \in S, a # b,
         NEW u, NEW v
  PROVE  [[f EXCEPT ![a] = u] EXCEPT ![b] = v] = [[f EXCEPT ![b] = v] EXCEPT ![a] = u]
OBVIOUS

(* An interrupt outside of the windows finds its task in the table as in   *)
(* seen.                                                                   *)
LEMMA SameTask ==
  ASSUME AInv, ~disturbed, panic = "no", NEW t \in Proc,
         ~InWindow(t)
  PROVE  /\ Kernel!Informs(t) <=> Informs(t)
         /\ Informs(t) => /\ call.pc # "none" => t # call.p
                          /\ p_flags[t] = seen.p_flags[t]
                          /\ p_msg[t] = 1
<1>1. TableShown /\ Shown!IInv /\ InSend /\ InReceive /\ call \in CallType /\ TypeOK
  BY InProgress
<1>2. call.pc \in {"assert", "copy", "unmsg", "unflag", "unfrom"} => t # call.peer
  BY DEF InWindow, InSendWindow
<1>3. CASE call.pc \in {"msg", "from", "block"} /\ t = call.p
  <2>1. call.peer \notin {ANY, INTERRUPT} /\ seen.p_flags[t] = {}
    BY <1>1, <1>3 DEF InWindow, InReceiveWindow, TableShown, IntShown, FoundShown
  <2>2. seen.p_recvfrom[t] = NO_TASK
    BY <1>1, <2>1, SeenFacts
  <2>3. p_recvfrom[t] \in {NO_TASK, call.peer}
    BY <1>1, <1>3, <2>2, SeenFacts DEF TableShown, IntShown, FromShown
  <2> QED
    BY <2>1, <2>3, PseudoProcAssumption DEF Kernel!Informs, Informs, Kernel!RECEIVING
<1>4. CASE ~(call.pc \in {"msg", "from", "block"} /\ t = call.p)
  <2>1. p_flags[t] = seen.p_flags[t]
    BY <1>1, <1>2, <1>4, SeenFacts DEF TableShown, IntShown, FlagsShown
  <2>2. p_recvfrom[t] = seen.p_recvfrom[t]
    BY <1>1, <1>4, SeenFacts DEF TableShown, IntShown, FromShown
  <2>3. p_msg[t] = seen.p_msg[t]
    BY <1>1, <1>2, <1>4, SeenFacts DEF TableShown, IntShown, MsgShown
  <2>4. Informs(t) => seen.p_msg[t] = 1
    BY <1>1, <2>1, SeenFacts DEF Informs
  <2>5. Kernel!Informs(t) <=> Informs(t)
    BY <2>1, <2>2 DEF Kernel!Informs, Informs, Kernel!RECEIVING, RECEIVING
  <2>6. ASSUME Informs(t), call.pc # "none", t = call.p PROVE FALSE
    <3>1. RECEIVING \in p_flags[t]
      BY <2>6 DEF Informs
    <3>2. call.pc \in SendPc => p_flags[t] = {}
      BY <1>1, <2>6 DEF InSend
    <3>3. call.pc \in {"int", "intcopy", "intclear", "intassert", "look", "flag"} =>
           p_flags[t] = {}
      BY <1>1, <2>6 DEF InReceive, ReceivePc
    <3> QED
      BY <1>1, <1>4, <2>6, <3>1, <3>2, <3>3 DEF CallType, ReceivePc
  <2> QED
    BY <2>1, <2>3, <2>4, <2>5, <2>6
<1> QED
  BY <1>3, <1>4

(* An interrupt that is remembered is Ipc!InformPend.                      *)
LEMMA PendFollows ==
  ASSUME AInv, ~disturbed, NEW t \in IrqTask, PreemptPend(t),
         ~InWindow(t),
         seen' = [seen EXCEPT !.has_int_msg[t] = has_int_msg'[t]]
  PROVE  Follows
<1>0. /\ panic = "no" /\ ~Informs(t) /\ t \in Proc
      /\ has_int_msg' = [has_int_msg EXCEPT ![t] = 1]
      /\ UNCHANGED <<p_flags, p_recvfrom, p_sendto, p_msg, q_sending, mem, panic, call>>
  BY IrqTaskAssumption DEF PreemptPend, InformPend
<1>1. /\ SeenShape /\ TableShown /\ Shown!IInv /\ TypeOK
      /\ InReceive
  BY <1>0, InProgress
<1>2. has_int_msg'[t] = 1
  BY <1>0, <1>1 DEF TypeOK
<1>3. /\ seen'.has_int_msg = [seen.has_int_msg EXCEPT ![t] = 1]
      /\ seen'.p_flags = seen.p_flags /\ seen'.p_recvfrom = seen.p_recvfrom
      /\ seen'.p_sendto = seen.p_sendto /\ seen'.p_msg = seen.p_msg
      /\ seen'.q_sending = seen.q_sending /\ seen'.mem = seen.mem
      /\ seen'.panic = seen.panic
      /\ SeenShape'
  BY <1>1, <1>2 DEF SeenShape
<1>4. Kernel!InformPend(t)
  <2>1. ~Kernel!Informs(t) /\ seen.panic = "no"
    BY <1>0, <1>1, SameTask DEF TableShown, IntShown
  <2> QED
    BY <1>3, <2>1 DEF Kernel!InformPend
<1>5. IntShown'
  <2>1. CASE call.pc # "intassert"
    BY <1>0, <1>1, <1>3, <2>1 DEF TableShown, IntShown
  <2>2. CASE call.pc = "intassert"
    <3>1. call.p \in Proc /\ t # call.p
      BY <1>1, <2>2 DEF InReceive, ReceivePc, InWindow, InAssertWindow
    <3>2. PICK f, h : f = seen.has_int_msg /\ h = seen'.has_int_msg
      OBVIOUS
    <3>3. f \in [Proc -> {0, 1}] /\ t \in Proc
      BY <1>0, <1>1, <3>2, SeenFacts
    <3>4. h = [f EXCEPT ![t] = 1]
      BY <1>3, <3>2
    <3>5. has_int_msg = [f EXCEPT ![call.p] = 0]
      BY <1>1, <2>2, <3>2 DEF TableShown, IntShown
    <3>6. has_int_msg' = [h EXCEPT ![call.p] = 0]
      BY <1>0, <3>1, <3>3, <3>4, <3>5, CommutedUpdates
    <3> QED
      BY <1>0, <2>2, <3>2, <3>6 DEF IntShown
  <2> QED
    BY <2>1, <2>2
<1>6. FoundShown'
  <2>1. ASSUME call.pc \in {"intcopy", "intclear", "intassert"}
        PROVE  Kernel!TakesInt(call.p, call.peer)'
    BY <1>0, <1>1, <1>3, <2>1, SeenFacts DEF TableShown, IntShown, FoundShown, Kernel!TakesInt,
       InReceive, ReceivePc
  <2>2. ASSUME call.pc \in {"look", "flag", "msg", "from", "block"}
        PROVE  ~Kernel!TakesInt(call.p, call.peer)'
    <3>1. call.p \in Proc /\ ~Kernel!TakesInt(call.p, call.peer)
      BY <1>1, <2>2 DEF TableShown, IntShown, FoundShown, InReceive, ReceivePc
    <3>2. t = call.p => call.peer \notin {ANY, INTERRUPT}
      BY <2>2 DEF InWindow, InReceiveWindow
    <3> QED
      BY <1>0, <1>1, <1>3, <3>1, <3>2, SeenFacts DEF Kernel!TakesInt
  <2> QED
    BY <1>0, <1>1, <1>3, <2>1, <2>2 DEF TableShown, IntShown, FoundShown, Kernel!Awaits
<1>7. FlagsShown' /\ FromShown' /\ MsgShown'
  BY <1>0, <1>1, <1>3 DEF TableShown, IntShown, FlagsShown, FromShown, MsgShown
<1>8. MemShown'
  BY <1>0, <1>1, <1>3 DEF TableShown, IntShown, MemShown, Stamped, IntMessage
<1>9. TableShown'
  BY <1>0, <1>1, <1>3, <1>5, <1>6, <1>7, <1>8 DEF TableShown, IntShown
<1> QED
  BY <1>0, <1>3, <1>4, <1>9 DEF Follows, Kernel!Next, Kernel!InformStep

(* An interrupt that releases its task is Ipc!InformDeliver.               *)
LEMMA DeliverFollows ==
  ASSUME AInv, ~disturbed, NEW t \in IrqTask, PreemptDeliver(t),
         ~InWindow(t),
         seen' = [seen EXCEPT !.p_flags[t] = p_flags'[t],
                              !.p_recvfrom[t] = p_recvfrom'[t],
                              !.p_msg[t] = p_msg'[t],
                              !.has_int_msg[t] = has_int_msg'[t],
                              !.mem[t] = mem'[t]]
  PROVE  Follows
<1>0. /\ panic = "no" /\ Informs(t) /\ t \in Proc
      /\ p_msg' = [p_msg EXCEPT ![t] = 0]
      /\ has_int_msg' = [has_int_msg EXCEPT ![t] = 0]
      /\ p_flags' = [p_flags EXCEPT ![t] = @ \ {RECEIVING}]
      /\ p_recvfrom' = [p_recvfrom EXCEPT ![t] = NO_TASK]
      /\ UNCHANGED <<p_sendto, q_sending, panic, call>>
  BY IrqTaskAssumption DEF PreemptDeliver
<1>1. /\ SeenShape /\ TableShown /\ Shown!IInv /\ TypeOK
      /\ InSend /\ InReceive /\ call \in CallType
  BY <1>0, InProgress
<1>2. /\ Kernel!Informs(t) /\ (call.pc # "none" => t # call.p)
      /\ p_flags[t] = seen.p_flags[t] /\ p_msg[t] = 1
  BY <1>0, SameTask
<1>3. mem' = [mem EXCEPT ![t] = IntMessage]
  BY <1>2 DEF PreemptDeliver
<1>4. /\ p_flags'[t] = seen.p_flags[t] \ {RECEIVING} /\ p_recvfrom'[t] = NO_TASK
      /\ p_msg'[t] = 0 /\ has_int_msg'[t] = 0 /\ mem'[t] = IntMessage
  BY <1>0, <1>1, <1>2, <1>3 DEF TypeOK
<1>5. /\ seen'.p_flags = [seen.p_flags EXCEPT ![t] = @ \ {RECEIVING}]
      /\ seen'.p_recvfrom = [seen.p_recvfrom EXCEPT ![t] = NO_TASK]
      /\ seen'.p_msg = [seen.p_msg EXCEPT ![t] = 0]
      /\ seen'.has_int_msg = [seen.has_int_msg EXCEPT ![t] = 0]
      /\ seen'.mem = [seen.mem EXCEPT ![t] = IntMessage]
      /\ seen'.p_sendto = seen.p_sendto /\ seen'.q_sending = seen.q_sending
      /\ seen'.panic = seen.panic
      /\ SeenShape'
  BY <1>1, <1>4, SeenFacts DEF SeenShape
<1>6. Kernel!InformDeliver(t)
  BY <1>1, <1>2, <1>5 DEF Kernel!InformDeliver, Kernel!IntMessage, IntMessage,
     Kernel!RECEIVING, RECEIVING, TableShown, IntShown
<1>7. call.pc \in {"assert", "copy", "unmsg", "unflag", "unfrom"} => t # call.peer
  BY DEF InWindow, InSendWindow
<1>8. call.pc \in SendPc => call.p \in Proc /\ call.peer \in Proc
  BY <1>1 DEF InSend
<1>9. call.pc \in ReceivePc => call.p \in Proc
  BY <1>1 DEF InReceive
<1>a. /\ seen.p_flags \in [Proc -> SUBSET {SENDING, RECEIVING}]
      /\ seen.p_recvfrom \in [Proc -> Source \cup {NO_TASK}]
      /\ seen.p_msg \in [Proc -> {0, 1}]
  BY <1>1, SeenFacts
<1>10. FlagsShown'
  <2>0. FlagsShown
    BY <1>1 DEF TableShown, IntShown
  <2>1. CASE call.pc = "unfrom"
    <3>1. /\ t # call.peer /\ call.peer \in Proc
          /\ p_flags = [seen.p_flags EXCEPT ![call.peer] = @ \ {RECEIVING}]
      BY <1>7, <1>8, <2>0, <2>1 DEF FlagsShown, SendPc
    <3>a. PICK d, u, v :
            d = call.peer /\ u = seen.p_flags[d] \ {RECEIVING}
            /\ v = seen.p_flags[t] \ {RECEIVING}
      BY <3>1
    <3>b. seen'.p_flags = [seen.p_flags EXCEPT ![t] = v]
      BY <1>5, <3>a
    <3>d. p_flags' = [p_flags EXCEPT ![t] = v]
      BY <1>0, <1>2, <3>a
    <3>e. p_flags = [seen.p_flags EXCEPT ![d] = u]
      BY <3>1, <3>a
    <3>g. seen'.p_flags[d] = seen.p_flags[d]
      BY <1>a, <3>1, <3>a, <3>b
    <3>c. p_flags' = [seen'.p_flags EXCEPT ![d] = u]
      <4>1. PICK f, g, h, k :
              f = seen.p_flags /\ g = p_flags /\ h = seen'.p_flags /\ k = p_flags'
        OBVIOUS
      <4>2. /\ f \in [Proc -> SUBSET {SENDING, RECEIVING}]
            /\ d \in Proc /\ t \in Proc /\ t # d
            /\ g = [f EXCEPT ![d] = u]
            /\ k = [g EXCEPT ![t] = v] /\ h = [f EXCEPT ![t] = v]
        BY <1>0, <1>a, <3>1, <3>a, <3>b, <3>d, <3>e, <4>1
      <4>3. k = [h EXCEPT ![d] = u]
        BY <4>2
      <4> QED
        BY <4>1, <4>3
    <3>2. p_flags' = [seen'.p_flags EXCEPT ![call.peer] = @ \ {RECEIVING}]
      BY <3>a, <3>g, <3>c
    <3> QED
      BY <1>0, <2>1, <3>2 DEF FlagsShown, RECEIVING
  <2>2. CASE call.pc \in {"msg", "from", "block"}
    <3>1. /\ t # call.p /\ call.p \in Proc
          /\ p_flags = [seen.p_flags EXCEPT ![call.p] = {RECEIVING}]
      BY <1>2, <1>9, <2>0, <2>2 DEF FlagsShown, ReceivePc
    <3>a. PICK v : v = seen.p_flags[t] \ {RECEIVING}
      OBVIOUS
    <3>b. seen'.p_flags = [seen.p_flags EXCEPT ![t] = v]
      BY <1>5, <3>a
    <3>c. p_flags' = [p_flags EXCEPT ![t] = v]
      BY <1>0, <1>2, <3>a
    <3>2. p_flags' = [seen'.p_flags EXCEPT ![call.p] = {RECEIVING}]
      <4>1. PICK f, g, h, k :
              f = seen.p_flags /\ g = p_flags /\ h = seen'.p_flags /\ k = p_flags'
        OBVIOUS
      <4>2. /\ f \in [Proc -> SUBSET {SENDING, RECEIVING}]
            /\ call.p \in Proc /\ t \in Proc /\ t # call.p
            /\ g = [f EXCEPT ![call.p] = {RECEIVING}]
            /\ k = [g EXCEPT ![t] = v] /\ h = [f EXCEPT ![t] = v]
        BY <1>0, <1>a, <3>1, <3>b, <3>c, <4>1
      <4>3. k = [h EXCEPT ![call.p] = {RECEIVING}]
        BY <4>2
      <4> QED
        BY <4>1, <4>3
    <3> QED
      BY <1>0, <2>2, <3>2 DEF FlagsShown, RECEIVING
  <2>3. CASE call.pc \notin {"unfrom", "msg", "from", "block"}
    <3>1. p_flags' = seen'.p_flags
      BY <1>0, <1>5, <2>0, <2>3 DEF FlagsShown
    <3> QED
      BY <1>0, <2>3, <3>1 DEF FlagsShown
  <2> QED
    BY <2>1, <2>2, <2>3
<1>11. FromShown'
  <2>0. FromShown
    BY <1>1 DEF TableShown, IntShown
  <2>1. CASE call.pc = "block"
    <3>1. /\ t # call.p /\ call.p \in Proc
          /\ p_recvfrom = [seen.p_recvfrom EXCEPT ![call.p] = call.peer]
      BY <1>2, <1>9, <2>0, <2>1 DEF FromShown, ReceivePc
    <3>2. p_recvfrom' = [seen'.p_recvfrom EXCEPT ![call.p] = call.peer]
      BY <1>0, <1>5, <1>a, <3>1
    <3> QED
      BY <1>0, <2>1, <3>2 DEF FromShown
  <2>2. CASE call.pc # "block"
    <3>1. p_recvfrom' = seen'.p_recvfrom
      BY <1>0, <1>5, <2>0, <2>2 DEF FromShown
    <3> QED
      BY <1>0, <2>2, <3>1 DEF FromShown
  <2> QED
    BY <2>1, <2>2
<1>12. MsgShown'
  <2>0. MsgShown
    BY <1>1 DEF TableShown, IntShown
  <2>1. CASE call.pc \in {"unflag", "unfrom"}
    <3>1. /\ t # call.peer /\ call.peer \in Proc
          /\ p_msg = [seen.p_msg EXCEPT ![call.peer] = 0]
      BY <1>7, <1>8, <2>0, <2>1 DEF MsgShown, SendPc
    <3>2. p_msg' = [seen'.p_msg EXCEPT ![call.peer] = 0]
      BY <1>0, <1>5, <1>a, <3>1
    <3> QED
      BY <1>0, <2>1, <3>2 DEF MsgShown
  <2>2. CASE call.pc \in {"from", "block"}
    <3>1. /\ t # call.p /\ call.p \in Proc
          /\ p_msg = [seen.p_msg EXCEPT ![call.p] = 1]
      BY <1>2, <1>9, <2>0, <2>2 DEF MsgShown, ReceivePc
    <3>2. p_msg' = [seen'.p_msg EXCEPT ![call.p] = 1]
      BY <1>0, <1>5, <1>a, <3>1
    <3> QED
      BY <1>0, <2>2, <3>2 DEF MsgShown
  <2>3. CASE call.pc \notin {"unflag", "unfrom", "from", "block"}
    <3>1. p_msg' = seen'.p_msg
      BY <1>0, <1>5, <2>0, <2>3 DEF MsgShown
    <3> QED
      BY <1>0, <2>3, <3>1 DEF MsgShown
  <2> QED
    BY <2>1, <2>2, <2>3
<1>13. MemShown'
  <2>0. MemShown /\ seen.mem \in [Proc -> Message] /\ mem \in [Proc -> Message]
    BY <1>1, SeenFacts DEF TableShown, IntShown, TypeOK
  <2>1. CASE call.pc = "none"
    BY <1>0, <1>3, <1>5, <2>0, <2>1 DEF MemShown, ReceivePc
  <2>2. CASE call.pc \in {"test", "assert", "copy", "enqueue"}
    <3>1. PICK u \in Type : mem = [seen.mem EXCEPT ![call.p] = Stamped(call.p, u)]
      BY <2>0, <2>2 DEF MemShown
    <3>2. t # call.p /\ call.p \in Proc
      BY <1>2, <1>8, <2>2 DEF SendPc
    <3>3. mem' = [seen'.mem EXCEPT ![call.p] = Stamped(call.p, u)]
      BY <1>3, <1>5, <2>0, <3>1, <3>2
    <3> QED
      BY <1>0, <2>2, <3>3 DEF MemShown, ReceivePc, Stamped
  <2>3. CASE call.pc \in {"unmsg", "unflag", "unfrom"}
    <3>1. PICK u \in Type : mem = [seen.mem EXCEPT ![call.p] = Stamped(call.p, u),
                                                   ![call.peer] = Stamped(call.p, u)]
      BY <2>0, <2>3 DEF MemShown
    <3>2. t # call.p /\ t # call.peer /\ call.p \in Proc /\ call.peer \in Proc
      BY <1>2, <1>7, <1>8, <2>3 DEF SendPc
    <3>3. mem' = [seen'.mem EXCEPT ![call.p] = Stamped(call.p, u),
                                   ![call.peer] = Stamped(call.p, u)]
      BY <1>3, <1>5, <2>0, <3>1, <3>2
    <3> QED
      BY <1>0, <2>3, <3>3 DEF MemShown, ReceivePc, Stamped
  <2>4. CASE call.pc \in ReceivePc \ {"intclear", "intassert"}
    <3>1. mem = [seen.mem EXCEPT ![call.p].source = call.p]
      BY <2>0, <2>4 DEF MemShown
    <3>2. t # call.p /\ call.p \in Proc
      BY <1>2, <1>9, <2>4 DEF ReceivePc
    <3>3. mem' = [seen'.mem EXCEPT ![call.p].source = call.p]
      BY <1>3, <1>5, <2>0, <3>1, <3>2
    <3> QED
      BY <1>0, <2>4, <3>3 DEF MemShown, ReceivePc
  <2>5. CASE call.pc \in {"intclear", "intassert"}
    <3>1. mem = [seen.mem EXCEPT ![call.p] = IntMessage]
      BY <2>0, <2>5 DEF MemShown
    <3>2. t # call.p /\ call.p \in Proc
      BY <1>2, <1>9, <2>5 DEF ReceivePc
    <3>3. mem' = [seen'.mem EXCEPT ![call.p] = IntMessage]
      BY <1>3, <1>5, <2>0, <3>1, <3>2
    <3> QED
      BY <1>0, <2>5, <3>3 DEF MemShown, ReceivePc, IntMessage
  <2> QED
    BY <1>1, <2>1, <2>2, <2>3, <2>4, <2>5 DEF CallType, SendPc
<1>14. FoundShown'
  <2>0. FoundShown
    BY <1>1 DEF TableShown, IntShown
  <2>1. ASSUME call.pc \in {"assert", "copy", "unmsg", "unflag", "unfrom"}
        PROVE  Kernel!Awaits(call.peer, call.p)'
    <3>1. Kernel!Awaits(call.peer, call.p) /\ t # call.peer
      BY <1>7, <2>0, <2>1 DEF FoundShown
    <3>2. /\ seen'.p_flags[call.peer] = seen.p_flags[call.peer]
          /\ seen'.p_recvfrom[call.peer] = seen.p_recvfrom[call.peer]
      BY <1>1, <1>5, <1>8, <2>1, <3>1, SeenFacts DEF SendPc
    <3> QED
      BY <1>0, <3>1, <3>2 DEF Kernel!Awaits
  <2>2. ASSUME call.pc = "enqueue"
        PROVE  ~Kernel!Awaits(call.peer, call.p)'
    <3>1. ~Kernel!Awaits(call.peer, call.p) /\ call.peer \in Proc
      BY <1>8, <2>0, <2>2 DEF FoundShown, SendPc
    <3>2. CASE t = call.peer
      BY <1>0, <1>1, <1>5, <3>2, SeenFacts DEF Kernel!Awaits, Kernel!RECEIVING, RECEIVING
    <3>3. CASE t # call.peer
      BY <1>0, <1>1, <1>5, <3>1, <3>3, SeenFacts DEF Kernel!Awaits
    <3> QED
      BY <3>2, <3>3
  <2>3. ASSUME call.pc \in {"intcopy", "intclear", "intassert", "look", "flag", "msg",
                              "from", "block"}
        PROVE  /\ Kernel!TakesInt(call.p, call.peer)' <=> Kernel!TakesInt(call.p, call.peer)
               /\ seen'.p_flags[call.p] = seen.p_flags[call.p]
    <3>1. t # call.p /\ call.p \in Proc
      BY <1>2, <1>9, <2>3 DEF ReceivePc
    <3> QED
      BY <1>0, <1>1, <1>5, <3>1, SeenFacts DEF Kernel!TakesInt
  <2> QED
    BY <1>0, <2>0, <2>1, <2>2, <2>3 DEF FoundShown
<1>16. IntShown'
  <2>1. CASE call.pc # "intassert"
    BY <1>0, <1>1, <1>5, <2>1 DEF TableShown, IntShown
  <2>2. CASE call.pc = "intassert"
    <3>1. call.p \in Proc /\ t # call.p
      BY <1>2, <1>9, <2>2 DEF ReceivePc
    <3>2. PICK f, h : f = seen.has_int_msg /\ h = seen'.has_int_msg
      OBVIOUS
    <3>3. f \in [Proc -> {0, 1}] /\ t \in Proc
      BY <1>0, <1>1, <3>2, SeenFacts
    <3>4. h = [f EXCEPT ![t] = 0]
      BY <1>5, <3>2
    <3>5. has_int_msg = [f EXCEPT ![call.p] = 0]
      BY <1>1, <2>2, <3>2 DEF TableShown, IntShown
    <3>6. has_int_msg' = [h EXCEPT ![call.p] = 0]
      BY <1>0, <3>1, <3>3, <3>4, <3>5, CommutedUpdates
    <3> QED
      BY <1>0, <2>2, <3>2, <3>6 DEF IntShown
  <2> QED
    BY <2>1, <2>2
<1>15. TableShown'
  BY <1>0, <1>1, <1>5, <1>10, <1>11, <1>12, <1>13, <1>14, <1>16 DEF TableShown
<1> QED
  BY <1>0, <1>5, <1>6, <1>15 DEF Follows, Kernel!Next, Kernel!InformStep

-----------------------------------------------------------------------------
(* At the start seen shows the table, an initial state of Ipc.             *)
LEMMA InitAInv == AtomicInit => AInv /\ Kernel!Init
<1> SUFFICES ASSUME AtomicInit PROVE AInv /\ Kernel!Init
  OBVIOUS
<1>1. PreemptInit /\ seen = Table /\ Init /\ call.pc = "none" /\ panic = "no"
  BY DEF AtomicInit, PreemptInit, NoCall, Init
<1>2. SInv
  BY <1>1, InitSInv
<1>3. /\ seen.p_flags = p_flags /\ seen.p_recvfrom = p_recvfrom
      /\ seen.p_msg = p_msg /\ seen.mem = mem /\ seen.panic = panic
      /\ seen.p_sendto = p_sendto /\ seen.q_sending = q_sending
      /\ seen.has_int_msg = has_int_msg /\ SeenShape
  BY <1>1 DEF Table, SeenShape
<1>4. Kernel!Init
  BY <1>1, <1>3 DEF Init, Kernel!Init
<1>5. Shown!IInv
  BY <1>4, SameKernel, Shown!InitIInv, IrqTaskAssumption, PseudoProcAssumption,
     TypeAssumption
<1>6. TableShown
  BY <1>1, <1>3 DEF TableShown, IntShown, FlagsShown, FromShown, MsgShown, MemShown,
     FoundShown, ReceivePc
<1> QED
  BY <1>1, <1>2, <1>3, <1>4, <1>5, <1>6 DEF AInv

(* As long as nothing has disturbed a call, every step shows a step of Ipc.*)
LEMMA StepFollows ==
  ASSUME AInv, AtomicNext, ~disturbed, ~disturbed'
  PROVE  Follows
<1>1. CASE ShownCall
  <2>1. CASE SendStatement
    BY <1>1, <2>1, SendTestFollows, SendAssertFollows, SendCopyFollows,
       SendClearFollows, SendClearFromFollows, SendEnqueueFollows DEF SendStatement
  <2>2. CASE ReceiveStatement
    BY <1>1, <2>2, ReceiveTestIntFollows, ReceiveCopyIntFollows,
       ReceiveClearIntFollows, ReceiveAssertIntFollows, ReceiveLookFollows, ReceiveLookStrayFollows,
       ReceiveSetFlagFollows, ReceiveSetFollows, ReceiveDoBlockFollows
       DEF ReceiveStatement
  <2> QED
    BY <1>1, <2>1, <2>2, EnterSendFollows, EnterReceiveFollows DEF ShownCall, CallStep
<1>2. ASSUME NEW t \in IrqTask, ShownInform(t) PROVE Follows
  BY <1>2, PendFollows, DeliverFollows DEF ShownInform
<1>3. ASSUME NEW t \in IrqTask, DisturbingInform(t) PROVE FALSE
  BY <1>3 DEF DisturbingInform
<1> QED
  BY <1>1, <1>2, <1>3 DEF AtomicNext

(* A call that has been disturbed stays so.                                *)
LEMMA StaysDisturbed == [AtomicNext]_hvars => (disturbed => disturbed')
BY DEF AtomicNext, ShownCall, ShownInform, DisturbingInform, hvars

(* The invariant is kept, and until a call is disturbed each step of the   *)
(* machine is a step of Ipc or a stutter.                                  *)
LEMMA StepShows ==
  AInv /\ [AtomicNext]_hvars => AInv' /\ [disturbed' \/ Kernel!Next]_(Kernel!vars)
<1> SUFFICES ASSUME AInv, [AtomicNext]_hvars
             PROVE  AInv' /\ [disturbed' \/ Kernel!Next]_(Kernel!vars)
  OBVIOUS
<1>1. SInv'
  <2>1. ASSUME NEW t \in IrqTask, ShownInform(t) \/ DisturbingInform(t)
        PROVE  PreemptInform(t)
    BY <2>1 DEF ShownInform, DisturbingInform, PreemptInform
  <2>2. [PreemptNext]_pvars
    BY <2>1 DEF AtomicNext, ShownCall, PreemptNext, hvars
  <2> QED
    BY <2>2, StepSInv DEF AInv
<1>2. CASE UNCHANGED hvars
  <2>1. /\ UNCHANGED <<p_flags, p_recvfrom, p_sendto, p_msg, q_sending, has_int_msg,
                       mem, panic, call, seen, disturbed>>
    BY <1>2 DEF hvars, pvars
  <2>2. UNCHANGED Kernel!vars
    BY <2>1 DEF Kernel!vars
  <2>3. ~disturbed' => Shown!IInv'
    BY <2>1, <2>2, ShownInvariant DEF AInv
  <2>4. ~disturbed' => SeenShape' /\ (panic' # "no" => seen' = Table')
    BY <2>1 DEF AInv, SeenShape, Table
  <2>5. ~disturbed' /\ panic' = "no" => TableShown'
    BY <2>1 DEF AInv, TableShown, IntShown, FlagsShown, FromShown, MsgShown, MemShown, FoundShown,
       Kernel!Awaits, Kernel!TakesInt, Stamped, IntMessage
  <2> QED
    BY <1>1, <2>2, <2>3, <2>4, <2>5 DEF AInv
<1>3. CASE AtomicNext /\ ~disturbed'
  <2>1. ~disturbed
    BY StaysDisturbed, <1>3
  <2>2. Follows /\ Shown!IInv
    BY <1>3, <2>1, StepFollows DEF AInv
  <2>3. Shown!IInv'
    BY <2>2, ShownInvariant DEF Follows
  <2> QED
    BY <1>1, <2>2, <2>3 DEF AInv, Follows
<1>4. CASE AtomicNext /\ disturbed'
  BY <1>1, <1>4 DEF AInv
<1> QED
  BY <1>2, <1>3, <1>4

(* Until an interrupt falls into one of the three windows, system calls with*)
(* interrupts inside them implement the atomic calls of Ipc, for any number*)
(* of processes.                                                           *)
THEOREM CallsImplementIpc == AtomicSpec => CallsAreAtomic
<1>1. AtomicInit => AInv /\ Kernel!Init
  BY InitAInv
<1> QED
  BY <1>1, StepShows, PTL DEF AtomicSpec, CallsAreAtomic

(* So, until then, every invariant of the atomic calls holds between calls,*)
(* among them that no task sleeps on an interrupt that has come.           *)
THEOREM UndisturbedInvariance ==
  AtomicSpec => [](~disturbed /\ call = NoCall => IInv)
<1>1. AInv => (~disturbed /\ call = NoCall => IInv)
  <2> SUFFICES ASSUME AInv, ~disturbed, call = NoCall PROVE IInv
    OBVIOUS
  <2>1. Shown!IInv /\ SInv /\ call.pc = "none"
    BY DEF AInv, NoCall
  <2>2. /\ seen.p_flags = p_flags /\ seen.p_recvfrom = p_recvfrom
        /\ seen.p_msg = p_msg /\ seen.p_sendto = p_sendto
        /\ seen.has_int_msg = has_int_msg
    BY <2>1 DEF AInv, Table, TableShown, IntShown, FlagsShown, FromShown, MsgShown
  <2>3. BlockedStateAgrees /\ NoPendingInterrupt
    BY <2>1, <2>2 DEF Shown!IInv, Shown!BlockedStateAgrees, Shown!NoPendingInterrupt,
       Shown!Informs, Shown!Sending, Shown!SENDING, Shown!RECEIVING,
       BlockedStateAgrees, NoPendingInterrupt, Informs, Sending, SENDING, RECEIVING
  <2> QED
    BY <2>1, <2>3 DEF SInv, Structure, IInv
<1>2. AtomicInit => AInv
  BY InitAInv
<1> QED
  BY <1>1, <1>2, StepShows, PTL DEF AtomicSpec
=============================================================================
