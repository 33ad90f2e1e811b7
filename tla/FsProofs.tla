------------------------------ MODULE FsProofs ------------------------------
(***************************************************************************)
(* FS's reference counts are exact and its disk stays in order, for any    *)
(* number of processes, files, descriptors and sectors; and do_rdwt()      *)
(* reads and writes files as Files says, for any layout of the files, any  *)
(* size of a sector and any number of sectors in FS's buffer.              *)
(***************************************************************************)
EXTENDS Fs, FsRdwt, Induction, FiniteSetTheorems, SequenceTheorems, TLAPS

-----------------------------------------------------------------------------
(* Counting.                                                               *)

(* The searches of FS take the first of the entries they look for.         *)
LEMMA MinOf ==
  ASSUME NEW S \in SUBSET Nat, S # {}
  PROVE  Min(S) \in S /\ \A y \in S : Min(S) <= y
<1>1. PICK x \in S : \A y \in S : x <= y
  BY LeastNat
<1> QED
  BY <1>1 DEF Min

(* A process' files, told apart from other processes', are as many.        *)
LEMMA TaggedCount ==
  ASSUME NEW S, IsFiniteSet(S), NEW c
  PROVE  IsFiniteSet({c} \X S) /\ Cardinality({c} \X S) = Cardinality(S)
<1> DEFINE g == [x \in S |-> <<c, x>>]
<1>1. g \in Bijection(S, {c} \X S)
  BY DEF Bijection, Injection, Surjection, IsInjective
<1> QED
  BY <1>1, FS_Bijection DEF ExistsBijection

LEMMA Sizes ==
  ASSUME NEW S, IsFiniteSet(S)
  PROVE  /\ Cardinality(S) \in Nat
         /\ Cardinality(S) = 0 <=> S = {}
         /\ \A T \in SUBSET S : IsFiniteSet(T) /\ Cardinality(T) \in Nat
                                /\ Cardinality(T) <= Cardinality(S)
BY FS_CardinalityType, FS_EmptySet, FS_Subset

-----------------------------------------------------------------------------
(* The inductive invariant.                                                *)

used == {n \in Inode : dinode[n].mode # "none"}
sects(n) == IF dinode[n].mode = "char" THEN {} ELSE Run(dinode[n].start, dinode[n].nr)

(* What slot t caches is on the disk, and in use while somebody has it     *)
(* open.                                                                   *)
SlotTrue(t) ==
  /\ inode_table[t].cnt > 0 => /\ inode_table[t].num \in Inode
                               /\ inode_table[t].i = dinode[inode_table[t].num]
  /\ inode_table[t].cnt > leaked[t] => inode_table[t].num \in used

(* The open files that go through slot s.                                  *)
Claims(s) == {pf \in Counted : f_desc_table[filp[pf[1]][pf[2]]].inode = s}
NrClaims(s) == Cardinality(Claims(s))

IsEntry(e) == e = [num |-> e.num, cnt |-> e.cnt, i |-> e.i]

(* A slot is all free or all in use, so that no free slot is taken for the *)
(* inode it last held.                                                     *)
SlotsInv ==
  /\ leaked \in [Slot -> Nat]
  /\ inode_table = [s \in Slot |-> inode_table[s]]
  /\ \A s \in Slot :
       IsEntry(inode_table[s]) /\ (inode_table[s].cnt = 0 => inode_table[s] = FreeInode)

(* Between MM's copy of filp[] and fs_fork() the parent waits, and the     *)
(* child holds what it holds; nobody else who is dead holds anything.      *)
ForkInv ==
  /\ \/ forking = {}
     \/ \E p \in alive, c \in Proc \ alive : forking = {<<p, c>>} /\ filp[c] = filp[p]
  /\ \A p \in Proc \ alive :
       (\A fk \in forking : fk[2] # p) => \A f \in Fd : filp[p][f] = 0

(* The root directory is never removed, nor is the reserved bit anybody's, *)
(* and no entry, be it a caller's, names an inode that does not exist.     *)
RootInv ==
  /\ \A e \in 1..DirCap : dir[e].nr \in {0} \cup Inode
  /\ dinode[ROOT_INODE].mode = "directory"
  /\ \A n \in used : 0 \notin sects(n)

FInv == CountsInv /\ DiskInv /\ SlotsInv /\ ForkInv /\ RootInv

LEMMA Constants ==
  /\ IsFiniteSet(Proc) /\ IsFiniteSet(Fd) /\ IsFiniteSet(Proc \X Fd)
  /\ 1 \in Slot /\ {1, 2, 3} \subseteq Inode /\ 0 \notin Inode /\ Inode \subseteq Nat
  /\ Slot \subseteq Nat /\ 0 \notin Slot
  /\ {1, 2, 3} \subseteq 1..DirCap /\ DirCap \in Nat /\ NrSects \in Nat /\ 0 \in Bit
  /\ Fd \subseteq Nat /\ Desc \subseteq Nat /\ 0 \notin Desc
<1>1. IsFiniteSet(Proc) /\ IsFiniteSet(Fd)
  BY FsAssumption, FS_Interval DEF Fd
<1>2. IsFiniteSet(Proc \X Fd)
  BY <1>1, FS_Product
<1> QED
  BY <1>1, <1>2, FsAssumption DEF Slot, Inode, Bit, Fd, Desc

LEMMA RefsByClaims ==
  InodeRefs <=>
    /\ \A s \in Slot :
         inode_table[s].cnt = NrClaims(s) + leaked[s] + (IF s = 1 THEN 1 ELSE 0)
    /\ \A s, t \in Slot :
         inode_table[s].num = inode_table[t].num /\ inode_table[s].num # 0 => s = t
BY DEF InodeRefs, NrClaims, Claims

LEMMA SlotsTrue ==
  ASSUME DiskConsistent, NEW s \in Slot, leaked[s] \in Nat, inode_table[s].cnt \in Nat
  PROVE  SlotTrue(s)
BY DEF DiskConsistent, SlotTrue, used

LEMMA InitFInv == Init => FInv
<1> SUFFICES ASSUME Init PROVE FInv
  OBVIOUS
<1>1. Counted = {}
  BY DEF Init, Counted
<1>2. /\ \A d \in Desc : Holders(d) = {}
      /\ \A s \in Slot : Claims(s) = {}
  BY <1>1 DEF Holders, Claims
<1>3. used = {1, 2, 3} /\ sects(1) = Run(1, NR_DEFAULT_FILE_SECTS) /\ sects(2) = {}
      /\ sects(3) = Run(InstallBit, InstallSects)
  BY Constants DEF Init, used, sects, ROOT_INODE, TTY_INODE, CMD_INODE, NoInode
<1>4. /\ Run(1, NR_DEFAULT_FILE_SECTS) = 1..NR_DEFAULT_FILE_SECTS
      /\ Run(InstallBit, InstallSects) = InstallBit..(InstallBit + InstallSects - 1)
      /\ Run(1, NR_DEFAULT_FILE_SECTS) \cap Run(InstallBit, InstallSects) = {}
      /\ Run(1, NR_DEFAULT_FILE_SECTS) \cup Run(InstallBit, InstallSects) \subseteq Bit \ {0}
  BY FsAssumption DEF Run, Bit
<1>5. TypeOK
  <2>1. Cardinality(forking) <= 1
    BY FS_EmptySet DEF Init
  <2>2. filp \in [Proc -> [Fd -> {0} \cup Desc]]
        /\ f_desc_table \in [Desc -> [inode : {0} \cup Slot, cnt : Nat]]
    BY DEF Init
  <2>3. /\ DOMAIN inode_table = Slot
        /\ \A s \in Slot : inode_table[s].num \in {0} \cup Inode /\ inode_table[s].cnt \in Nat
    BY Constants DEF Init, FreeInode, ROOT_INODE
  <2>4. smap \subseteq Bit /\ imap \subseteq Inode
    BY <1>4, Constants DEF Init
  <2>5. alive \subseteq Proc
    BY FsAssumption DEF Init
  <2> QED
    BY <2>1, <2>2, <2>3, <2>4, <2>5, Constants DEF TypeOK, Init
<1>6. DescCounts
  BY <1>2, FS_EmptySet DEF DescCounts, Init
<1>7. InodeRefs
  <2>1. \A s \in Slot : NrClaims(s) = 0
    BY <1>2, FS_EmptySet DEF NrClaims
  <2> QED
    BY <2>1, RefsByClaims, Constants DEF Init, FreeInode, ROOT_INODE
<1>8. DiskConsistent
  <2>1. imap = used
    BY <1>3 DEF Init
  <2>2. smap = {0} \cup UNION {sects(n) : n \in used}
    BY <1>3 DEF Init
  <2>3. \A m, n \in used : m # n => sects(m) \cap sects(n) = {}
    <3>1. sects(1) \cap sects(3) = {} /\ sects(3) \cap sects(1) = {} /\ sects(2) = {}
      BY <1>3, <1>4
    <3> QED
      BY <1>3, <3>1
  <2>4. \A s \in Slot : inode_table[s].cnt > 0 =>
          inode_table[s].num \in used /\ inode_table[s].i = dinode[inode_table[s].num]
    BY <1>3, Constants DEF Init, FreeInode, ROOT_INODE
  <2> QED
    BY <2>1, <2>2, <2>3, <2>4 DEF DiskConsistent, used, sects
<1>9. \A e \in 1..DirCap : dir[e].nr = IF e \in {1, 2, 3} THEN e ELSE 0
  BY DEF Init, NoEntry, ROOT_INODE, TTY_INODE, CMD_INODE
<1>10. EntriesNameFiles
  BY <1>3, <1>9, Constants DEF EntriesNameFiles, used
<1>11. SlotsInv
  BY DEF SlotsInv, Init, FreeInode, IsEntry
<1>12. ForkInv
  BY DEF ForkInv, Init
<1>13. RootInv
  <2>1. 0 \notin sects(1) /\ 0 \notin sects(2) /\ 0 \notin sects(3)
    BY <1>3, <1>4
  <2>2. dinode[ROOT_INODE].mode = "directory"
    BY Constants DEF Init, ROOT_INODE, TTY_INODE, CMD_INODE
  <2> QED
    BY <1>3, <1>9, <2>1, <2>2, Constants DEF RootInv, ROOT_INODE
<1> QED
  BY <1>5, <1>6, <1>7, <1>8, <1>10, <1>11, <1>12, <1>13 DEF FInv, CountsInv, DiskInv

-----------------------------------------------------------------------------
(* The three tables.                                                       *)

LEMMA Finite ==
  /\ IsFiniteSet(Counted)
  /\ \A d \in Desc : IsFiniteSet(Holders(d)) /\ Cardinality(Holders(d)) \in Nat
  /\ \A s : IsFiniteSet(Claims(s)) /\ NrClaims(s) \in Nat
<1>1. IsFiniteSet(Counted)
  BY Constants, FS_Subset DEF Counted
<1>2. \A d \in Desc : Holders(d) \in SUBSET Counted
  BY DEF Holders
<1>3. \A s : Claims(s) \in SUBSET Counted
  BY DEF Claims
<1> QED
  BY <1>1, <1>2, <1>3, Sizes DEF NrClaims

(* A file that FS knows of leads through a descriptor in use to a slot in  *)
(* use.                                                                    *)
LEMMA CountedUses ==
  ASSUME FInv, NEW pf \in Counted
  PROVE  LET d == filp[pf[1]][pf[2]]  s == f_desc_table[d].inode IN
         /\ d \in Desc /\ f_desc_table[d].cnt > 0 /\ s \in Slot
         /\ pf \in Holders(d) /\ pf \in Claims(s)
         /\ inode_table[s].cnt > 0 /\ inode_table[s].cnt > leaked[s]
<1> DEFINE d == filp[pf[1]][pf[2]]
           s == f_desc_table[d].inode
<1>1. d \in Desc /\ f_desc_table[d].inode \in {0} \cup Slot /\ f_desc_table[d].cnt \in Nat
  BY DEF FInv, CountsInv, TypeOK, Counted
<1>2. pf \in Holders(d) /\ pf \in Claims(s)
  BY DEF Holders, Claims
<1>3. Cardinality(Holders(d)) # 0 /\ NrClaims(s) # 0
  BY <1>1, <1>2, Finite, FS_EmptySet DEF NrClaims
<1>4. f_desc_table[d].cnt > 0 /\ s \in Slot
  BY <1>1, <1>3, Finite DEF FInv, CountsInv, DescCounts
<1>5. inode_table[s].cnt > 0 /\ inode_table[s].cnt > leaked[s]
  <2>1. leaked[s] \in Nat /\ NrClaims(s) \in Nat
    BY <1>4, Finite DEF FInv, SlotsInv
  <2>2. inode_table[s].cnt = NrClaims(s) + leaked[s] + (IF s = 1 THEN 1 ELSE 0)
    BY <1>4, RefsByClaims DEF FInv, CountsInv
  <2> QED
    BY <1>3, <2>1, <2>2
<1> QED
  BY <1>1, <1>2, <1>4, <1>5

(* Whoever may call is not waiting for a fork(), nor forked and unknown.   *)
LEMMA CallerCounted ==
  ASSUME FInv, NEW p \in Proc, MayCall(p)
  PROVE  /\ p \in alive /\ \A fk \in forking : fk[1] # p /\ fk[2] # p
         /\ \A f \in Fd : filp[p][f] # 0 => <<p, f>> \in Counted
BY DEF FInv, ForkInv, MayCall, Counted

(* Every open file has a counted one with the same descriptor: its own, or *)
(* that of the parent it was just copied from.                             *)
LEMMA SomeHolder ==
  ASSUME FInv, NEW p \in Proc, NEW f \in Fd, filp[p][f] # 0
  PROVE  \/ <<p, f>> \in Counted
         \/ \E q \in alive : /\ \E fk \in forking : fk[1] = q /\ fk[2] = p
                             /\ <<q, f>> \in Counted /\ filp[q][f] = filp[p][f]
<1>1. CASE \A fk \in forking : fk[2] # p
  BY <1>1 DEF Counted
<1>2. CASE \E fk \in forking : fk[2] = p
  <2>1. PICK q \in alive, c \in Proc \ alive : forking = {<<q, c>>} /\ filp[c] = filp[q]
    BY <1>2 DEF FInv, ForkInv
  <2>2. c = p /\ q \in Proc /\ q # c
    BY <1>2, <2>1 DEF FInv, CountsInv, TypeOK
  <2> QED
    BY <2>1, <2>2 DEF Counted
<1> QED
  BY <1>1, <1>2

(* A new open file, in the first free places of filp[] and f_desc_table.   *)
LEMMA ConnectAdds ==
  ASSUME FInv, NEW p \in Proc, MayCall(p), ~NoRoom(p), NEW s0 \in Slot, Connect(p, s0),
         UNCHANGED <<forking, alive>>
  PROVE  /\ filp' \in [Proc -> [Fd -> {0} \cup Desc]]
         /\ f_desc_table' \in [Desc -> [inode : {0} \cup Slot, cnt : Nat]]
         /\ DescCounts' /\ ForkInv'
         /\ \A s \in Slot : NrClaims(s)' = NrClaims(s) + (IF s = s0 THEN 1 ELSE 0)
         /\ \A q \in Proc, f \in Fd :
              filp[q][f] # 0 => f_desc_table'[filp[q][f]] = f_desc_table[filp[q][f]]
<1>1. PICK f0 \in Fd : f0 = Min(FreeFds(p)) /\ filp[p][f0] = 0
  <2>1. FreeFds(p) \in SUBSET Nat /\ FreeFds(p) # {}
    BY Constants DEF NoRoom, FreeFds
  <2> QED
    BY <2>1, MinOf DEF FreeFds
<1>2. PICK d0 \in Desc : d0 = Min(FreeDescs) /\ f_desc_table[d0].inode = 0
  <2>1. FreeDescs \in SUBSET Nat /\ FreeDescs # {}
    BY Constants DEF NoRoom, FreeDescs
  <2> QED
    BY <2>1, MinOf DEF FreeDescs
<1>3. /\ filp' = [filp EXCEPT ![p][f0] = d0]
      /\ f_desc_table' = [f_desc_table EXCEPT ![d0] = [inode |-> s0, cnt |-> 1]]
  BY <1>1, <1>2 DEF Connect
<1>4. /\ filp \in [Proc -> [Fd -> {0} \cup Desc]]
      /\ f_desc_table \in [Desc -> [inode : {0} \cup Slot, cnt : Nat]]
  BY DEF FInv, CountsInv, TypeOK
<1>5. /\ filp' \in [Proc -> [Fd -> {0} \cup Desc]]
      /\ f_desc_table' \in [Desc -> [inode : {0} \cup Slot, cnt : Nat]]
  BY <1>1, <1>2, <1>3, <1>4
<1>6. \A q \in Proc, f \in Fd :
        filp'[q][f] = IF q = p /\ f = f0 THEN d0 ELSE filp[q][f]
  BY <1>1, <1>3, <1>4
<1>7. \A d \in Desc :
        f_desc_table'[d] = IF d = d0 THEN [inode |-> s0, cnt |-> 1] ELSE f_desc_table[d]
  BY <1>2, <1>3, <1>4
<1>8. <<p, f0>> \notin Counted /\ Counted' = Counted \cup {<<p, f0>>}
  <2>1. \A fk \in forking' : fk[2] # p
    BY CallerCounted
  <2> QED
    BY <1>1, <1>2, <1>6, <2>1, Constants DEF Counted
<1>9. \A q \in Proc, f \in Fd : filp[q][f] # d0
  <2> SUFFICES ASSUME NEW q \in Proc, NEW f \in Fd, filp[q][f] = d0 PROVE FALSE
    OBVIOUS
  <2>1. PICK pf \in Counted : filp[pf[1]][pf[2]] = d0
    <3>1. filp[q][f] # 0
      BY <1>2, Constants
    <3>2. CASE <<q, f>> \in Counted
      BY <3>2
    <3>3. CASE <<q, f>> \notin Counted
      <4>1. PICK r \in alive : <<r, f>> \in Counted /\ filp[r][f] = filp[q][f]
        BY <3>1, <3>3, SomeHolder
      <4> QED
        BY <4>1
    <3> QED
      BY <3>2, <3>3
  <2> QED
    BY <1>2, <2>1, CountedUses, Constants
<1>10. /\ \A pf \in Counted : /\ filp'[pf[1]][pf[2]] = filp[pf[1]][pf[2]]
                            /\ filp[pf[1]][pf[2]] \in Desc \ {d0}
       /\ filp'[p][f0] = d0
  <2>1. filp'[p][f0] = d0
    BY <1>1, <1>6
  <2>2. ASSUME NEW q \in Proc, NEW f \in Fd, <<q, f>> \in Counted
        PROVE  filp'[q][f] = filp[q][f] /\ filp[q][f] \in Desc \ {d0}
    <3>1. ~(q = p /\ f = f0)
      BY <1>8, <2>2
    <3>2. filp'[q][f] = filp[q][f]
      BY <1>6, <3>1
    <3>3. filp[q][f] \in Desc
      BY <2>2, CountedUses
    <3> QED
      BY <1>9, <3>2, <3>3
  <2>3. \A pf \in Counted : pf = <<pf[1], pf[2]>> /\ pf[1] \in Proc /\ pf[2] \in Fd
    BY DEF Counted
  <2> QED
    BY <2>1, <2>2, <2>3
<1>11. DescCounts'
  <2>1. Holders(d0)' = {<<p, f0>>}
    BY <1>8, <1>10 DEF Holders
  <2>2. \A d \in Desc \ {d0} : Holders(d)' = Holders(d)
    BY <1>8, <1>10 DEF Holders
  <2>3. Cardinality({<<p, f0>>}) = 1
    BY FS_Singleton
  <2>4. SUFFICES ASSUME NEW d \in Desc
        PROVE  /\ f_desc_table'[d].cnt = Cardinality(Holders(d))'
               /\ (f_desc_table'[d].inode = 0) <=> (f_desc_table'[d].cnt = 0)
    BY DEF DescCounts
  <2>5. CASE d = d0
    <3>1. f_desc_table'[d].cnt = 1 /\ f_desc_table'[d].inode = s0
      BY <1>2, <1>7, <2>5
    <3> QED
      BY <2>1, <2>3, <2>5, <3>1, Constants
  <2>6. CASE d # d0
    <3>1. f_desc_table'[d] = f_desc_table[d] /\ Holders(d)' = Holders(d)
      BY <1>7, <2>2, <2>6
    <3>2. /\ f_desc_table[d].cnt = Cardinality(Holders(d))
          /\ (f_desc_table[d].inode = 0) <=> (f_desc_table[d].cnt = 0)
      BY DEF FInv, CountsInv, DescCounts
    <3> QED
      BY <3>1, <3>2
  <2> QED
    BY <2>5, <2>6
<1>12. ForkInv'
  <2>1. p \in alive /\ (\A fk \in forking : fk[1] # p /\ fk[2] # p) /\ alive \subseteq Proc
    BY CallerCounted DEF FInv, CountsInv, TypeOK
  <2>2. \A q \in Proc \ {p} : filp'[q] = filp[q]
    BY <1>3, <1>4
  <2> QED
    BY <1>4, <2>1, <2>2 DEF FInv, ForkInv
<1>13. ASSUME NEW s \in Slot
       PROVE  NrClaims(s)' = NrClaims(s) + (IF s = s0 THEN 1 ELSE 0)
  <2>2. f_desc_table'[d0].inode = s0
    BY <1>2, <1>7
  <2>3. \A pf \in Counted : f_desc_table'[filp'[pf[1]][pf[2]]] = f_desc_table[filp[pf[1]][pf[2]]]
    BY <1>7, <1>10
  <2>4. Claims(s)' = IF s = s0 THEN Claims(s) \cup {<<p, f0>>} ELSE Claims(s)
    BY <1>8, <1>10, <2>2, <2>3 DEF Claims
  <2>5. <<p, f0>> \notin Claims(s) /\ IsFiniteSet(Claims(s)) /\ NrClaims(s) \in Nat
    BY <1>8, Finite DEF Claims
  <2>6. Cardinality(Claims(s) \cup {<<p, f0>>}) = Cardinality(Claims(s)) + 1
    BY <2>5, FS_AddElement
  <2> QED
    BY <2>4, <2>5, <2>6 DEF NrClaims
<1>14. \A q \in Proc, f \in Fd :
              filp[q][f] # 0 => f_desc_table'[filp[q][f]] = f_desc_table[filp[q][f]]
  BY <1>4, <1>7, <1>9
<1> QED
  BY <1>5, <1>11, <1>12, <1>13, <1>14

(* Slot s has k references to inode n now, and none other has n.           *)
TookSlot(s, n, k, i) ==
  /\ inode_table' = [t \in Slot |-> inode_table'[t]]
  /\ inode_table'[s] = [num |-> n, cnt |-> k, i |-> i]
  /\ \A t \in Slot \ {s} : inode_table'[t] = inode_table[t]
  /\ \A t \in Slot : inode_table[t].num = n => t = s
  /\ inode_table[s].cnt > 0 => inode_table[s].num = n

LEMMA FreeSlot ==
  ASSUME FInv, NEW s \in Slot, inode_table[s].cnt = 0
  PROVE  inode_table[s] = FreeInode /\ inode_table[s].num = 0
<1>1. inode_table[s] = FreeInode
  BY DEF FInv, SlotsInv
<1> QED
  BY <1>1 DEF FreeInode

LEMMA SlotForIn ==
  ASSUME FInv, NEW n \in Inode, ~InodeTableFull(n)
  PROVE  /\ SlotFor(n) \in Slot
         /\ IF Cached(n) # {} THEN SlotFor(n) \in Cached(n) ELSE SlotFor(n) \in FreeSlots
         /\ \A t \in Slot : inode_table[t].num = n => t \in Cached(n)
         /\ \A t \in Slot : inode_table[t].num = n => t = SlotFor(n)
<1> DEFINE S == IF Cached(n) # {} THEN Cached(n) ELSE FreeSlots
<1>1. S # {} /\ S \in SUBSET Slot /\ S \in SUBSET Nat
  BY Constants DEF InodeTableFull, Cached, FreeSlots
<1>2. SlotFor(n) \in S
  BY <1>1, MinOf DEF SlotFor
<1>3. ASSUME NEW t \in Slot, inode_table[t].num = n
      PROVE  t \in Cached(n)
  <2>1. inode_table[t].cnt \in Nat /\ n # 0
    BY Constants DEF FInv, CountsInv, TypeOK
  <2>2. inode_table[t].cnt # 0
    BY <1>3, <2>1, FreeSlot
  <2> QED
    BY <1>3, <2>1, <2>2 DEF Cached
<1>4. \A s, t \in Slot : inode_table[s].num = inode_table[t].num /\ inode_table[s].num # 0 => s = t
  BY RefsByClaims DEF FInv, CountsInv
<1>5. \A t \in Slot : inode_table[t].num = n => t = SlotFor(n)
  BY <1>1, <1>2, <1>3, <1>4, Constants DEF Cached
<1> QED
  BY <1>1, <1>2, <1>3, <1>5

LEMMA get_inodeTakes ==
  ASSUME FInv, NEW n \in Inode, ~InodeTableFull(n), inode_table' = get_inode(n)
  PROVE  TookSlot(SlotFor(n), n, inode_table[SlotFor(n)].cnt + 1, dinode[n])
<1>1. PICK s \in Slot : s = SlotFor(n)
  BY SlotForIn
<1>2. inode_table' = [inode_table EXCEPT ![s] =
         IF Cached(n) # {} THEN [num |-> n, cnt |-> @.cnt + 1, i |-> @.i]
                           ELSE [num |-> n, cnt |-> 1, i |-> dinode[n]]]
  BY <1>1, Zenon DEF get_inode
<1>3. DOMAIN inode_table = Slot /\ inode_table[s].cnt \in Nat
  BY DEF FInv, CountsInv, TypeOK
<1>4. inode_table'[s] = [num |-> n, cnt |-> inode_table[s].cnt + 1, i |-> dinode[n]]
  <2>1. CASE Cached(n) # {}
    <3>1. inode_table[s].cnt > 0 /\ inode_table[s].num = n
      BY <1>1, <2>1, SlotForIn DEF Cached
    <3>2. inode_table[s].i = dinode[n]
      BY <3>1 DEF FInv, DiskInv, DiskConsistent
    <3> QED
      BY <1>2, <1>3, <2>1, <3>2
  <2>2. CASE Cached(n) = {}
    <3>1. inode_table[s].cnt = 0
      BY <1>1, <2>2, SlotForIn DEF FreeSlots
    <3> QED
      BY <1>2, <1>3, <2>2, <3>1
  <2> QED
    BY <2>1, <2>2
<1>5. inode_table' = [t \in Slot |-> inode_table'[t]] /\ \A t \in Slot \ {s} : inode_table'[t] = inode_table[t]
  BY <1>2, <1>3
<1>6. inode_table[s].cnt > 0 => inode_table[s].num = n
  BY <1>1, SlotForIn DEF Cached, FreeSlots
<1> QED
  BY <1>1, <1>4, <1>5, <1>6, SlotForIn DEF TookSlot

(* The k references are right when somebody holds each or it was leaked.   *)
LEMMA ReferenceAdded ==
  ASSUME FInv, NEW s \in Slot, NEW n \in Inode, NEW k \in Nat \ {0},
         TookSlot(s, n, k, dinode'[n]),
         leaked' \in [Slot -> Nat], NrClaims(s)' \in Nat,
         k = NrClaims(s)' + leaked'[s] + (IF s = 1 THEN 1 ELSE 0),
         k > leaked'[s] => n \in used',
         \A m \in Inode \ {n} : dinode'[m] = dinode[m],
         \A t \in Slot \ {s} : NrClaims(t)' = NrClaims(t) /\ leaked'[t] = leaked[t]
  PROVE  /\ InodeRefs' /\ SlotsInv' /\ DOMAIN inode_table' = Slot
         /\ \A t \in Slot : inode_table'[t].num \in {0} \cup Inode /\ inode_table'[t].cnt \in Nat
         /\ \A t \in Slot : SlotTrue(t)'
<1>1. \A t \in Slot : /\ inode_table[t].num \in {0} \cup Inode /\ inode_table[t].cnt \in Nat
                      /\ leaked[t] \in Nat /\ NrClaims(t) \in Nat
  BY Finite DEF FInv, CountsInv, TypeOK, SlotsInv
<1>2. InodeRefs'
  <2>1. \A t \in Slot :
          inode_table'[t].cnt = NrClaims(t)' + leaked'[t] + (IF t = 1 THEN 1 ELSE 0)
    <3> SUFFICES ASSUME NEW t \in Slot
        PROVE inode_table'[t].cnt = NrClaims(t)' + leaked'[t] + (IF t = 1 THEN 1 ELSE 0)
      OBVIOUS
    <3>1. CASE t = s
      BY <3>1 DEF TookSlot
    <3>2. CASE t # s
      <4>1. inode_table[t].cnt = NrClaims(t) + leaked[t] + (IF t = 1 THEN 1 ELSE 0)
        BY RefsByClaims DEF FInv, CountsInv
      <4>2. inode_table'[t] = inode_table[t]
        BY <3>2 DEF TookSlot
      <4> QED
        BY <3>2, <4>1, <4>2
    <3> QED
      BY <3>1, <3>2
  <2>2. \A r, t \in Slot :
          inode_table'[r].num = inode_table'[t].num /\ inode_table'[r].num # 0 => r = t
    <3>1. \A r, t \in Slot :
          inode_table[r].num = inode_table[t].num /\ inode_table[r].num # 0 => r = t
      BY RefsByClaims DEF FInv, CountsInv
    <3> QED
      BY <3>1 DEF TookSlot
  <2> QED
    BY <2>1, <2>2 DEF InodeRefs, NrClaims, Claims
<1>3. SlotsInv'
  <2>1. \A t \in Slot \ {s} : inode_table'[t] = inode_table[t]
    BY DEF TookSlot
  <2>2. inode_table'[s] = [num |-> n, cnt |-> k, i |-> dinode'[n]]
    BY DEF TookSlot
  <2>3. inode_table'[s].cnt # 0
    BY <2>2
  <2>4. IsEntry(inode_table'[s])
    BY <2>2 DEF IsEntry
  <2>5. inode_table' = [t \in Slot |-> inode_table'[t]]
    BY DEF TookSlot
  <2> QED
    BY <2>1, <2>3, <2>4, <2>5 DEF FInv, SlotsInv
<1>4. \A t \in Slot : inode_table'[t].num \in {0} \cup Inode /\ inode_table'[t].cnt \in Nat
  BY <1>1 DEF TookSlot
<1>5. ASSUME NEW t \in Slot
      PROVE  SlotTrue(t)'
  <2>1. CASE t = s
    BY <2>1 DEF TookSlot, SlotTrue
  <2>2. CASE t # s
    <3>1. inode_table'[t] = inode_table[t] /\ inode_table[t].num # n /\ leaked'[t] = leaked[t]
      BY <2>2 DEF TookSlot
    <3>2. SlotTrue(t)
      BY <1>1, SlotsTrue DEF FInv, DiskInv
    <3>3. inode_table[t].cnt > leaked[t] => inode_table[t].cnt > 0
      BY <1>1
    <3>4. inode_table[t].num \in used => inode_table[t].num \in used'
      BY <3>1 DEF used
    <3> QED
      BY <3>1, <3>2, <3>3, <3>4 DEF SlotTrue
  <2> QED
    BY <2>1, <2>2
<1> QED
  BY <1>2, <1>3, <1>4, <1>5 DEF TookSlot

-----------------------------------------------------------------------------
(* Requests that leave the disk alone.                                     *)

LEMMA DiskKept ==
  ASSUME FInv, UNCHANGED <<disk, scribbled>>, \A t \in Slot : SlotTrue(t)'
  PROVE  DiskInv' /\ RootInv'
<1>1. UNCHANGED <<imap, smap, dinode, dir, dir_size, scribbled>>
  BY DEF disk
<1>2. used' = used /\ \A n : sects(n)' = sects(n)
  BY <1>1 DEF used, sects
<1>3. DiskConsistent'
  BY <1>1 DEF FInv, DiskInv, DiskConsistent, used, SlotTrue
<1>4. EntriesNameFiles => EntriesNameFiles'
  BY <1>1 DEF EntriesNameFiles
<1>5. RootInv'
  BY <1>1, <1>2 DEF FInv, RootInv
<1> QED
  BY <1>1, <1>3, <1>4, <1>5 DEF FInv, DiskInv

LEMMA StillKept ==
  ASSUME FInv, UNCHANGED <<tables, disk, alive, forking, leaked, scribbled>>
  PROVE  FInv'
<1>1. UNCHANGED <<filp, f_desc_table, inode_table, alive, forking, leaked, dinode, imap, smap,
                  dir, dir_size, scribbled>>
  BY DEF tables, disk
<1>2. TypeOK' /\ DescCounts' /\ InodeRefs'
  <2>1. TypeOK'
    BY <1>1 DEF FInv, CountsInv, TypeOK
  <2>2. Counted' = Counted
    BY <1>1 DEF Counted
  <2>3. DescCounts'
    BY <1>1, <2>2 DEF FInv, CountsInv, DescCounts, Holders
  <2>4. InodeRefs'
    BY <1>1, <2>2 DEF FInv, CountsInv, InodeRefs
  <2> QED
    BY <2>1, <2>3, <2>4
<1>3. DiskInv' /\ RootInv'
  <2>1. \A t \in Slot : SlotTrue(t)'
    BY <1>1, SlotsTrue DEF FInv, CountsInv, TypeOK, DiskInv, SlotsInv, SlotTrue, used
  <2> QED
    BY <1>1, <2>1, DiskKept DEF disk
<1>4. SlotsInv' /\ ForkInv'
  BY <1>1 DEF FInv, SlotsInv, ForkInv
<1> QED
  BY <1>2, <1>3, <1>4 DEF FInv, CountsInv

LEMMA panicKeeps == FInv /\ panic => FInv'
BY StillKept DEF panic

(* What a search finds is the number of an inode.                          *)
LEMMA search_fileFinds ==
  ASSUME FInv, NEW x, search_file(x) # 0
  PROVE  search_file(x) \in Inode
<1>1. CASE x # "/"
  <2>1. Match(x) # {} /\ Match(x) \in SUBSET Nat
    BY <1>1 DEF search_file, Match
  <2>2. PICK e \in 1..DirCap : search_file(x) = dir[e].nr
    BY <1>1, <2>1, MinOf DEF search_file, Match
  <2> QED
    BY <2>2 DEF FInv, RootInv
<1> QED
  BY <1>1, Constants DEF search_file, ROOT_INODE

(* A reference to a slot and one more that holds or leaks it.              *)
LEMMA OneMore ==
  ASSUME FInv, NEW s \in Slot
  PROVE  /\ inode_table[s].cnt = NrClaims(s) + leaked[s] + (IF s = 1 THEN 1 ELSE 0)
         /\ inode_table[s].cnt \in Nat /\ inode_table[s].cnt + 1 \in Nat \ {0}
         /\ NrClaims(s) \in Nat /\ leaked[s] \in Nat
<1>1. inode_table[s].cnt = NrClaims(s) + leaked[s] + (IF s = 1 THEN 1 ELSE 0)
  BY RefsByClaims DEF FInv, CountsInv
<1>2. inode_table[s].cnt \in Nat /\ NrClaims(s) \in Nat /\ leaked[s] \in Nat
  BY Finite DEF FInv, CountsInv, TypeOK, SlotsInv
<1> QED
  BY <1>1, <1>2

LEMMA do_openKeeps ==
  ASSUME FInv, NEW p \in Proc, NEW x, do_open(p, x)
  PROVE  FInv'
<1>1. PICK n \in Inode : n = search_file(x)
  BY search_fileFinds DEF do_open, OpenFails
<1>2. CASE InodeTableFull(n) \/ dinode[n].mode = "none"
  BY <1>1, <1>2, panicKeeps DEF do_open, OpenFails
<1>3. CASE ~InodeTableFull(n) /\ dinode[n].mode # "none"
  <2>1. /\ MayCall(p) /\ ~NoRoom(p) /\ Connect(p, SlotFor(n))
        /\ inode_table' = get_inode(n) /\ UNCHANGED <<disk, alive, forking, leaked, scribbled, panicked>>
    BY <1>1, <1>3 DEF do_open, OpenFails
  <2>2. PICK s \in Slot : s = SlotFor(n) /\ TookSlot(s, n, inode_table[s].cnt + 1, dinode[n])
    BY <1>3, <2>1, SlotForIn, get_inodeTakes
  <2>3. /\ filp' \in [Proc -> [Fd -> {0} \cup Desc]]
        /\ f_desc_table' \in [Desc -> [inode : {0} \cup Slot, cnt : Nat]]
        /\ DescCounts' /\ ForkInv'
        /\ \A t \in Slot : NrClaims(t)' = NrClaims(t) + (IF t = s THEN 1 ELSE 0)
    BY <2>1, <2>2, ConnectAdds
  <2>4. dinode' = dinode /\ leaked' = leaked /\ leaked \in [Slot -> Nat] /\ used' = used
        /\ n \in used
    BY <1>3, <2>1 DEF disk, FInv, SlotsInv, used
  <2>5. \A t \in Slot \ {s} : NrClaims(t)' = NrClaims(t) /\ leaked'[t] = leaked[t]
    BY <2>3, <2>4, OneMore
  <2>6. /\ InodeRefs' /\ SlotsInv' /\ DOMAIN inode_table' = Slot
        /\ \A t \in Slot : inode_table'[t].num \in {0} \cup Inode /\ inode_table'[t].cnt \in Nat
        /\ \A t \in Slot : SlotTrue(t)'
    <3>1. inode_table[s].cnt + 1 = NrClaims(s)' + leaked'[s] + (IF s = 1 THEN 1 ELSE 0)
          /\ NrClaims(s)' \in Nat /\ inode_table[s].cnt + 1 \in Nat \ {0}
      <4>1. NrClaims(s)' = NrClaims(s) + 1 /\ leaked'[s] = leaked[s]
        BY <2>3, <2>4
      <4> QED
        BY <4>1, OneMore
    <3> QED
      BY <2>2, <2>4, <2>5, <3>1, ReferenceAdded
  <2>7. DiskInv' /\ RootInv'
    BY <2>1, <2>6, DiskKept
  <2>8. TypeOK'
    BY <2>1, <2>3, <2>6 DEF FInv, CountsInv, TypeOK, disk
  <2> QED
    BY <2>3, <2>6, <2>7, <2>8 DEF FInv, CountsInv
<1> QED
  BY <1>2, <1>3

LEMMA UnlinkRefusedKeeps ==
  ASSUME FInv, NEW p \in Proc, NEW x, UnlinkRefused(p, x)
  PROVE  FInv'
<1>1. PICK n \in Inode : n = search_file(x)
  BY search_fileFinds DEF UnlinkRefused
<1>2. /\ ~InodeTableFull(n) /\ inode_table' = get_inode(n)
      /\ leaked' = [leaked EXCEPT ![SlotFor(n)] = @ + 1]
      /\ UNCHANGED <<filp, f_desc_table, disk, alive, forking, scribbled, panicked>>
  BY <1>1 DEF UnlinkRefused
<1>3. PICK s \in Slot : s = SlotFor(n) /\ TookSlot(s, n, inode_table[s].cnt + 1, dinode[n])
  BY <1>2, SlotForIn, get_inodeTakes
<1>4. /\ dinode' = dinode /\ used' = used /\ leaked \in [Slot -> Nat] /\ leaked' \in [Slot -> Nat]
      /\ \A t \in Slot : leaked'[t] = leaked[t] + (IF t = s THEN 1 ELSE 0)
  BY <1>2, <1>3 DEF disk, FInv, SlotsInv, used
<1>5. \A t \in Slot : NrClaims(t)' = NrClaims(t)
  BY <1>2 DEF NrClaims, Claims, Counted
<1>6. /\ inode_table[s].cnt + 1 = NrClaims(s)' + leaked'[s] + (IF s = 1 THEN 1 ELSE 0)
      /\ NrClaims(s)' \in Nat /\ inode_table[s].cnt + 1 \in Nat \ {0}
      /\ inode_table[s].cnt + 1 > leaked'[s] => n \in used'
  <2>1. inode_table[s].cnt > leaked[s] => n \in used
    <3>1. SlotTrue(s) /\ (inode_table[s].cnt > leaked[s] => inode_table[s].cnt > 0)
      BY OneMore, SlotsTrue DEF FInv, DiskInv
    <3> QED
      BY <1>3, <3>1 DEF SlotTrue, TookSlot
  <2> QED
    BY <1>4, <1>5, <2>1, OneMore
<1>7. /\ InodeRefs' /\ SlotsInv' /\ DOMAIN inode_table' = Slot
      /\ \A t \in Slot : inode_table'[t].num \in {0} \cup Inode /\ inode_table'[t].cnt \in Nat
      /\ \A t \in Slot : SlotTrue(t)'
  <2>1. \A t \in Slot \ {s} : NrClaims(t)' = NrClaims(t) /\ leaked'[t] = leaked[t]
    BY <1>4, <1>5
  <2> QED
    BY <1>3, <1>4, <1>6, <2>1, ReferenceAdded
<1>8. DiskInv' /\ RootInv'
  BY <1>2, <1>7, DiskKept
<1>9. TypeOK' /\ DescCounts' /\ ForkInv'
  <2>1. TypeOK' /\ ForkInv'
    BY <1>2, <1>7 DEF FInv, CountsInv, TypeOK, disk, ForkInv
  <2>2. Counted' = Counted
    BY <1>2 DEF Counted
  <2>3. DescCounts'
    BY <1>2, <2>2 DEF FInv, CountsInv, DescCounts, Holders
  <2> QED
    BY <2>1, <2>3
<1> QED
  BY <1>7, <1>8, <1>9 DEF FInv, CountsInv

(* The inode is put back as it was found.                                  *)
LEMMA do_statKeeps ==
  ASSUME FInv, NEW p \in Proc, NEW x, do_stat(p, x)
  PROVE  FInv' /\ (inode_table' = inode_table \/ panic)
<1>1. PICK n \in Inode : n = search_file(x)
  BY search_fileFinds DEF do_stat
<1>2. CASE InodeTableFull(n)
  BY <1>1, <1>2, panicKeeps DEF do_stat
<1>3. CASE ~InodeTableFull(n)
  <2>1. PICK s \in Slot : s = SlotFor(n)
    BY <1>3, SlotForIn
  <2>2. /\ inode_table' = put_inode(get_inode(n), s)
        /\ UNCHANGED <<filp, f_desc_table, disk, alive, forking, leaked, scribbled, panicked>>
    BY <1>1, <1>3, <2>1 DEF do_stat
  <2> DEFINE got == get_inode(n)[s]
  <2>3. /\ get_inode(n) = [inode_table EXCEPT ![s] =
              IF Cached(n) # {} THEN [num |-> n, cnt |-> @.cnt + 1, i |-> @.i]
                                ELSE [num |-> n, cnt |-> 1, i |-> dinode[n]]]
    BY <2>1, Zenon DEF get_inode
  <2>4. DOMAIN inode_table = Slot /\ inode_table[s].cnt \in Nat
    BY DEF FInv, CountsInv, TypeOK
  <2>5. inode_table' = [inode_table EXCEPT ![s] = Less(got, 1)]
    BY <2>2, <2>3, <2>4 DEF put_inode
  <2>6. Less(got, 1) = inode_table[s]
    <3>1. CASE Cached(n) # {}
      <4>1. inode_table[s].cnt > 0 /\ inode_table[s].num = n
        BY <2>1, <3>1, <1>3, SlotForIn DEF Cached
      <4>2. inode_table[s] = [num |-> n, cnt |-> inode_table[s].cnt, i |-> inode_table[s].i]
        BY <4>1 DEF FInv, SlotsInv, IsEntry
      <4>3. got = [num |-> n, cnt |-> inode_table[s].cnt + 1, i |-> inode_table[s].i]
        BY <2>3, <2>4, <3>1
      <4>4. got.cnt # 1 /\ [got EXCEPT !.cnt = @ - 1]
              = [num |-> n, cnt |-> inode_table[s].cnt, i |-> inode_table[s].i]
        BY <2>4, <4>1, <4>3
      <4> QED
        BY <4>2, <4>4 DEF Less
    <3>2. CASE Cached(n) = {}
      <4>1. inode_table[s].cnt = 0
        BY <2>1, <3>2, <1>3, SlotForIn DEF FreeSlots
      <4>2. got.cnt = 1
        BY <2>3, <2>4, <3>2
      <4> QED
        BY <4>1, <4>2, FreeSlot DEF Less
    <3> QED
      BY <3>1, <3>2
  <2>7. inode_table' = inode_table
    <3>1. inode_table = [t \in Slot |-> inode_table[t]]
      BY DEF FInv, SlotsInv
    <3> HIDE DEF got
    <3> QED
      BY <2>5, <2>6, <3>1
  <2> QED
    BY <2>2, <2>7, StillKept DEF tables
<1> QED
  BY <1>2, <1>3

-----------------------------------------------------------------------------
(* Creating and removing a file.                                           *)

(* The sectors of a new file are free ones.                                *)
LEMMA NewSectors ==
  ASSUME FInv, ~SmapRefuses
  PROVE  LET new == Run(FirstFree, NR_DEFAULT_FILE_SECTS) IN
         new \subseteq Bit /\ new \cap smap = {}
<1>1. FirstFree \in Bit \ smap
  <2>1. Bit \ smap # {} /\ Bit \ smap \in SUBSET Nat
    BY DEF SmapRefuses, Bit
  <2> QED
    BY <2>1, MinOf DEF FirstFree
<1>2. \A b \in Run(FirstFree, NR_DEFAULT_FILE_SECTS) : b \notin smap /\ b # NrSects
  BY DEF SmapRefuses
<1>3. PICK a \in Nat : a = FirstFree /\ a < NrSects
  BY <1>1, Constants DEF Bit
<1>4. NR_DEFAULT_FILE_SECTS \in Nat /\ NrSects \in Nat
  BY FsAssumption
<1>5. NrSects \notin a..(a + NR_DEFAULT_FILE_SECTS - 1)
  BY <1>2, <1>3 DEF Run
<1>6. a..(a + NR_DEFAULT_FILE_SECTS - 1) \subseteq Bit
  BY <1>3, <1>4, <1>5 DEF Bit
<1> QED
  BY <1>2, <1>3, <1>6 DEF Run

(* So is its inode, which nobody has open.                                 *)
LEMMA NewInode ==
  ASSUME FInv, Inode \ imap # {}
  PROVE  LET n == Min(Inode \ imap) IN
         /\ n \in Inode /\ n \notin used
         /\ \A s \in Slot : inode_table[s].num = n =>
              NrClaims(s) = 0 /\ s # 1 /\ inode_table[s].cnt = leaked[s]
<1> DEFINE n == Min(Inode \ imap)
<1>1. n \in Inode /\ n \notin used
  <2>1. n \in Inode \ imap
    BY MinOf, Constants
  <2> QED
    BY <2>1 DEF FInv, DiskInv, DiskConsistent, used
<1> HIDE DEF n
<1>2. ASSUME NEW s \in Slot, inode_table[s].num = n
      PROVE  NrClaims(s) = 0 /\ s # 1 /\ inode_table[s].cnt = leaked[s]
  <2>1. ~(inode_table[s].cnt > leaked[s])
    BY <1>1, <1>2, OneMore, SlotsTrue DEF FInv, DiskInv, SlotTrue
  <2>2. inode_table[s].cnt = NrClaims(s) + leaked[s] + (IF s = 1 THEN 1 ELSE 0)
        /\ NrClaims(s) \in Nat /\ leaked[s] \in Nat
    BY OneMore
  <2> QED
    BY <2>1, <2>2
<1> QED
  BY <1>1, <1>2 DEF n

LEMMA NewEntryFits ==
  ASSUME FInv, NewEntry <= DirCap
  PROVE  /\ NewEntry \in 1..DirCap
         /\ (IF FreeEntries # {} THEN dir_size ELSE dir_size + 1) \in 0..DirCap
<1>1. dir_size \in 0..DirCap /\ DirCap \in Nat
  BY Constants DEF FInv, CountsInv, TypeOK
<1>2. CASE FreeEntries # {}
  <2>1. FreeEntries \in SUBSET Nat /\ FreeEntries \subseteq 1..dir_size
    BY <1>1 DEF FreeEntries
  <2>2. NewEntry \in FreeEntries
    BY <1>2, <2>1, MinOf DEF NewEntry
  <2> QED
    BY <1>1, <1>2, <2>1, <2>2
<1>3. CASE FreeEntries = {}
  BY <1>1, <1>3 DEF NewEntry
<1> QED
  BY <1>2, <1>3

LEMMA create_fileKeeps ==
  ASSUME FInv, NEW p \in Proc, NEW x, create_file(p, x)
  PROVE  FInv'
<1>1. PICK n \in Inode :
        /\ n = Min(Inode \ imap) /\ n \notin used
        /\ \A s \in Slot : inode_table[s].num = n =>
             NrClaims(s) = 0 /\ s # 1 /\ inode_table[s].cnt = leaked[s]
  BY NewInode DEF create_file
<1>2. PICK run : run = Run(FirstFree, NR_DEFAULT_FILE_SECTS)
  OBVIOUS
<1>3. PICK new : new = [mode |-> "regular", start |-> FirstFree, nr |-> NR_DEFAULT_FILE_SECTS]
  OBVIOUS
<1>4. CASE SmapRefuses \/ InodeTableFull(n)
  BY <1>1, <1>4, panicKeeps DEF create_file
<1>5. CASE ~SmapRefuses /\ ~InodeTableFull(n)
  <2>1. PICK s \in Slot : s = SlotFor(n)
    BY <1>5, SlotForIn
  <2>2. PICK k \in 1..DirCap : k = NewEntry
    BY NewEntryFits DEF create_file
  <2>3. /\ MayCall(p) /\ ~NoRoom(p) /\ Connect(p, s)
        /\ inode_table' = [inode_table EXCEPT ![s] = [num |-> n, cnt |-> 1, i |-> new]]
        /\ imap' = imap \cup {n} /\ smap' = smap \cup run
        /\ dinode' = [dinode EXCEPT ![n] = new]
        /\ dir' = [dir EXCEPT ![k] = [nr |-> n, name |-> x]]
        /\ dir_size' = IF FreeEntries # {} THEN dir_size ELSE dir_size + 1
        /\ leaked' = [leaked EXCEPT ![s] = 0]
        /\ UNCHANGED <<alive, forking, scribbled, panicked>>
    BY <1>1, <1>2, <1>3, <1>5, <2>1, <2>2, Zenon DEF create_file
  <2>4. /\ imap = used /\ imap \subseteq Inode /\ DOMAIN dinode = Inode /\ DOMAIN dir = 1..DirCap
        /\ inode_table = [t \in Slot |-> inode_table[t]]
    BY DEF FInv, DiskInv, DiskConsistent, CountsInv, TypeOK, used, SlotsInv
  <2>5. TookSlot(s, n, 1, dinode'[n])
    <3>1. /\ \A t \in Slot : inode_table[t].num = n => t = s
          /\ inode_table[s].cnt > 0 => inode_table[s].num = n
      BY <1>5, <2>1, SlotForIn DEF Cached, FreeSlots
    <3>2. dinode'[n] = new /\ inode_table' = [t \in Slot |-> inode_table'[t]]
      BY <2>3, <2>4
    <3> QED
      BY <2>3, <2>4, <3>1, <3>2 DEF TookSlot
  <2>6. /\ \A m \in Inode \ {n} : dinode'[m] = dinode[m]
        /\ dinode'[n] = new /\ DOMAIN dinode' = Inode
        /\ used' = used \cup {n} /\ sects(n)' = run
        /\ \A m \in Inode \ {n} : sects(m)' = sects(m)
    <3>1. /\ \A m \in Inode \ {n} : dinode'[m] = dinode[m]
          /\ dinode'[n] = new /\ DOMAIN dinode' = Inode
      BY <2>3, <2>4
    <3>2. used' = used \cup {n}
      BY <1>3, <3>1 DEF used
    <3>3. sects(n)' = run
      <4>1. /\ dinode'[n].mode = "regular" /\ dinode'[n].start = FirstFree
            /\ dinode'[n].nr = NR_DEFAULT_FILE_SECTS
        BY <1>3, <3>1
      <4> QED
        BY <1>2, <4>1 DEF sects
    <3>4. \A m \in Inode \ {n} : sects(m)' = sects(m)
      BY <3>1 DEF sects
    <3> QED
      BY <3>1, <3>2, <3>3, <3>4
  <2>7. /\ filp' \in [Proc -> [Fd -> {0} \cup Desc]]
        /\ f_desc_table' \in [Desc -> [inode : {0} \cup Slot, cnt : Nat]]
        /\ DescCounts' /\ ForkInv'
        /\ \A t \in Slot : NrClaims(t)' = NrClaims(t) + (IF t = s THEN 1 ELSE 0)
    BY <2>3, ConnectAdds
  <2>8. /\ NrClaims(s)' = 1 /\ leaked'[s] = 0 /\ s # 1 /\ leaked' \in [Slot -> Nat]
        /\ \A t \in Slot \ {s} : NrClaims(t)' = NrClaims(t) /\ leaked'[t] = leaked[t]
    <3>1. leaked \in [Slot -> Nat]
      BY DEF FInv, SlotsInv
    <3>2. NrClaims(s) = 0 /\ s # 1
      <4>1. CASE inode_table[s].num = n
        BY <1>1, <4>1
      <4>2. CASE inode_table[s].num # n
        <5>1. inode_table[s].cnt = 0
          BY <2>5, <4>2, OneMore DEF TookSlot
        <5> QED
          BY <5>1, OneMore
      <4> QED
        BY <4>1, <4>2
    <3>3. \A t \in Slot \ {s} : NrClaims(t)' = NrClaims(t)
      BY <2>7, OneMore
    <3> QED
      BY <2>3, <2>7, <3>1, <3>2, <3>3
  <2>9. n \in used' /\ \A m \in Inode \ {n} : dinode'[m] = dinode[m]
    BY <2>6
  <2>10. /\ InodeRefs' /\ SlotsInv' /\ DOMAIN inode_table' = Slot
         /\ \A t \in Slot : inode_table'[t].num \in {0} \cup Inode /\ inode_table'[t].cnt \in Nat
         /\ \A t \in Slot : SlotTrue(t)'
    <3>1. 1 = NrClaims(s)' + leaked'[s] + (IF s = 1 THEN 1 ELSE 0) /\ NrClaims(s)' \in Nat
      BY <2>8
    <3> QED
      BY <2>5, <2>8, <2>9, <3>1, ReferenceAdded
  <2>11. /\ run \subseteq Bit /\ run \cap smap = {}
         /\ smap = {0} \cup UNION {sects(m) : m \in used}
         /\ \A l, m \in used : l # m => sects(l) \cap sects(m) = {}
    BY <1>2, <1>5, NewSectors DEF FInv, DiskInv, DiskConsistent, used, sects
  <2>12. DiskConsistent'
    <3>1. \A b : b \in smap <=> b = 0 \/ \E m \in used : b \in sects(m)
      BY <2>11
    <3>2. \A l, m \in used' : l # m => sects(l)' \cap sects(m)' = {}
      <4>1. ASSUME NEW m \in used
            PROVE  m \in Inode \ {n} /\ sects(m)' = sects(m) /\ sects(m) \cap run = {}
        <5>1. m \in Inode \ {n}
          BY <1>1 DEF used
        <5>2. sects(m) \subseteq smap
          BY <3>1
        <5> QED
          BY <2>6, <2>11, <5>1, <5>2
      <4> QED
        BY <2>6, <2>11, <4>1
    <3>3. \A b : b \in smap' <=> b = 0 \/ \E m \in used' : b \in sects(m)'
      <4>1. \A m \in used : m \in Inode \ {n}
        BY <1>1 DEF used
      <4> QED
        BY <2>3, <2>6, <3>1, <4>1
    <3>4. smap' = {0} \cup UNION {sects(m)' : m \in used'}
      BY <3>3
    <3>5. imap' = used'
      BY <2>3, <2>4, <2>6
    <3> QED
      BY <2>10, <3>2, <3>5, <3>4 DEF DiskConsistent, SlotTrue, used, sects
  <2>13. ASSUME scribbled = 0
         PROVE  EntriesNameFiles'
    <3>1. \A e \in 1..DirCap : dir'[e].nr = IF e = k THEN n ELSE dir[e].nr
      BY <2>3, <2>4
    <3>2. \A e \in 1..DirCap : dir[e].nr # 0 =>
            /\ dir[e].nr \in used
            /\ \A j \in 1..DirCap : dir[j].nr = dir[e].nr => j = e
      BY <2>13 DEF FInv, DiskInv, EntriesNameFiles, RootInv, used
    <3>3. \A e \in 1..DirCap : dir'[e].nr # 0 =>
            /\ dir'[e].nr \in used'
            /\ \A j \in 1..DirCap : dir'[j].nr = dir'[e].nr => j = e
      <4> SUFFICES ASSUME NEW e \in 1..DirCap, dir'[e].nr # 0
                   PROVE  /\ dir'[e].nr \in used'
                          /\ \A j \in 1..DirCap : dir'[j].nr = dir'[e].nr => j = e
        OBVIOUS
      <4>1. n \notin used /\ used' = used \cup {n}
        BY <1>1, <2>6
      <4>2. CASE e = k
        BY <3>1, <3>2, <4>1, <4>2
      <4>3. CASE e # k
        <5>1. dir'[e].nr = dir[e].nr /\ dir[e].nr \in used
          BY <3>1, <3>2, <4>3
        <5> QED
          BY <3>1, <3>2, <4>1, <5>1
      <4> QED
        BY <4>2, <4>3
    <3> QED
      BY <3>3 DEF EntriesNameFiles, used
  <2>14. RootInv'
    <3>1. \A e \in 1..DirCap : dir'[e].nr = IF e = k THEN n ELSE dir[e].nr
      BY <2>3, <2>4
    <3>2. ROOT_INODE # n /\ ROOT_INODE \in Inode
      BY <1>1, Constants DEF FInv, RootInv, used, ROOT_INODE
    <3>3. 0 \notin run
      BY <2>11
    <3>4. \A m \in used' : 0 \notin sects(m)'
      BY <1>1, <2>6, <3>3 DEF FInv, RootInv, used
    <3> QED
      BY <2>2, <2>6, <3>1, <3>2, <3>4, Constants DEF FInv, RootInv
  <2>15. TypeOK'
    <3>1. dir_size' \in 0..DirCap
      BY <2>3, NewEntryFits DEF create_file
    <3>2. imap' \subseteq Inode /\ smap' \subseteq Bit
      BY <2>3, <2>4, <2>11 DEF FInv, CountsInv, TypeOK
    <3>3. DOMAIN dinode' = Inode /\ DOMAIN dir' = 1..DirCap
      BY <2>3, <2>4
    <3> QED
      BY <2>3, <2>7, <2>10, <3>1, <3>2, <3>3 DEF FInv, CountsInv, TypeOK
  <2> QED
    BY <2>3, <2>7, <2>10, <2>12, <2>13, <2>14, <2>15 DEF FInv, CountsInv, DiskInv
<1> QED
  BY <1>4, <1>5

LEMMA ShrunkSizeFits ==
  ASSUME FInv, NEW n \in Inode, Entries(n) # {}
  PROVE  /\ Min(Entries(n)) \in 1..dir_size /\ dir[Min(Entries(n))].nr = n
         /\ ShrunkSize(Min(Entries(n))) \in 0..DirCap
<1>1. dir_size \in 0..DirCap /\ DirCap \in Nat
  BY Constants DEF FInv, CountsInv, TypeOK
<1>2. PICK e \in Entries(n) : e = Min(Entries(n))
  <2>1. Entries(n) \in SUBSET Nat
    BY DEF Entries
  <2> QED
    BY <2>1, MinOf
<1>3. e \in 1..dir_size /\ dir[e].nr = n
  BY <1>1, <1>2 DEF Entries
<1>4. ShrunkSize(e) \in 0..DirCap
  <2> DEFINE before == {k \in 1..(e - 1) : dir[k].nr # 0}
  <2>1. IsFiniteSet(1..(e - 1)) /\ Cardinality(1..(e - 1)) = e - 1
    BY <1>1, <1>3, FS_Interval
  <2>2. Cardinality(before) \in Nat /\ Cardinality(before) <= e - 1 /\ IsFiniteSet(before)
    BY <2>1, Sizes
  <2> HIDE DEF before
  <2>3. Cardinality(before) \in 0..DirCap
    BY <1>1, <1>3, <2>2
  <2> QED
    BY <1>1, <2>3 DEF ShrunkSize, before
<1> QED
  BY <1>2, <1>3, <1>4

LEMMA do_unlinkKeeps ==
  ASSUME FInv, NEW p \in Proc, NEW x, do_unlink(p, x)
  PROVE  FInv'
<1>1. PICK n \in Inode : n = search_file(x)
  BY search_fileFinds DEF do_unlink
<1>2. CASE panic
  BY <1>2, panicKeeps
<1>3. CASE ~panic
  <2>1. Removable(n) /\ Run(dinode[n].start, dinode[n].nr) \subseteq smap /\ Entries(n) # {}
    BY <1>1, <1>3 DEF do_unlink
  <2>2. n \in used /\ n # ROOT_INODE /\ sects(n) = Run(dinode[n].start, dinode[n].nr)
    BY <2>1 DEF Removable, FInv, RootInv, sects, used
  <2>3. PICK e \in 1..dir_size : e = Min(Entries(n)) /\ dir[e].nr = n /\ ShrunkSize(e) \in 0..DirCap
    BY <2>1, ShrunkSizeFits
  <2>4. PICK gone : gone = sects(n)
    OBVIOUS
  <2>5. /\ imap' = imap \ {n} /\ smap' = smap \ gone
        /\ dinode' = [dinode EXCEPT ![n] = NoInode]
        /\ dir' = [dir EXCEPT ![e] = NoEntry] /\ dir_size' = ShrunkSize(e)
        /\ UNCHANGED <<filp, f_desc_table, inode_table, alive, forking, leaked, scribbled, panicked>>
    BY <1>1, <1>3, <2>2, <2>3, <2>4 DEF do_unlink, tables
  <2>6. /\ imap = used /\ imap \subseteq Inode /\ DOMAIN dinode = Inode /\ DOMAIN dir = 1..DirCap
        /\ smap \subseteq Bit /\ e \in 1..DirCap
    BY Constants DEF FInv, DiskInv, DiskConsistent, CountsInv, TypeOK, used
  <2>7. /\ \A m \in Inode \ {n} : dinode'[m] = dinode[m]
        /\ dinode'[n] = NoInode /\ DOMAIN dinode' = Inode
        /\ used' = used \ {n}
        /\ \A m \in Inode \ {n} : sects(m)' = sects(m)
    <3>1. /\ \A m \in Inode \ {n} : dinode'[m] = dinode[m]
          /\ dinode'[n] = NoInode /\ DOMAIN dinode' = Inode
      BY <2>5, <2>6
    <3>2. used' = used \ {n}
      BY <3>1 DEF used, NoInode
    <3>3. \A m \in Inode \ {n} : sects(m)' = sects(m)
      BY <3>1 DEF sects
    <3> QED
      BY <3>1, <3>2, <3>3
  <2>8. /\ \A b : b \in smap <=> b = 0 \/ \E m \in used : b \in sects(m)
        /\ \A l, m \in used : l # m => sects(l) \cap sects(m) = {}
        /\ 0 \notin gone
    <3>1. /\ smap = {0} \cup UNION {sects(m) : m \in used}
          /\ \A l, m \in used : l # m => sects(l) \cap sects(m) = {}
      BY DEF FInv, DiskInv, DiskConsistent, used, sects
    <3> QED
      BY <2>2, <2>4, <3>1 DEF FInv, RootInv
  <2>9. \A m \in used' : m \in Inode \ {n} /\ m \in used /\ sects(m)' = sects(m)
    BY <2>7 DEF used
  <2>10. DiskConsistent'
    <3>1. \A m \in used' : sects(m)' \cap gone = {}
      BY <2>2, <2>4, <2>7, <2>8, <2>9
    <3>2. \A b : b \in smap' <=> b = 0 \/ \E m \in used' : b \in sects(m)'
      BY <2>4, <2>5, <2>7, <2>8, <2>9, <3>1
    <3>3. smap' = {0} \cup UNION {sects(m)' : m \in used'}
      BY <3>2
    <3>4. \A l, m \in used' : l # m => sects(l)' \cap sects(m)' = {}
      BY <2>8, <2>9
    <3>5. imap' = used'
      BY <2>5, <2>6, <2>7
    <3>6. ASSUME NEW s \in Slot
          PROVE  SlotTrue(s)'
      <4>1. inode_table'[s] = inode_table[s] /\ leaked'[s] = leaked[s]
        BY <2>5
      <4>2. SlotTrue(s) /\ inode_table[s].cnt \in Nat /\ leaked[s] \in Nat
        BY OneMore, SlotsTrue DEF FInv, DiskInv
      <4>3. inode_table[s].cnt > 0 => inode_table[s].num # n
        BY <2>1 DEF Removable, Cached
      <4>4. inode_table[s].cnt > leaked[s] => inode_table[s].cnt > 0
        BY <4>2
      <4> QED
        BY <2>7, <4>1, <4>2, <4>3, <4>4 DEF SlotTrue
    <3> QED
      BY <3>3, <3>4, <3>5, <3>6 DEF DiskConsistent, SlotTrue, used, sects
  <2>11. \A k \in 1..DirCap : dir'[k].nr = IF k = e THEN 0 ELSE dir[k].nr
    BY <2>5, <2>6 DEF NoEntry
  <2>12. ASSUME scribbled = 0
         PROVE  EntriesNameFiles'
    <3>1. \A j \in 1..DirCap : dir[j].nr # 0 =>
            /\ dir[j].nr \in used
            /\ \A k \in 1..DirCap : dir[k].nr = dir[j].nr => k = j
      BY <2>12 DEF FInv, DiskInv, EntriesNameFiles, RootInv, used
    <3>2. n # 0 /\ e \in 1..DirCap
      BY <2>6, Constants
    <3>3. \A j \in 1..DirCap : dir'[j].nr # 0 =>
            /\ dir'[j].nr \in used'
            /\ \A k \in 1..DirCap : dir'[k].nr = dir'[j].nr => k = j
      BY <2>3, <2>7, <2>11, <3>1, <3>2
    <3> QED
      BY <3>3 DEF EntriesNameFiles, used
  <2>13. RootInv'
    <3>1. \A m \in used' : 0 \notin sects(m)'
      BY <2>9 DEF FInv, RootInv
    <3>2. ROOT_INODE \in Inode
      BY Constants DEF ROOT_INODE
    <3>3. /\ \A k \in 1..DirCap : dir[k].nr \in {0} \cup Inode
          /\ dinode[ROOT_INODE].mode = "directory"
      BY DEF FInv, RootInv
    <3>4. \A k \in 1..DirCap : dir'[k].nr \in {0} \cup Inode
      BY <2>11, <3>3
    <3>5. dinode'[ROOT_INODE].mode = "directory"
      BY <2>2, <2>7, <3>2, <3>3
    <3> QED
      BY <3>1, <3>4, <3>5 DEF RootInv
  <2>14. TypeOK'
    <3>1. DOMAIN dinode' = Inode /\ DOMAIN dir' = 1..DirCap
      BY <2>5, <2>6
    <3> QED
      BY <2>3, <2>5, <2>6, <3>1 DEF FInv, CountsInv, TypeOK
  <2>15. Counted' = Counted
    BY <2>5 DEF Counted
  <2>16. DescCounts' /\ InodeRefs'
    BY <2>5, <2>15 DEF FInv, CountsInv, DescCounts, Holders, InodeRefs
  <2>17. SlotsInv' /\ ForkInv'
    BY <2>5 DEF FInv, SlotsInv, ForkInv
  <2> QED
    BY <2>5, <2>10, <2>12, <2>13, <2>14, <2>16, <2>17 DEF FInv, CountsInv, DiskInv
<1> QED
  BY <1>2, <1>3

-----------------------------------------------------------------------------
(* Closing files.                                                          *)

LEMMA LessKeeps ==
  ASSUME FInv, NEW t \in Slot, NEW k \in Nat, k <= inode_table[t].cnt
  PROVE  LET e == inode_table[t]  new == Less(e, k) IN
         /\ IsEntry(new)
         /\ new.cnt = e.cnt - k /\ new.cnt \in Nat
         /\ new.cnt = 0 => new = FreeInode
         /\ new.cnt # 0 => new.num = e.num /\ new.i = e.i
         /\ k = 0 => new = e
<1> DEFINE e == inode_table[t]
<1>1. e.cnt \in Nat
  BY DEF FInv, CountsInv, TypeOK
<1>2. e = [num |-> e.num, cnt |-> e.cnt, i |-> e.i]
  BY DEF FInv, SlotsInv, IsEntry
<1>3. CASE e.cnt = k
  <2>1. Less(e, k) = FreeInode
    BY <1>3 DEF Less
  <2>2. FreeInode.cnt = 0 /\ IsEntry(FreeInode)
    BY DEF FreeInode, IsEntry
  <2>3. k = 0 => e = FreeInode
    BY <1>3, FreeSlot
  <2>4. e.cnt - k = 0
    BY <1>1, <1>3
  <2> QED
    BY <2>1, <2>2, <2>3, <2>4
<1>4. CASE e.cnt # k
  <2>1. Less(e, k) = [e EXCEPT !.cnt = @ - k]
    BY <1>4 DEF Less
  <2>2. Less(e, k) = [num |-> e.num, cnt |-> e.cnt - k, i |-> e.i]
    BY <1>2, <2>1
  <2>3. e.cnt - k \in Nat /\ e.cnt - k # 0
    BY <1>1, <1>4
  <2>4. k = 0 => Less(e, k) = e
    BY <1>1, <1>2, <2>2
  <2> HIDE DEF e
  <2>5. LET new == Less(e, k) IN
        /\ IsEntry(new)
        /\ new.cnt = e.cnt - k /\ new.num = e.num /\ new.i = e.i
    BY <2>2 DEF IsEntry
  <2> QED
    BY <2>3, <2>4, <2>5 DEF e
<1> QED
  BY <1>3, <1>4

(* References are given back by those who held them.                       *)
LEMMA ReferencesDropped ==
  ASSUME FInv, NEW gone \in [Slot -> Nat],
         inode_table' = [t \in Slot |-> Less(inode_table[t], gone[t])],
         \A t \in Slot : gone[t] <= NrClaims(t) /\ NrClaims(t)' = NrClaims(t) - gone[t],
         leaked' = leaked, dinode' = dinode
  PROVE  /\ InodeRefs' /\ SlotsInv' /\ DOMAIN inode_table' = Slot
         /\ \A t \in Slot : inode_table'[t].num \in {0} \cup Inode /\ inode_table'[t].cnt \in Nat
         /\ \A t \in Slot : SlotTrue(t)'
<1>1. ASSUME NEW t \in Slot
      PROVE  /\ NrClaims(t) \in Nat /\ leaked[t] \in Nat
             /\ inode_table[t].cnt = NrClaims(t) + leaked[t] + (IF t = 1 THEN 1 ELSE 0)
             /\ gone[t] \in Nat /\ gone[t] <= inode_table[t].cnt
  <2>1. NrClaims(t) \in Nat /\ leaked[t] \in Nat /\ gone[t] \in Nat /\ gone[t] <= NrClaims(t)
    BY Finite DEF FInv, SlotsInv
  <2>2. inode_table[t].cnt = NrClaims(t) + leaked[t] + (IF t = 1 THEN 1 ELSE 0)
    BY RefsByClaims DEF FInv, CountsInv
  <2> QED
    BY <2>1, <2>2
<1>2. ASSUME NEW t \in Slot
      PROVE  /\ IsEntry(inode_table'[t])
             /\ inode_table'[t].cnt = inode_table[t].cnt - gone[t]
             /\ inode_table'[t].cnt \in Nat
             /\ inode_table'[t].cnt = 0 => inode_table'[t] = FreeInode
             /\ inode_table'[t].cnt # 0 => /\ inode_table'[t].num = inode_table[t].num
                                           /\ inode_table'[t].i = inode_table[t].i
  <2>1. inode_table'[t] = Less(inode_table[t], gone[t])
    OBVIOUS
  <2> QED
    BY <1>1, <2>1, LessKeeps
<1>3. \A t \in Slot : inode_table'[t].num = inode_table[t].num \/ inode_table'[t].num = 0
  BY <1>2 DEF FreeInode
<1>4. InodeRefs'
  <2>1. \A t \in Slot :
          inode_table'[t].cnt = NrClaims(t)' + leaked'[t] + (IF t = 1 THEN 1 ELSE 0)
    BY <1>1, <1>2
  <2>2. \A r, t \in Slot :
          inode_table'[r].num = inode_table'[t].num /\ inode_table'[r].num # 0 => r = t
    BY <1>3, RefsByClaims DEF FInv, CountsInv
  <2> QED
    BY <2>1, <2>2 DEF InodeRefs, NrClaims, Claims
<1>5. SlotsInv'
  <2>1. inode_table' = [t \in Slot |-> inode_table'[t]]
    OBVIOUS
  <2>2. leaked' \in [Slot -> Nat]
    BY DEF FInv, SlotsInv
  <2> QED
    BY <1>2, <2>1, <2>2 DEF SlotsInv
<1>6. \A t \in Slot : inode_table[t].num \in {0} \cup Inode /\ inode_table[t].cnt \in Nat
  BY DEF FInv, CountsInv, TypeOK
<1>7. ASSUME NEW t \in Slot
      PROVE  SlotTrue(t)'
  <2>1. SlotTrue(t)
    BY <1>1, <1>6, SlotsTrue DEF FInv, DiskInv
  <2>2. /\ inode_table'[t].cnt > 0 => inode_table[t].cnt > 0
        /\ inode_table'[t].cnt > leaked'[t] =>
             inode_table[t].cnt > leaked[t] /\ inode_table'[t].cnt > 0
    BY <1>1, <1>2, <1>6
  <2>3. inode_table'[t].cnt > 0 =>
          inode_table'[t].num = inode_table[t].num /\ inode_table'[t].i = inode_table[t].i
    BY <1>2
  <2>4. used' = used
    BY DEF used
  <2> QED
    BY <2>1, <2>2, <2>3, <2>4 DEF SlotTrue
<1> QED
  BY <1>2, <1>3, <1>4, <1>5, <1>6, <1>7

LEMMA do_closeKeeps ==
  ASSUME FInv, NEW p \in Proc, NEW f \in Fd, do_close(p, f)
  PROVE  FInv'
<1>1. PICK d : d = filp[p][f]
  OBVIOUS
<1>2. PICK s : s = f_desc_table[d].inode
  OBVIOUS
<1>3. /\ MayCall(p) /\ d # 0
      /\ inode_table' = put_inode(inode_table, s)
      /\ f_desc_table' = [f_desc_table EXCEPT ![d] =
           [inode |-> IF @.cnt = 1 THEN 0 ELSE @.inode, cnt |-> @.cnt - 1]]
      /\ filp' = [filp EXCEPT ![p][f] = 0]
      /\ UNCHANGED <<disk, alive, forking, leaked, scribbled, panicked>>
  BY <1>1, <1>2 DEF do_close
<1>4. <<p, f>> \in Counted
  BY <1>1, <1>3, CallerCounted
<1>5. /\ d \in Desc /\ f_desc_table[d].cnt > 0 /\ s \in Slot
      /\ <<p, f>> \in Holders(d) /\ <<p, f>> \in Claims(s) /\ inode_table[s].cnt > 0
  BY <1>1, <1>2, <1>4, CountedUses
<1>6. /\ filp \in [Proc -> [Fd -> {0} \cup Desc]]
      /\ f_desc_table \in [Desc -> [inode : {0} \cup Slot, cnt : Nat]]
      /\ \A t \in Slot : inode_table[t].num \in {0} \cup Inode /\ inode_table[t].cnt \in Nat
      /\ inode_table = [t \in Slot |-> inode_table[t]]
      /\ \A e \in Desc : f_desc_table[e].cnt \in Nat /\ f_desc_table[e].inode \in {0} \cup Slot
  BY DEF FInv, CountsInv, TypeOK, SlotsInv
<1>7. \A q \in Proc, g \in Fd : filp'[q][g] = IF q = p /\ g = f THEN 0 ELSE filp[q][g]
  BY <1>3, <1>6
<1>8. \A e \in Desc : f_desc_table'[e] =
        IF e = d THEN [inode |-> IF f_desc_table[d].cnt = 1 THEN 0 ELSE s,
                       cnt |-> f_desc_table[d].cnt - 1]
        ELSE f_desc_table[e]
  BY <1>2, <1>3, <1>5, <1>6
<1>9. /\ filp' \in [Proc -> [Fd -> {0} \cup Desc]]
      /\ f_desc_table' \in [Desc -> [inode : {0} \cup Slot, cnt : Nat]]
  <2>1. f_desc_table[d].cnt - 1 \in Nat
    BY <1>5, <1>6
  <2> QED
    BY <1>3, <1>5, <1>6, <2>1
<1>10. /\ Counted' = Counted \ {<<p, f>>}
       /\ \A pf \in Counted' : filp'[pf[1]][pf[2]] = filp[pf[1]][pf[2]]
  BY <1>3, <1>7 DEF Counted
<1>11. /\ Holders(d)' = Holders(d) \ {<<p, f>>}
       /\ \A e \in Desc \ {d} : Holders(e)' = Holders(e)
  BY <1>1, <1>10 DEF Holders
<1>17. Cardinality(Holders(d) \ {<<p, f>>}) = Cardinality(Holders(d)) - 1
  BY <1>5, Finite, FS_RemoveElement
<1>12. DescCounts'
  <2> SUFFICES ASSUME NEW e \in Desc
      PROVE  /\ f_desc_table'[e].cnt = Cardinality(Holders(e))'
             /\ (f_desc_table'[e].inode = 0) <=> (f_desc_table'[e].cnt = 0)
    BY DEF DescCounts
  <2>1. /\ f_desc_table[e].cnt = Cardinality(Holders(e))
        /\ (f_desc_table[e].inode = 0) <=> (f_desc_table[e].cnt = 0)
    BY DEF FInv, CountsInv, DescCounts
  <2>2. CASE e = d
    <3>1. Cardinality(Holders(d))' = f_desc_table[d].cnt - 1
      BY <1>11, <1>17, <2>1, <2>2
    <3>2. /\ f_desc_table'[d].cnt = f_desc_table[d].cnt - 1
          /\ f_desc_table'[d].inode = IF f_desc_table[d].cnt = 1 THEN 0 ELSE s
      BY <1>5, <1>8
    <3> QED
      BY <1>5, <1>6, <2>2, <3>1, <3>2, Constants
  <2>3. CASE e # d
    BY <1>8, <1>11, <2>1, <2>3
  <2> QED
    BY <2>2, <2>3
(* A file that is still open goes through the slot it went through.        *)
<1>13. ASSUME NEW pf \in Counted'
       PROVE  f_desc_table'[filp[pf[1]][pf[2]]].inode = f_desc_table[filp[pf[1]][pf[2]]].inode
  <2>1. pf \in Counted /\ filp[pf[1]][pf[2]] \in Desc /\ pf # <<p, f>>
    BY <1>10, CountedUses
  <2>2. CASE filp[pf[1]][pf[2]] # d
    BY <1>8, <2>1, <2>2
  <2>3. CASE filp[pf[1]][pf[2]] = d
    <3>1. pf \in Holders(d) \ {<<p, f>>}
      BY <2>1, <2>3 DEF Holders
    <3>2. Cardinality(Holders(d) \ {<<p, f>>}) # 0
      BY <1>5, <3>1, Finite, FS_RemoveElement, FS_EmptySet
    <3>3. f_desc_table[d].cnt = Cardinality(Holders(d))
      BY <1>5 DEF FInv, CountsInv, DescCounts
    <3>4. f_desc_table[d].cnt # 1
      BY <1>17, <3>2, <3>3
    <3> QED
      BY <1>2, <1>5, <1>8, <2>3, <3>4
  <2> QED
    BY <2>2, <2>3
<1>14. \A t \in Slot : Claims(t)' = Claims(t) \ {<<p, f>>}
  <2> SUFFICES ASSUME NEW t \in Slot PROVE Claims(t)' = Claims(t) \ {<<p, f>>}
    OBVIOUS
  <2>1. Claims(t)' = {pf \in Counted' : f_desc_table'[filp'[pf[1]][pf[2]]].inode = t}
    BY DEF Claims
  <2> QED
    BY <1>10, <1>13, <2>1 DEF Claims
<1>15. \A t \in Slot : NrClaims(t)' = NrClaims(t) - (IF t = s THEN 1 ELSE 0)
  <2> SUFFICES ASSUME NEW t \in Slot
      PROVE NrClaims(t)' = NrClaims(t) - (IF t = s THEN 1 ELSE 0)
    OBVIOUS
  <2>1. <<p, f>> \in Claims(t) <=> t = s
    BY <1>1, <1>2, <1>4 DEF Claims
  <2>2. IsFiniteSet(Claims(t)) /\ NrClaims(t) \in Nat
    BY Finite
  <2>3. Cardinality(Claims(t) \ {<<p, f>>}) =
          IF <<p, f>> \in Claims(t) THEN Cardinality(Claims(t)) - 1 ELSE Cardinality(Claims(t))
    BY <2>2, FS_RemoveElement
  <2>4. NrClaims(t)' = Cardinality(Claims(t) \ {<<p, f>>})
    BY <1>14 DEF NrClaims
  <2>5. NrClaims(t) = Cardinality(Claims(t))
    BY DEF NrClaims
  <2> QED
    BY <2>1, <2>2, <2>3, <2>4, <2>5
<1>16. PICK gone : gone = [t \in Slot |-> IF t = s THEN 1 ELSE 0]
  OBVIOUS
<1>18. inode_table' = [t \in Slot |-> Less(inode_table[t], gone[t])]
  <2>1. inode_table' = [inode_table EXCEPT ![s] = Less(@, 1)]
    BY <1>3 DEF put_inode
  <2>2. \A t \in Slot : Less(inode_table[t], 0) = inode_table[t]
    BY <1>6, LessKeeps
  <2> QED
    BY <1>5, <1>6, <1>16, <2>1, <2>2
<1>19. /\ InodeRefs' /\ SlotsInv' /\ DOMAIN inode_table' = Slot
       /\ \A t \in Slot : inode_table'[t].num \in {0} \cup Inode /\ inode_table'[t].cnt \in Nat
       /\ \A t \in Slot : SlotTrue(t)'
  <2>1. \A t \in Slot : gone[t] <= NrClaims(t) /\ NrClaims(t)' = NrClaims(t) - gone[t]
    <3>1. NrClaims(s) > 0
      BY <1>5, Finite, FS_EmptySet DEF NrClaims
    <3> QED
      BY <1>15, <1>16, <3>1, Finite
  <2>2. gone \in [Slot -> Nat]
    BY <1>16
  <2> QED
    BY <1>3, <1>18, <2>1, <2>2, ReferencesDropped DEF disk
<1>20. DiskInv' /\ RootInv'
  BY <1>3, <1>19, DiskKept
<1>21. ForkInv'
  <2>1. p \in alive /\ (\A fk \in forking : fk[1] # p /\ fk[2] # p) /\ alive \subseteq Proc
    BY <1>3, CallerCounted DEF FInv, CountsInv, TypeOK
  <2>2. \A q \in Proc \ {p} : filp'[q] = filp[q]
    BY <1>3, <1>6
  <2> QED
    BY <1>3, <2>1, <2>2 DEF FInv, ForkInv
<1>22. TypeOK'
  BY <1>3, <1>9, <1>19 DEF FInv, CountsInv, TypeOK, disk
<1> QED
  BY <1>12, <1>19, <1>20, <1>21, <1>22 DEF FInv, CountsInv

-----------------------------------------------------------------------------
(* fork() and exit().                                                      *)

(* What a process has open through one descriptor or one slot.             *)
FdsTo(p, d) == {f \in Fd : filp[p][f] = d}
FdsThrough(p, s) == {f \in Fd : filp[p][f] # 0 /\ f_desc_table[filp[p][f]].inode = s}

LEMMA UsesCount ==
  ASSUME NEW p
  PROVE  /\ \A d : LET T == {p} \X FdsTo(p, d) IN
              IsFiniteSet(T) /\ Cardinality(T) = Uses(p, d) /\ Uses(p, d) \in Nat
         /\ \A s : LET T == {p} \X FdsThrough(p, s) IN
              IsFiniteSet(T) /\ Cardinality(T) = UsesOfSlot(p, s) /\ UsesOfSlot(p, s) \in Nat
<1>1. ASSUME NEW d
      PROVE  LET T == {p} \X FdsTo(p, d) IN
              IsFiniteSet(T) /\ Cardinality(T) = Uses(p, d) /\ Uses(p, d) \in Nat
  <2>1. FdsTo(p, d) \in SUBSET Fd
    BY DEF FdsTo
  <2>2. IsFiniteSet(FdsTo(p, d)) /\ Cardinality(FdsTo(p, d)) \in Nat
    BY <2>1, Constants, Sizes
  <2>3. Uses(p, d) = Cardinality(FdsTo(p, d))
    BY DEF Uses, FdsTo
  <2> QED
    BY <2>2, <2>3, TaggedCount
<1>2. ASSUME NEW s
      PROVE  LET T == {p} \X FdsThrough(p, s) IN
              IsFiniteSet(T) /\ Cardinality(T) = UsesOfSlot(p, s) /\ UsesOfSlot(p, s) \in Nat
  <2>1. FdsThrough(p, s) \in SUBSET Fd
    BY DEF FdsThrough
  <2>2. IsFiniteSet(FdsThrough(p, s)) /\ Cardinality(FdsThrough(p, s)) \in Nat
    BY <2>1, Constants, Sizes
  <2>3. UsesOfSlot(p, s) = Cardinality(FdsThrough(p, s))
    BY DEF UsesOfSlot, FdsThrough
  <2> QED
    BY <2>2, <2>3, TaggedCount
<1> QED
  BY <1>1, <1>2

LEMMA DisjointCount ==
  ASSUME NEW S, NEW T, IsFiniteSet(S), IsFiniteSet(T), S \cap T = {}
  PROVE  Cardinality(S \cup T) = Cardinality(S) + Cardinality(T)
<1>1. Cardinality(S \cap T) = 0 /\ Cardinality(S) \in Nat /\ Cardinality(T) \in Nat
  BY FS_EmptySet, FS_CardinalityType
<1>2. Cardinality(S \cup T) = Cardinality(S) + Cardinality(T) - Cardinality(S \cap T)
  BY FS_Union
<1> QED
  BY <1>1, <1>2

LEMMA PartCount ==
  ASSUME NEW S, NEW T, IsFiniteSet(S), T \subseteq S
  PROVE  Cardinality(S \ T) = Cardinality(S) - Cardinality(T) /\ Cardinality(T) <= Cardinality(S)
<1>1. S \cap T = T /\ T \in SUBSET S
  OBVIOUS
<1>2. Cardinality(S \ T) = Cardinality(S) - Cardinality(S \cap T)
  BY FS_Difference
<1>3. Cardinality(T) <= Cardinality(S)
  BY FS_Subset
<1> QED
  BY <1>1, <1>2, <1>3

LEMMA ForkCopyKeeps ==
  ASSUME FInv, NEW p \in Proc, NEW c \in Proc, ForkCopy(p, c)
  PROVE  FInv'
<1>1. /\ MayCall(p) /\ c \notin alive /\ forking = {}
      /\ filp' = [filp EXCEPT ![c] = filp[p]] /\ forking' = {<<p, c>>}
      /\ UNCHANGED <<f_desc_table, inode_table, disk, alive, leaked, scribbled, panicked>>
  BY DEF ForkCopy
<1>2. p \in alive /\ p # c /\ filp \in [Proc -> [Fd -> {0} \cup Desc]] /\ alive \subseteq Proc
  BY <1>1, CallerCounted DEF FInv, CountsInv, TypeOK
<1>3. \A f \in Fd : filp[c][f] = 0
  BY <1>1 DEF FInv, ForkInv
<1>4. filp'[c] = filp[p] /\ \A q \in Proc \ {c} : filp'[q] = filp[q]
  BY <1>1, <1>2
<1>5. Counted' = Counted /\ \A pf \in Counted : filp'[pf[1]] = filp[pf[1]]
  <2>1. \A pf \in Proc \X Fd : pf \in Counted <=> filp[pf[1]][pf[2]] # 0
    BY <1>1 DEF Counted
  <2>2. \A pf \in Proc \X Fd : pf \in Counted' <=> filp'[pf[1]][pf[2]] # 0 /\ pf[1] # c
    BY <1>1 DEF Counted
  <2>3. Counted \subseteq Proc \X Fd /\ Counted' \subseteq Proc \X Fd
    BY DEF Counted
  <2>4. ASSUME NEW pf \in Proc \X Fd
        PROVE  (pf \in Counted <=> pf \in Counted') /\ (pf \in Counted => filp'[pf[1]] = filp[pf[1]])
    <3>1. pf[1] \in Proc /\ pf[2] \in Fd
      OBVIOUS
    <3>2. CASE pf[1] = c
      BY <1>3, <2>1, <2>2, <3>1, <3>2
    <3>3. CASE pf[1] # c
      BY <1>4, <2>1, <2>2, <3>1, <3>3
    <3> QED
      BY <3>2, <3>3
  <2> QED
    BY <2>3, <2>4
<1>6. DescCounts'
  <2>1. \A d \in Desc : Holders(d)' = Holders(d)
    BY <1>5 DEF Holders
  <2> QED
    BY <1>1, <2>1 DEF FInv, CountsInv, DescCounts
<1>7. InodeRefs'
  <2>1. \A s \in Slot : NrClaims(s)' = NrClaims(s)
    BY <1>1, <1>5 DEF NrClaims, Claims
  <2>2. \A s \in Slot :
         inode_table'[s].cnt = NrClaims(s)' + leaked'[s] + (IF s = 1 THEN 1 ELSE 0)
    BY <1>1, <2>1, RefsByClaims DEF FInv, CountsInv
  <2> QED
    BY <1>1, <2>2 DEF FInv, CountsInv, InodeRefs, NrClaims, Claims
<1>8. ForkInv'
  <2>1. filp'[c] = filp'[p]
    BY <1>2, <1>4
  <2> QED
    BY <1>1, <1>2, <1>4, <2>1 DEF FInv, ForkInv
<1>9. DiskInv' /\ RootInv'
  <2>1. \A t \in Slot : SlotTrue(t)
    BY OneMore, SlotsTrue DEF FInv, DiskInv
  <2>2. \A t \in Slot : SlotTrue(t)'
    BY <1>1, <2>1 DEF SlotTrue, used, disk
  <2> QED
    BY <1>1, <2>2, DiskKept
<1>10. TypeOK' /\ SlotsInv'
  <2>1. Cardinality({<<p, c>>}) = 1
    BY FS_Singleton
  <2>2. filp' \in [Proc -> [Fd -> {0} \cup Desc]]
    BY <1>1, <1>2
  <2> QED
    BY <1>1, <2>1, <2>2 DEF FInv, CountsInv, TypeOK, SlotsInv, disk
<1> QED
  BY <1>6, <1>7, <1>8, <1>9, <1>10 DEF FInv, CountsInv

LEMMA fs_forkKeeps ==
  ASSUME FInv, NEW p \in Proc, NEW c \in Proc, fs_fork(p, c)
  PROVE  FInv'
<1>1. /\ forking = {<<p, c>>} /\ p \in alive /\ c \notin alive /\ filp[c] = filp[p]
      /\ f_desc_table' = [d \in Desc |-> [f_desc_table[d] EXCEPT !.cnt = @ + Uses(c, d)]]
      /\ inode_table' = [s \in Slot |-> [inode_table[s] EXCEPT !.cnt = @ + UsesOfSlot(c, s)]]
      /\ forking' = {} /\ alive' = alive \cup {c}
      /\ UNCHANGED <<filp, disk, leaked, scribbled, panicked>>
  BY DEF fs_fork, FInv, ForkInv
<1>2. /\ filp \in [Proc -> [Fd -> {0} \cup Desc]] /\ alive \subseteq Proc
      /\ f_desc_table \in [Desc -> [inode : {0} \cup Slot, cnt : Nat]]
      /\ \A t \in Slot : inode_table[t].num \in {0} \cup Inode /\ inode_table[t].cnt \in Nat
  BY DEF FInv, CountsInv, TypeOK
<1>3. /\ \A d \in Desc : Uses(c, d) \in Nat
      /\ \A s \in Slot : UsesOfSlot(c, s) \in Nat
  BY UsesCount
(* The child holds nothing that its parent does not hold.                  *)
<1>4. /\ \A d \in Desc : Uses(c, d) # 0 => f_desc_table[d].cnt > 0
      /\ \A s \in Slot : UsesOfSlot(c, s) # 0 =>
           inode_table[s].cnt > 0 /\ inode_table[s].cnt > leaked[s]
  <2>1. ASSUME NEW f \in Fd, filp[c][f] # 0
        PROVE  /\ filp[c][f] \in Desc /\ f_desc_table[filp[c][f]].cnt > 0
               /\ inode_table[f_desc_table[filp[c][f]].inode].cnt > 0
               /\ inode_table[f_desc_table[filp[c][f]].inode].cnt
                    > leaked[f_desc_table[filp[c][f]].inode]
    <3>1. <<p, f>> \in Counted
      BY <1>1, <2>1 DEF Counted
    <3> QED
      BY <1>1, <3>1, CountedUses
  <2>2. ASSUME NEW d \in Desc, Uses(c, d) # 0
        PROVE  f_desc_table[d].cnt > 0
    <3>1. FdsTo(c, d) # {}
      BY <2>2, FS_EmptySet DEF Uses, FdsTo
    <3> QED
      BY <2>1, <3>1, Constants DEF FdsTo
  <2>3. ASSUME NEW s \in Slot, UsesOfSlot(c, s) # 0
        PROVE  inode_table[s].cnt > 0 /\ inode_table[s].cnt > leaked[s]
    <3>1. FdsThrough(c, s) # {}
      BY <2>3, FS_EmptySet DEF UsesOfSlot, FdsThrough
    <3> QED
      BY <2>1, <3>1 DEF FdsThrough
  <2> QED
    BY <2>2, <2>3
<1>5. \A d \in Desc : f_desc_table'[d] =
        [inode |-> f_desc_table[d].inode, cnt |-> f_desc_table[d].cnt + Uses(c, d)]
  BY <1>1, <1>2
<1>6. /\ \A pf \in Proc \X Fd : pf \in Counted <=> filp[pf[1]][pf[2]] # 0 /\ pf[1] # c
      /\ \A pf \in Proc \X Fd : pf \in Counted' <=> filp[pf[1]][pf[2]] # 0
      /\ Counted \subseteq Proc \X Fd /\ Counted' \subseteq Proc \X Fd
  BY <1>1 DEF Counted
<1>7. ASSUME NEW d \in Desc
      PROVE  Cardinality(Holders(d))' = Cardinality(Holders(d)) + Uses(c, d)
  <2>1. Holders(d)' = Holders(d) \cup ({c} \X FdsTo(c, d))
    <3>1. Holders(d)' = {pf \in Counted' : filp[pf[1]][pf[2]] = d}
      BY <1>1 DEF Holders
    <3> QED
      BY <1>6, <3>1, Constants DEF Holders, FdsTo
  <2>2. Holders(d) \cap ({c} \X FdsTo(c, d)) = {}
    BY <1>6 DEF Holders
  <2>3. Cardinality(Holders(d) \cup ({c} \X FdsTo(c, d))) = Cardinality(Holders(d)) + Uses(c, d)
    <3>1. /\ IsFiniteSet({c} \X FdsTo(c, d)) /\ Cardinality({c} \X FdsTo(c, d)) = Uses(c, d)
          /\ IsFiniteSet(Holders(d))
      BY Finite, UsesCount
    <3> QED
      BY <2>2, <3>1, DisjointCount
  <2> QED
    BY <2>1, <2>3
<1>8. ASSUME NEW s \in Slot
      PROVE  NrClaims(s)' = NrClaims(s) + UsesOfSlot(c, s)
  <2>1. \A pf \in Counted' : filp[pf[1]][pf[2]] \in Desc
    BY <1>2, <1>6
  <2>2. Claims(s)' = {pf \in Counted' : f_desc_table[filp[pf[1]][pf[2]]].inode = s}
    BY <1>1, <1>5, <2>1 DEF Claims
  <2>3. Claims(s)' = Claims(s) \cup ({c} \X FdsThrough(c, s))
    BY <1>6, <2>2 DEF Claims, FdsThrough
  <2>4. Claims(s) \cap ({c} \X FdsThrough(c, s)) = {}
    BY <1>6 DEF Claims
  <2>5. Cardinality(Claims(s) \cup ({c} \X FdsThrough(c, s))) = NrClaims(s) + UsesOfSlot(c, s)
    <3>1. /\ IsFiniteSet({c} \X FdsThrough(c, s))
          /\ Cardinality({c} \X FdsThrough(c, s)) = UsesOfSlot(c, s)
          /\ IsFiniteSet(Claims(s))
      BY Finite, UsesCount
    <3> QED
      BY <2>4, <3>1, DisjointCount DEF NrClaims
  <2> QED
    BY <2>3, <2>5 DEF NrClaims
(* More references to slots in use.                                        *)
<1>9. ASSUME NEW t \in Slot
      PROVE  /\ inode_table'[t] = [inode_table[t] EXCEPT !.cnt = @ + UsesOfSlot(c, t)]
             /\ IsEntry(inode_table'[t])
             /\ inode_table'[t].cnt = inode_table[t].cnt + UsesOfSlot(c, t)
             /\ inode_table'[t].num = inode_table[t].num /\ inode_table'[t].i = inode_table[t].i
             /\ inode_table'[t].cnt \in Nat
             /\ inode_table'[t].cnt > 0 <=> inode_table[t].cnt > 0
             /\ inode_table'[t].cnt > leaked[t] => inode_table[t].cnt > leaked[t]
  <2>1. IsEntry(inode_table[t])
    BY DEF FInv, SlotsInv
  <2>2. inode_table'[t] = [inode_table[t] EXCEPT !.cnt = @ + UsesOfSlot(c, t)]
    BY <1>1
  <2>3. PICK new : new = [num |-> inode_table[t].num, cnt |-> inode_table[t].cnt + UsesOfSlot(c, t),
                          i |-> inode_table[t].i]
    OBVIOUS
  <2>4. inode_table'[t] = new
    BY <2>1, <2>2, <2>3 DEF IsEntry
  <2>5. /\ IsEntry(new) /\ new.cnt = inode_table[t].cnt + UsesOfSlot(c, t)
        /\ new.num = inode_table[t].num /\ new.i = inode_table[t].i
    BY <2>3 DEF IsEntry
  <2>6. /\ new.cnt \in Nat /\ (new.cnt > 0 <=> inode_table[t].cnt > 0)
        /\ new.cnt > leaked[t] => inode_table[t].cnt > leaked[t]
    BY <1>2, <1>3, <1>4, <2>5
  <2> QED
    BY <2>2, <2>4, <2>5, <2>6
<1>10. DescCounts'
  <2> SUFFICES ASSUME NEW d \in Desc
      PROVE  /\ f_desc_table'[d].cnt = Cardinality(Holders(d))'
             /\ (f_desc_table'[d].inode = 0) <=> (f_desc_table'[d].cnt = 0)
    BY DEF DescCounts
  <2>1. /\ f_desc_table[d].cnt = Cardinality(Holders(d)) /\ f_desc_table[d].cnt \in Nat
        /\ (f_desc_table[d].inode = 0) <=> (f_desc_table[d].cnt = 0)
    BY <1>2 DEF FInv, CountsInv, DescCounts
  <2>2. PICK total : total = f_desc_table[d].cnt + Uses(c, d)
    OBVIOUS
  <2>3. f_desc_table'[d] = [inode |-> f_desc_table[d].inode, cnt |-> total]
    BY <1>5, <2>2
  <2>4. f_desc_table'[d].cnt = total /\ f_desc_table'[d].inode = f_desc_table[d].inode
    BY <2>3
  <2> QED
    BY <1>3, <1>4, <1>7, <2>1, <2>2, <2>4
<1>16. \A t \in Slot : inode_table'[t].cnt = inode_table[t].cnt + UsesOfSlot(c, t)
  BY <1>9
<1>17. \A t \in Slot : inode_table'[t].num = inode_table[t].num
  BY <1>9
<1>11. InodeRefs'
  <2>1. \A t \in Slot :
          inode_table'[t].cnt = NrClaims(t)' + leaked'[t] + (IF t = 1 THEN 1 ELSE 0)
    <3> TAKE t \in Slot
    <3>1. /\ inode_table[t].cnt = NrClaims(t) + leaked[t] + (IF t = 1 THEN 1 ELSE 0)
          /\ NrClaims(t) \in Nat /\ leaked[t] \in Nat /\ leaked' = leaked
      BY <1>1, Finite, RefsByClaims DEF FInv, CountsInv, SlotsInv
    <3> QED
      BY <1>3, <1>8, <1>16, <3>1
  <2>2. \A r, t \in Slot :
          inode_table'[r].num = inode_table'[t].num /\ inode_table'[r].num # 0 => r = t
    BY <1>17, RefsByClaims DEF FInv, CountsInv
  <2> QED
    BY <2>1, <2>2 DEF InodeRefs, NrClaims, Claims
<1>12. SlotsInv'
  <2>1. inode_table' = [t \in Slot |-> inode_table'[t]]
    BY <1>1
  <2>2. ASSUME NEW t \in Slot, inode_table'[t].cnt = 0
        PROVE  inode_table'[t] = FreeInode
    <3>1. inode_table[t].cnt = 0 /\ UsesOfSlot(c, t) = 0
      BY <1>2, <1>3, <1>16, <2>2
    <3>2. inode_table[t] = FreeInode
      BY <3>1, FreeSlot
    <3> QED
      BY <1>9, <3>1, <3>2 DEF FreeInode
  <2> QED
    BY <1>1, <1>9, <2>1, <2>2 DEF FInv, SlotsInv
<1>13. DiskInv' /\ RootInv'
  <2>1. ASSUME NEW t \in Slot
        PROVE  SlotTrue(t)'
    <3>1. SlotTrue(t) /\ dinode' = dinode /\ used' = used /\ leaked' = leaked
      BY <1>1, OneMore, SlotsTrue DEF FInv, DiskInv, used, disk
    <3> QED
      BY <1>9, <3>1 DEF SlotTrue
  <2> QED
    BY <1>1, <2>1, DiskKept
<1>14. ForkInv'
  BY <1>1 DEF FInv, ForkInv
<1>15. TypeOK'
  <2>1. f_desc_table' \in [Desc -> [inode : {0} \cup Slot, cnt : Nat]]
    <3>1. ASSUME NEW d \in Desc
          PROVE  f_desc_table[d].inode \in {0} \cup Slot /\ f_desc_table[d].cnt + Uses(c, d) \in Nat
      BY <1>2, <1>3
    <3>2. f_desc_table' = [d \in Desc |-> f_desc_table'[d]]
      BY <1>1
    <3> QED
      BY <1>5, <3>1, <3>2
  <2>2. Cardinality(forking') <= 1
    BY <1>1, FS_EmptySet
  <2>3. DOMAIN inode_table' = Slot
    BY <1>1
  <2>4. \A t \in Slot : inode_table'[t].num \in {0} \cup Inode /\ inode_table'[t].cnt \in Nat
    BY <1>2, <1>9
  <2> QED
    BY <1>1, <1>2, <2>1, <2>2, <2>3, <2>4 DEF FInv, CountsInv, TypeOK, disk
<1> QED
  BY <1>10, <1>11, <1>12, <1>13, <1>14, <1>15 DEF FInv, CountsInv

LEMMA fs_exitKeeps ==
  ASSUME FInv, NEW p \in Proc, fs_exit(p)
  PROVE  FInv'
<1>1. /\ MayCall(p) /\ forking = {}
      /\ inode_table' = [s \in Slot |-> Less(inode_table[s], UsesOfSlot(p, s))]
      /\ f_desc_table' = [d \in Desc |->
           LET left == f_desc_table[d].cnt - Uses(p, d) IN
           [inode |-> IF left = 0 THEN 0 ELSE f_desc_table[d].inode, cnt |-> left]]
      /\ filp' = [filp EXCEPT ![p] = [f \in Fd |-> 0]]
      /\ alive' = alive \ {p}
      /\ UNCHANGED <<disk, forking, leaked, scribbled, panicked>>
  BY DEF fs_exit
<1>2. /\ filp \in [Proc -> [Fd -> {0} \cup Desc]] /\ alive \subseteq Proc
      /\ f_desc_table \in [Desc -> [inode : {0} \cup Slot, cnt : Nat]]
  BY DEF FInv, CountsInv, TypeOK
<1>3. /\ filp' \in [Proc -> [Fd -> {0} \cup Desc]] /\ alive' \subseteq Proc
      /\ \A f \in Fd : filp'[p][f] = 0
      /\ \A q \in Proc \ {p} : filp'[q] = filp[q]
  BY <1>1, <1>2
<1>4. /\ \A pf \in Proc \X Fd : pf \in Counted <=> filp[pf[1]][pf[2]] # 0
      /\ \A pf \in Proc \X Fd : pf \in Counted' <=> filp[pf[1]][pf[2]] # 0 /\ pf[1] # p
      /\ Counted \subseteq Proc \X Fd /\ Counted' \subseteq Proc \X Fd
  <2>1. /\ \A pf \in Proc \X Fd : pf \in Counted <=> filp[pf[1]][pf[2]] # 0
        /\ \A pf \in Proc \X Fd : pf \in Counted' <=> filp'[pf[1]][pf[2]] # 0
        /\ Counted \subseteq Proc \X Fd /\ Counted' \subseteq Proc \X Fd
    BY <1>1 DEF Counted
  <2>2. ASSUME NEW pf \in Proc \X Fd
        PROVE  filp'[pf[1]][pf[2]] # 0 <=> filp[pf[1]][pf[2]] # 0 /\ pf[1] # p
    <3>1. pf[1] \in Proc /\ pf[2] \in Fd
      OBVIOUS
    <3> QED
      BY <1>3, <3>1
  <2> QED
    BY <2>1, <2>2
<1>5. \A pf \in Counted' : pf \in Counted /\ filp'[pf[1]] = filp[pf[1]]
  <2> TAKE pf \in Counted'
  <2>1. pf[1] \in Proc /\ pf \in Proc \X Fd
    BY <1>4
  <2> QED
    BY <1>3, <1>4, <2>1
<1>6. ASSUME NEW d \in Desc
      PROVE  /\ Holders(d)' = Holders(d) \ ({p} \X FdsTo(p, d))
             /\ Uses(p, d) \in Nat /\ Uses(p, d) <= Cardinality(Holders(d))
             /\ Cardinality(Holders(d))' = Cardinality(Holders(d)) - Uses(p, d)
  <2>1. Holders(d)' = {pf \in Counted' : filp[pf[1]][pf[2]] = d}
    BY <1>5 DEF Holders
  <2>2. Holders(d)' = Holders(d) \ ({p} \X FdsTo(p, d))
    BY <1>4, <2>1 DEF Holders, FdsTo
  <2>3. {p} \X FdsTo(p, d) \subseteq Holders(d)
    BY <1>4, Constants DEF Holders, FdsTo
  <2>4. /\ Uses(p, d) = Cardinality({p} \X FdsTo(p, d)) /\ Uses(p, d) \in Nat
        /\ IsFiniteSet(Holders(d))
    BY Finite, UsesCount
  <2> QED
    BY <2>2, <2>3, <2>4, PartCount
<1>7. ASSUME NEW d \in Desc
      PROVE  LET left == f_desc_table[d].cnt - Uses(p, d) IN
             /\ left = Cardinality(Holders(d))' /\ left \in Nat
             /\ f_desc_table'[d].cnt = left
             /\ f_desc_table'[d].inode = IF left = 0 THEN 0 ELSE f_desc_table[d].inode
             /\ f_desc_table[d].inode \in {0} \cup Slot
  <2>1. f_desc_table[d].cnt = Cardinality(Holders(d)) /\ Cardinality(Holders(d)) \in Nat
    BY Finite DEF FInv, CountsInv, DescCounts
  <2>2. PICK left : left = f_desc_table[d].cnt - Uses(p, d)
    OBVIOUS
  <2>3. left = Cardinality(Holders(d))' /\ left \in Nat
    BY <1>6, <2>1, <2>2
  <2>4. f_desc_table'[d] =
          [inode |-> IF left = 0 THEN 0 ELSE f_desc_table[d].inode, cnt |-> left]
    BY <1>1, <2>2
  <2>5. /\ f_desc_table'[d].cnt = left
        /\ f_desc_table'[d].inode = IF left = 0 THEN 0 ELSE f_desc_table[d].inode
    BY <2>4
  <2>6. f_desc_table[d].inode \in {0} \cup Slot
    BY <1>2
  <2> QED
    BY <2>2, <2>3, <2>5, <2>6
<1>8. DescCounts'
  <2> SUFFICES ASSUME NEW d \in Desc
      PROVE  /\ f_desc_table'[d].cnt = Cardinality(Holders(d))'
             /\ (f_desc_table'[d].inode = 0) <=> (f_desc_table'[d].cnt = 0)
    BY DEF DescCounts
  <2>1. (f_desc_table[d].inode = 0) <=> (f_desc_table[d].cnt = 0)
    BY DEF FInv, CountsInv, DescCounts
  <2>2. f_desc_table[d].cnt \in Nat /\ Uses(p, d) \in Nat
    BY <1>2, <1>6
  <2> QED
    BY <1>7, <2>1, <2>2
(* What others still have open goes through the slot it went through.      *)
<1>9. ASSUME NEW pf \in Counted'
      PROVE  f_desc_table'[filp[pf[1]][pf[2]]].inode = f_desc_table[filp[pf[1]][pf[2]]].inode
  <2>1. PICK d : d = filp[pf[1]][pf[2]]
    OBVIOUS
  <2>2. d \in Desc
    BY <1>5, <2>1, CountedUses
  <2>3. pf \in Holders(d)'
    BY <1>5, <2>1 DEF Holders
  <2>4. IsFiniteSet(Holders(d)')
    <3>1. Holders(d)' \in SUBSET Holders(d)
      BY <1>6, <2>2
    <3> QED
      BY <2>2, <3>1, Finite, FS_Subset
  <2>5. Cardinality(Holders(d))' # 0
    BY <2>3, <2>4, FS_EmptySet
  <2> QED
    BY <1>7, <2>1, <2>2, <2>5
<1>10. ASSUME NEW s \in Slot
       PROVE  /\ UsesOfSlot(p, s) \in Nat /\ UsesOfSlot(p, s) <= NrClaims(s)
              /\ NrClaims(s)' = NrClaims(s) - UsesOfSlot(p, s)
  <2>1. Claims(s)' = {pf \in Counted' : f_desc_table[filp[pf[1]][pf[2]]].inode = s}
    BY <1>5, <1>9 DEF Claims
  <2>2. Claims(s)' = Claims(s) \ ({p} \X FdsThrough(p, s))
    BY <1>4, <2>1 DEF Claims, FdsThrough
  <2>3. {p} \X FdsThrough(p, s) \subseteq Claims(s)
    BY <1>4 DEF Claims, FdsThrough
  <2>4. /\ UsesOfSlot(p, s) = Cardinality({p} \X FdsThrough(p, s)) /\ UsesOfSlot(p, s) \in Nat
        /\ IsFiniteSet(Claims(s))
    BY Finite, UsesCount
  <2> QED
    BY <2>2, <2>3, <2>4, PartCount DEF NrClaims
<1>11. /\ InodeRefs' /\ SlotsInv' /\ DOMAIN inode_table' = Slot
       /\ \A t \in Slot : inode_table'[t].num \in {0} \cup Inode /\ inode_table'[t].cnt \in Nat
       /\ \A t \in Slot : SlotTrue(t)'
  <2>1. PICK gone : gone = [s \in Slot |-> UsesOfSlot(p, s)]
    OBVIOUS
  <2>2. gone \in [Slot -> Nat]
    BY <1>10, <2>1
  <2>3. inode_table' = [t \in Slot |-> Less(inode_table[t], gone[t])]
    BY <1>1, <2>1
  <2>4. \A t \in Slot : gone[t] <= NrClaims(t) /\ NrClaims(t)' = NrClaims(t) - gone[t]
    BY <1>10, <2>1
  <2> QED
    BY <1>1, <2>2, <2>3, <2>4, ReferencesDropped DEF disk
<1>12. DiskInv' /\ RootInv'
  BY <1>1, <1>11, DiskKept
<1>13. ForkInv'
  <2>1. \A q \in Proc \ alive' : \A f \in Fd : filp'[q][f] = 0
    BY <1>1, <1>3 DEF FInv, ForkInv
  <2> QED
    BY <1>1, <2>1 DEF ForkInv
<1>14. TypeOK'
  <2>1. f_desc_table' \in [Desc -> [inode : {0} \cup Slot, cnt : Nat]]
    <3>1. ASSUME NEW d \in Desc
          PROVE  f_desc_table'[d] \in [inode : {0} \cup Slot, cnt : Nat]
      <4>1. f_desc_table'[d] = [inode |-> f_desc_table'[d].inode, cnt |-> f_desc_table'[d].cnt]
        BY <1>1
      <4>2. f_desc_table'[d].inode \in {0} \cup Slot /\ f_desc_table'[d].cnt \in Nat
        BY <1>7
      <4> QED
        BY <4>1, <4>2
    <3>2. f_desc_table' = [d \in Desc |-> f_desc_table'[d]]
      BY <1>1
    <3> QED
      BY <3>1, <3>2
  <2> QED
    BY <1>1, <1>3, <1>11, <2>1 DEF FInv, CountsInv, TypeOK, disk
<1> QED
  BY <1>8, <1>11, <1>12, <1>13, <1>14 DEF FInv, CountsInv

-----------------------------------------------------------------------------
(* Reading and writing the root directory moves nothing but its entries.   *)

LEMMA DirectoryOnly ==
  ASSUME FInv,
         UNCHANGED <<tables, imap, smap, dinode, alive, forking, leaked>>,
         dir_size' \in 0..DirCap, scribbled' \in Nat, DOMAIN dir' = 1..DirCap,
         \A e \in 1..DirCap : dir'[e].nr \in {0} \cup Inode,
         scribbled' = 0 => scribbled = 0 /\ dir' = dir
  PROVE  FInv' /\ UNCHANGED <<filp, f_desc_table, inode_table, dinode>>
<1>1. UNCHANGED <<filp, f_desc_table, inode_table, imap, smap, dinode, alive, forking, leaked>>
  BY DEF tables
<1>2. TypeOK' /\ DescCounts' /\ InodeRefs'
  <2>1. TypeOK'
    BY <1>1 DEF FInv, CountsInv, TypeOK
  <2>2. Counted' = Counted
    BY <1>1 DEF Counted
  <2>3. DescCounts'
    BY <1>1, <2>2 DEF FInv, CountsInv, DescCounts, Holders
  <2>4. InodeRefs'
    BY <1>1, <2>2 DEF FInv, CountsInv, InodeRefs
  <2> QED
    BY <2>1, <2>3, <2>4
<1>3. DiskConsistent'
  BY <1>1 DEF FInv, DiskInv, DiskConsistent, used, sects
<1>4. ASSUME scribbled' = 0
      PROVE  EntriesNameFiles'
  <2>1. dir' = dir /\ dinode' = dinode /\ EntriesNameFiles
    BY <1>1, <1>4 DEF FInv, DiskInv
  <2> QED
    BY <2>1 DEF EntriesNameFiles
<1>5. SlotsInv' /\ ForkInv' /\ RootInv'
  BY <1>1 DEF FInv, SlotsInv, ForkInv, RootInv, used, sects
<1> QED
  BY <1>1, <1>2, <1>3, <1>4, <1>5 DEF FInv, CountsInv, DiskInv

LEMMA ReadRootKeeps ==
  ASSUME FInv, NEW p \in Proc, NEW f \in Fd, ReadRoot(p, f)
  PROVE  FInv' /\ UNCHANGED <<filp, f_desc_table, inode_table, dinode>>
<1>1. /\ UNCHANGED <<tables, imap, smap, dinode, dir, alive, forking, leaked, scribbled>>
      /\ dir_size' \in dir_size..DirCap
  BY DEF ReadRoot
<1>2. /\ dir_size \in 0..DirCap /\ DOMAIN dir = 1..DirCap /\ scribbled \in Nat
      /\ \A e \in 1..DirCap : dir[e].nr \in {0} \cup Inode
  BY DEF FInv, CountsInv, TypeOK, RootInv
<1> QED
  BY <1>1, <1>2, Constants, DirectoryOnly

LEMMA WriteRootKeeps ==
  ASSUME FInv, NEW p \in Proc, NEW f \in Fd, WriteRoot(p, f)
  PROVE  FInv' /\ UNCHANGED <<filp, f_desc_table, inode_table, dinode>>
<1>1. PICK e \in 1..DirCap, w \in AnyEntry :
        /\ dir' = [dir EXCEPT ![e] = w]
        /\ dir_size' = IF e > dir_size THEN e ELSE dir_size
  BY Zenon DEF WriteRoot
<1>2. /\ UNCHANGED <<tables, imap, smap, dinode, alive, forking, leaked>>
      /\ scribbled' = scribbled + 1
  BY DEF WriteRoot
<1>3. /\ dir_size \in 0..DirCap /\ DOMAIN dir = 1..DirCap /\ scribbled \in Nat
      /\ \A k \in 1..DirCap : dir[k].nr \in {0} \cup Inode
  BY DEF FInv, CountsInv, TypeOK, RootInv
<1>4. w.nr \in {0} \cup Inode
  <2>1. CASE w = NoEntry
    BY <2>1 DEF NoEntry
  <2>2. CASE w \in [nr : {0} \cup Inode, name : Path \ {"/"}]
    BY <2>2
  <2> QED
    BY <2>1, <2>2 DEF AnyEntry
<1>5. DOMAIN dir' = 1..DirCap /\ \A k \in 1..DirCap : dir'[k].nr \in {0} \cup Inode
  BY <1>1, <1>3, <1>4
<1>6. dir_size' \in 0..DirCap /\ scribbled' \in Nat /\ scribbled' # 0
  BY <1>1, <1>2, <1>3, Constants
<1> QED
  BY <1>2, <1>5, <1>6, DirectoryOnly

-----------------------------------------------------------------------------
(* Every step.                                                             *)

LEMMA NextFInv == FInv /\ [Next]_vars => FInv'
<1> SUFFICES ASSUME FInv, [Next]_vars PROVE FInv'
  OBVIOUS
<1>1. ASSUME NEW p \in Proc, OpenPanics(p)
      PROVE  FInv'
  BY <1>1, panicKeeps DEF OpenPanics
<1>2. ASSUME NEW p \in Proc, NEW x \in Path,
             \/ do_open(p, x) \/ create_file(p, x) \/ do_stat(p, x)
             \/ do_unlink(p, x) \/ UnlinkRefused(p, x)
      PROVE  FInv'
  BY <1>2, do_openKeeps, create_fileKeeps, do_statKeeps, do_unlinkKeeps, UnlinkRefusedKeeps
<1>3. ASSUME NEW p \in Proc, NEW f \in Fd, do_close(p, f) \/ ReadRoot(p, f) \/ WriteRoot(p, f)
      PROVE  FInv'
  BY <1>3, do_closeKeeps, ReadRootKeeps, WriteRootKeeps
<1>4. ASSUME NEW p \in Proc, NEW c \in Proc, ForkCopy(p, c) \/ fs_fork(p, c)
      PROVE  FInv'
  BY <1>4, ForkCopyKeeps, fs_forkKeeps
<1>5. ASSUME NEW p \in Proc, fs_exit(p)
      PROVE  FInv'
  BY <1>5, fs_exitKeeps
<1>6. ASSUME UNCHANGED vars
      PROVE  FInv'
  BY <1>6, StillKept DEF vars
<1> QED
  BY <1>1, <1>2, <1>3, <1>4, <1>5, <1>6, Zenon DEF Next

(* The tables of FS, the state of fork() and the disk stay in order through *)
(* every request.                                                          *)
THEOREM FsInvariance == Spec => []FInv
BY InitFInv, NextFInv, PTL DEF Spec

(* fd_cnt and i_cnt of f_desc_table and inode_table are the numbers of     *)
(* their users, whatever the processes open, close, fork, exit and remove. *)
THEOREM CountsExact == Spec => []CountsInv
<1>1. FInv => CountsInv
  BY DEF FInv
<1> QED
  BY <1>1, FsInvariance, PTL

(* Between two requests imap, smap, inode_array and the cached inodes      *)
(* agree with each other, whatever was written into the root directory: no *)
(* sector has two owners.  Until somebody writes to it, the directory      *)
(* agrees with them, too.                                                  *)
THEOREM DiskInOrder == Spec => []DiskInv
<1>1. FInv => DiskInv
  BY DEF FInv
<1> QED
  BY <1>1, FsInvariance, PTL

-----------------------------------------------------------------------------
(* What a process has open stays open.                                     *)

Stays ==
  \A p \in Proc, f \in Fd :
       LET d == filp[p][f] IN
       d # 0 /\ filp'[p][f] = d =>
         LET s == f_desc_table[d].inode IN
         /\ f_desc_table'[d].inode = s
         /\ inode_table'[s].num = inode_table[s].num
         /\ dinode'[inode_table[s].num] = dinode[inode_table[s].num]

(* An open file leads through a descriptor and a slot in use to a file.    *)
LEMMA OpenFile ==
  ASSUME FInv, NEW p \in Proc, NEW f \in Fd, filp[p][f] # 0
  PROVE  LET d == filp[p][f]  s == f_desc_table[d].inode IN
         /\ d \in Desc /\ s \in Slot /\ inode_table[s].cnt > 0
         /\ inode_table[s].num \in used
<1>1. PICK pf \in Counted : filp[pf[1]][pf[2]] = filp[p][f]
  <2>1. CASE <<p, f>> \in Counted
    BY <2>1
  <2>2. CASE <<p, f>> \notin Counted
    <3>1. PICK q \in alive : <<q, f>> \in Counted /\ filp[q][f] = filp[p][f]
      BY <2>2, SomeHolder
    <3> QED
      BY <3>1
  <2> QED
    BY <2>1, <2>2
<1>2. LET d == filp[p][f]  s == f_desc_table[d].inode IN
      /\ d \in Desc /\ s \in Slot
      /\ inode_table[s].cnt > 0 /\ inode_table[s].cnt > leaked[s]
  BY <1>1, CountedUses
<1>3. \A t \in Slot : SlotTrue(t)
  BY OneMore, SlotsTrue DEF FInv, DiskInv
<1> QED
  BY <1>2, <1>3 DEF SlotTrue

(* A step that adds references, in slots that were free or cached the      *)
(* inode, disturbs no open file.                                           *)
LEMMA AddedStays ==
  ASSUME FInv, NEW n \in Inode, NEW s0 \in Slot, NEW k, NEW i, TookSlot(s0, n, k, i),
         \A p \in Proc, f \in Fd :
           filp[p][f] # 0 => f_desc_table'[filp[p][f]] = f_desc_table[filp[p][f]],
         \A m \in used : dinode'[m] = dinode[m]
  PROVE  Stays
<1> SUFFICES ASSUME NEW p \in Proc, NEW f \in Fd, filp[p][f] # 0
    PROVE  LET d == filp[p][f]  s == f_desc_table[d].inode IN
           /\ f_desc_table'[d].inode = s
           /\ inode_table'[s].num = inode_table[s].num
           /\ dinode'[inode_table[s].num] = dinode[inode_table[s].num]
  BY DEF Stays
<1>1. PICK s \in Slot : s = f_desc_table[filp[p][f]].inode
  BY OpenFile
<1>2. inode_table[s].cnt > 0 /\ inode_table[s].num \in used
  BY <1>1, OpenFile
<1>3. inode_table'[s].num = inode_table[s].num
  <2>1. CASE s = s0
    <3>1. inode_table'[s].num = n
      BY <2>1 DEF TookSlot
    <3> QED
      BY <1>2, <2>1, <3>1 DEF TookSlot
  <2>2. CASE s # s0
    BY <2>2 DEF TookSlot
  <2> QED
    BY <2>1, <2>2
<1> QED
  BY <1>1, <1>2, <1>3

(* Whoever still holds a file after references were given back, FS being   *)
(* in order then too, holds the same file.                                 *)
LEMMA HeldStays ==
  ASSUME FInv, FInv', dinode' = dinode, NEW p \in Proc, NEW f \in Fd, filp[p][f] # 0,
         NEW pf \in Counted, pf \in Counted', filp[pf[1]][pf[2]] = filp[p][f],
         filp'[pf[1]][pf[2]] = filp[p][f],
         \A d \in Desc : f_desc_table'[d].inode \in {0, f_desc_table[d].inode},
         \A t \in Slot : \E k : inode_table'[t] = Less(inode_table[t], k)
  PROVE  LET d == filp[p][f]  s == f_desc_table[d].inode IN
         /\ f_desc_table'[d].inode = s
         /\ inode_table'[s].num = inode_table[s].num
         /\ dinode'[inode_table[s].num] = dinode[inode_table[s].num]
<1>1. PICK d \in Desc : d = filp[p][f]
  BY OpenFile
<1>2. PICK s \in Slot : s = f_desc_table[d].inode
  BY <1>1, OpenFile
<1>3. IsFiniteSet(Counted')
  <2>1. Counted' \in SUBSET (Proc \X Fd)
    BY DEF Counted
  <2> QED
    BY <2>1, Constants, FS_Subset
<1>4. f_desc_table'[d].inode = s
  <2>1. pf \in Holders(d)' /\ Holders(d)' \in SUBSET Counted'
    BY <1>1 DEF Holders
  <2>2. Cardinality(Holders(d)') # 0
    <3>1. IsFiniteSet(Holders(d)')
      BY <1>3, <2>1, FS_Subset
    <3> QED
      BY <2>1, <3>1, FS_EmptySet
  <2>3. f_desc_table'[d].inode # 0
    BY <2>2 DEF FInv, CountsInv, DescCounts
  <2> QED
    BY <1>2, <2>3
<1>5. inode_table'[s].cnt # 0
  <2>1. pf \in Claims(s)' /\ Claims(s)' \in SUBSET Counted'
    BY <1>1, <1>4 DEF Claims
  <2>2. NrClaims(s)' # 0 /\ NrClaims(s)' \in Nat
    <3>1. IsFiniteSet(Claims(s)')
      BY <1>3, <2>1, FS_Subset
    <3> QED
      BY <2>1, <3>1, FS_EmptySet, FS_CardinalityType DEF NrClaims
  <2>3. inode_table'[s].cnt = NrClaims(s)' + leaked'[s] + (IF s = 1 THEN 1 ELSE 0)
    BY DEF FInv, CountsInv, InodeRefs, NrClaims, Claims
  <2>4. leaked'[s] \in Nat
    BY DEF FInv, SlotsInv
  <2> QED
    BY <2>2, <2>3, <2>4
<1>6. inode_table'[s].num = inode_table[s].num
  <2>1. PICK k : inode_table'[s] = Less(inode_table[s], k)
    OBVIOUS
  <2>2. inode_table'[s] # FreeInode
    BY <1>5 DEF FreeInode
  <2>3. inode_table'[s] = [inode_table[s] EXCEPT !.cnt = @ - k]
    BY <2>1, <2>2 DEF Less
  <2>4. inode_table[s] = [num |-> inode_table[s].num, cnt |-> inode_table[s].cnt,
                          i |-> inode_table[s].i]
    BY DEF FInv, SlotsInv, IsEntry
  <2> QED
    BY <2>3, <2>4
<1> QED
  BY <1>1, <1>2, <1>4, <1>6

LEMMA do_openStays ==
  ASSUME FInv, NEW p \in Proc, NEW x, do_open(p, x), ~panic
  PROVE  Stays
<1>1. PICK n \in Inode : n = search_file(x)
  BY search_fileFinds DEF do_open, OpenFails
<1>2. /\ ~InodeTableFull(n) /\ MayCall(p) /\ ~NoRoom(p) /\ Connect(p, SlotFor(n))
      /\ inode_table' = get_inode(n) /\ UNCHANGED <<disk, alive, forking>>
  BY <1>1 DEF do_open, OpenFails
<1>3. PICK s \in Slot : s = SlotFor(n) /\ TookSlot(s, n, inode_table[s].cnt + 1, dinode[n])
  BY <1>2, SlotForIn, get_inodeTakes
<1>4. \A q \in Proc, f \in Fd :
        filp[q][f] # 0 => f_desc_table'[filp[q][f]] = f_desc_table[filp[q][f]]
  BY <1>2, <1>3, ConnectAdds
<1> QED
  BY <1>2, <1>3, <1>4, AddedStays DEF disk

LEMMA create_fileStays ==
  ASSUME FInv, NEW p \in Proc, NEW x, create_file(p, x), ~panic
  PROVE  Stays
<1>1. PICK n \in Inode : n = Min(Inode \ imap) /\ n \notin used
  BY NewInode DEF create_file
<1>2. PICK new : new = [mode |-> "regular", start |-> FirstFree, nr |-> NR_DEFAULT_FILE_SECTS]
  OBVIOUS
<1>3. ~InodeTableFull(n) /\ ~SmapRefuses
  BY <1>1 DEF create_file
<1>4. PICK s \in Slot : s = SlotFor(n)
  BY <1>3, SlotForIn
<1>5. /\ MayCall(p) /\ ~NoRoom(p) /\ Connect(p, s)
      /\ inode_table' = [inode_table EXCEPT ![s] = [num |-> n, cnt |-> 1, i |-> new]]
      /\ dinode' = [dinode EXCEPT ![n] = new]
      /\ UNCHANGED <<alive, forking>>
  BY <1>1, <1>2, <1>3, <1>4, Zenon DEF create_file
<1>6. /\ DOMAIN dinode = Inode /\ inode_table = [t \in Slot |-> inode_table[t]]
  BY DEF FInv, CountsInv, TypeOK, SlotsInv
<1>7. TookSlot(s, n, 1, new)
  <2>1. /\ \A t \in Slot : inode_table[t].num = n => t = s
        /\ inode_table[s].cnt > 0 => inode_table[s].num = n
    BY <1>3, <1>4, SlotForIn DEF Cached, FreeSlots
  <2>2. inode_table' = [t \in Slot |-> inode_table'[t]]
    BY <1>5, <1>6
  <2> QED
    BY <1>5, <1>6, <2>1, <2>2 DEF TookSlot
<1>8. \A m \in used : dinode'[m] = dinode[m]
  BY <1>1, <1>5, <1>6 DEF used
<1>9. \A q \in Proc, f \in Fd :
        filp[q][f] # 0 => f_desc_table'[filp[q][f]] = f_desc_table[filp[q][f]]
  BY <1>5, ConnectAdds
<1> QED
  BY <1>7, <1>8, <1>9, AddedStays

LEMMA UnlinkRefusedStays ==
  ASSUME FInv, NEW p \in Proc, NEW x, UnlinkRefused(p, x)
  PROVE  Stays
<1>1. PICK n \in Inode : n = search_file(x)
  BY search_fileFinds DEF UnlinkRefused
<1>2. /\ ~InodeTableFull(n) /\ inode_table' = get_inode(n)
      /\ UNCHANGED <<filp, f_desc_table, disk>>
  BY <1>1 DEF UnlinkRefused
<1>3. PICK s \in Slot : s = SlotFor(n) /\ TookSlot(s, n, inode_table[s].cnt + 1, dinode[n])
  BY <1>2, SlotForIn, get_inodeTakes
<1> QED
  BY <1>2, <1>3, AddedStays DEF disk

LEMMA do_unlinkStays ==
  ASSUME FInv, NEW p \in Proc, NEW x, do_unlink(p, x), ~panic
  PROVE  Stays
<1>1. PICK n \in Inode : n = search_file(x)
  BY search_fileFinds DEF do_unlink
<1>2. /\ Removable(n) /\ dinode' = [dinode EXCEPT ![n] = NoInode]
      /\ UNCHANGED <<filp, f_desc_table, inode_table>>
  BY <1>1, Zenon DEF do_unlink, tables
<1>3. ASSUME NEW q \in Proc, NEW f \in Fd, filp[q][f] # 0
      PROVE  LET num == inode_table[f_desc_table[filp[q][f]].inode].num IN
             dinode'[num] = dinode[num]
  <2>1. PICK s \in Slot : s = f_desc_table[filp[q][f]].inode
    BY <1>3, OpenFile
  <2>2. inode_table[s].cnt > 0 /\ inode_table[s].num \in Inode
    BY <1>3, <2>1, OpenFile DEF used
  <2>3. inode_table[s].num # n
    BY <1>2, <2>2 DEF Removable, Cached
  <2>4. DOMAIN dinode = Inode
    BY DEF FInv, CountsInv, TypeOK
  <2> QED
    BY <1>2, <2>1, <2>2, <2>3, <2>4
<1> QED
  BY <1>2, <1>3 DEF Stays

LEMMA do_closeStays ==
  ASSUME FInv, NEW p \in Proc, NEW f \in Fd, do_close(p, f)
  PROVE  Stays
<1> SUFFICES ASSUME NEW q \in Proc, NEW g \in Fd, filp[q][g] # 0, filp'[q][g] = filp[q][g]
    PROVE  LET d == filp[q][g]  s == f_desc_table[d].inode IN
           /\ f_desc_table'[d].inode = s
           /\ inode_table'[s].num = inode_table[s].num
           /\ dinode'[inode_table[s].num] = dinode[inode_table[s].num]
  BY DEF Stays
<1>1. FInv'
  BY do_closeKeeps
<1>2. PICK d : d = filp[p][f]
  OBVIOUS
<1>3. /\ MayCall(p) /\ d # 0
      /\ inode_table' = put_inode(inode_table, f_desc_table[d].inode)
      /\ f_desc_table' = [f_desc_table EXCEPT ![d] =
           [inode |-> IF @.cnt = 1 THEN 0 ELSE @.inode, cnt |-> @.cnt - 1]]
      /\ filp' = [filp EXCEPT ![p][f] = 0]
      /\ UNCHANGED <<forking, dinode>>
  BY <1>2 DEF do_close, disk
<1>4. /\ filp \in [Proc -> [Fd -> {0} \cup Desc]]
      /\ f_desc_table \in [Desc -> [inode : {0} \cup Slot, cnt : Nat]]
      /\ inode_table = [t \in Slot |-> inode_table[t]]
      /\ \A t \in Slot : inode_table[t].cnt \in Nat
  BY DEF FInv, CountsInv, TypeOK, SlotsInv
<1>5. \A r \in Proc, h \in Fd : filp'[r][h] = IF r = p /\ h = f THEN 0 ELSE filp[r][h]
  BY <1>3, <1>4
<1>6. PICK pf \in Counted : pf # <<p, f>> /\ filp[pf[1]][pf[2]] = filp[q][g]
  <2>1. CASE <<q, g>> \in Counted
    <3>1. <<q, g>> # <<p, f>>
      BY <1>3, <1>5
    <3> QED
      BY <2>1, <3>1
  <2>2. CASE <<q, g>> \notin Counted
    <3>1. PICK r \in alive : /\ \E fk \in forking : fk[1] = r
                             /\ <<r, g>> \in Counted /\ filp[r][g] = filp[q][g]
      BY <2>2, SomeHolder, ZenonT(30)
    <3>2. r # p
      BY <1>3, <3>1, CallerCounted
    <3> QED
      BY <3>1, <3>2
  <2> QED
    BY <2>1, <2>2
<1>7. pf \in Counted' /\ filp'[pf[1]][pf[2]] = filp[q][g]
  <2>1. pf \in Proc \X Fd
    BY DEF Counted
  <2>2. pf[1] \in Proc /\ pf[2] \in Fd /\ ~(pf[1] = p /\ pf[2] = f)
    BY <1>6, <2>1
  <2> QED
    BY <1>3, <1>5, <1>6, <2>1, <2>2 DEF Counted
<1>8. \A e \in Desc : f_desc_table'[e].inode \in {0, f_desc_table[e].inode}
  BY <1>3, <1>4
<1>9. \A t \in Slot : \E k : inode_table'[t] = Less(inode_table[t], k)
  <2>1. inode_table' =
          [inode_table EXCEPT ![f_desc_table[d].inode] = Less(inode_table[f_desc_table[d].inode], 1)]
    BY <1>3 DEF put_inode
  <2>2. ASSUME NEW t \in Slot
        PROVE  inode_table[t] = Less(inode_table[t], 0)
    <3>1. inode_table[t].cnt \in Nat /\ 0 \in Nat
      BY <1>4
    <3> QED
      BY <3>1, LessKeeps
  <2> QED
    BY <1>4, <2>1, <2>2
<1> QED
  BY <1>1, <1>3, <1>6, <1>7, <1>8, <1>9, HeldStays

LEMMA fs_exitStays ==
  ASSUME FInv, NEW p \in Proc, fs_exit(p)
  PROVE  Stays
<1> SUFFICES ASSUME NEW q \in Proc, NEW g \in Fd, filp[q][g] # 0, filp'[q][g] = filp[q][g]
    PROVE  LET d == filp[q][g]  s == f_desc_table[d].inode IN
           /\ f_desc_table'[d].inode = s
           /\ inode_table'[s].num = inode_table[s].num
           /\ dinode'[inode_table[s].num] = dinode[inode_table[s].num]
  BY DEF Stays
<1>1. FInv'
  BY fs_exitKeeps
<1>2. dinode' = dinode /\ forking = {} /\ forking' = forking
  BY DEF fs_exit, disk
<1>3. <<q, g>> \in Counted /\ <<q, g>> \in Counted'
  BY <1>2 DEF Counted
<1>4. \A d \in Desc : f_desc_table'[d].inode \in {0, f_desc_table[d].inode}
  <2>1. f_desc_table' = [d \in Desc |->
           LET left == f_desc_table[d].cnt - Uses(p, d) IN
           [inode |-> IF left = 0 THEN 0 ELSE f_desc_table[d].inode, cnt |-> left]]
    BY DEF fs_exit
  <2> TAKE d \in Desc
  <2>2. PICK left : left = f_desc_table[d].cnt - Uses(p, d)
    OBVIOUS
  <2>3. f_desc_table'[d] =
          [inode |-> IF left = 0 THEN 0 ELSE f_desc_table[d].inode, cnt |-> left]
    BY <2>1, <2>2
  <2> QED
    BY <2>3
<1>5. \A t \in Slot : \E k : inode_table'[t] = Less(inode_table[t], k)
  BY DEF fs_exit
<1> QED
  BY <1>1, <1>2, <1>3, <1>4, <1>5, HeldStays

(* FS has only to be told of the fork(): nothing moves.                    *)
LEMMA ForkStays ==
  ASSUME FInv, NEW p \in Proc, NEW c \in Proc, ForkCopy(p, c) \/ fs_fork(p, c)
  PROVE  Stays
<1>1. CASE ForkCopy(p, c)
  BY <1>1 DEF ForkCopy, Stays, disk
<1>2. CASE fs_fork(p, c)
  <2>1. /\ f_desc_table' = [d \in Desc |-> [f_desc_table[d] EXCEPT !.cnt = @ + Uses(c, d)]]
        /\ inode_table' = [s \in Slot |-> [inode_table[s] EXCEPT !.cnt = @ + UsesOfSlot(c, s)]]
        /\ dinode' = dinode
    BY <1>2 DEF fs_fork, disk
  <2>2. ASSUME NEW d \in Desc
        PROVE  f_desc_table'[d].inode = f_desc_table[d].inode
    <3>1. f_desc_table[d] \in [inode : {0} \cup Slot, cnt : Nat]
      BY DEF FInv, CountsInv, TypeOK
    <3> QED
      BY <2>1, <3>1
  <2>3. ASSUME NEW s \in Slot
        PROVE  inode_table'[s].num = inode_table[s].num
    <3>1. inode_table[s] = [num |-> inode_table[s].num, cnt |-> inode_table[s].cnt,
                            i |-> inode_table[s].i]
      BY DEF FInv, SlotsInv, IsEntry
    <3>2. inode_table'[s] = [inode_table[s] EXCEPT !.cnt = @ + UsesOfSlot(c, s)]
      BY <2>1
    <3> QED
      BY <3>1, <3>2
  <2> QED
    BY <2>1, <2>2, <2>3, OpenFile DEF Stays
<1> QED
  BY <1>1, <1>2

(* Whatever one process asks of FS, the file that another has open stays   *)
(* the file it opened: its descriptor, the slot of inode_table and the     *)
(* inode on the disk.                                                      *)
THEOREM OpenFilesAreKept == Spec => OpenFilesStay
<1>1. UNCHANGED <<tables, disk>> => Stays
  BY DEF Stays, tables, disk
<1>2. panic => Stays
  BY <1>1 DEF panic
<1>3. FInv /\ Next => Stays
  <2> SUFFICES ASSUME FInv, Next PROVE Stays
    OBVIOUS
  <2>1. ASSUME NEW p \in Proc, OpenPanics(p)
        PROVE  Stays
    BY <1>2, <2>1 DEF OpenPanics
  <2>2. ASSUME NEW p \in Proc, NEW x \in Path,
               do_open(p, x) \/ create_file(p, x) \/ do_unlink(p, x) \/ UnlinkRefused(p, x)
        PROVE  Stays
    BY <1>2, <2>2, do_openStays, create_fileStays, do_unlinkStays, UnlinkRefusedStays
  <2>3. ASSUME NEW p \in Proc, NEW x \in Path, do_stat(p, x)
        PROVE  Stays
    <3>1. inode_table' = inode_table \/ panic
      BY <2>3, do_statKeeps
    <3>2. ~panic => UNCHANGED <<filp, f_desc_table, disk>>
      BY <2>3 DEF do_stat
    <3> QED
      BY <1>1, <1>2, <3>1, <3>2 DEF tables
  <2>4. ASSUME NEW p \in Proc, NEW f \in Fd, do_close(p, f) \/ ReadRoot(p, f) \/ WriteRoot(p, f)
        PROVE  Stays
    <3>1. ASSUME UNCHANGED <<filp, f_desc_table, inode_table, dinode>>
          PROVE  Stays
      BY <3>1 DEF Stays
    <3> QED
      BY <2>4, <3>1, do_closeStays, ReadRootKeeps, WriteRootKeeps
  <2>5. ASSUME NEW p \in Proc, NEW c \in Proc, ForkCopy(p, c) \/ fs_fork(p, c)
        PROVE  Stays
    BY <2>5, ForkStays
  <2>6. ASSUME NEW p \in Proc, fs_exit(p)
        PROVE  Stays
    BY <2>6, fs_exitStays
  <2> QED
    BY <2>1, <2>2, <2>3, <2>4, <2>5, <2>6, Zenon DEF Next
<1>4. FInv /\ [Next]_vars => [Stays]_vars
  BY <1>3
<1>5. Spec => [][Stays]_vars
  BY <1>4, FsInvariance, PTL DEF Spec
<1> QED
  BY <1>5 DEF OpenFilesStay, Stays

-----------------------------------------------------------------------------
(* do_rdwt(): the arithmetic of its loop.                                  *)

(* Numbers of sectors and bytes.                                           *)
LEMMA Sectors ==
  ASSUME NEW s \in Nat \ {0}, NEW n \in Nat
  PROVE  n \div s \in Nat /\ n % s \in 0..(s - 1) /\ n = (n \div s) * s + (n % s)
OBVIOUS

(* A product grows with its first factor.                                  *)
LEMMA MoreSectors ==
  ASSUME NEW m \in Nat, NEW n \in Nat, NEW s \in Nat, m <= n
  PROVE  m * s \in Nat /\ n * s \in Nat /\ m * s <= n * s
<1>1. n * s = m * s + (n - m) * s
  OBVIOUS
<1>2. n - m \in Nat
  OBVIOUS
<1>3. (n - m) * s \in Nat /\ m * s \in Nat /\ n * s \in Nat
  BY <1>2
<1> QED
  BY <1>1, <1>3

(* What the code computes before the loop.                                 *)
LEMMA LoopBounds ==
  ASSUME NEW f \in File, NEW pos \in Nat, NEW end \in Nat, pos <= end
  PROVE  /\ Chunk(f, pos, end) \in Nat \ {0}
         /\ Rounds(f, pos, end) \in Nat \ {0}
         /\ SectMin(f, pos) \in Nat
         /\ Off(pos, 0) \in 0..(SECTOR_SIZE - 1)
         /\ SectMin(f, pos) * SECTOR_SIZE + Off(pos, 0) = Address(f, pos)
         /\ Rounds(f, pos, end) * (Chunk(f, pos, end) * SECTOR_SIZE) - Off(pos, 0) > end - pos
         /\ Chunk(f, pos, end) * SECTOR_SIZE - Off(pos, 0) > 0
<1> DEFINE S == SECTOR_SIZE
           st == i_start_sect[f]
           p == pos \div S
           e == end \div S
           c == Chunk(f, pos, end)
           n == e - p
           q == n \div c
           off == pos % S
<1>1. S \in Nat \ {0} /\ BufSects \in Nat \ {0} /\ st \in Nat
  BY RdwtAssumption
<1>2. p \in Nat /\ off \in 0..(S - 1) /\ pos = p * S + off
  <2> HIDE DEF S
  <2> QED
    BY <1>1, Sectors
<1>3. e \in Nat /\ end % S \in 0..(S - 1) /\ end = e * S + (end % S)
  <2> HIDE DEF S
  <2> QED
    BY <1>1, Sectors
<1>4. SectMin(f, pos) = st + p /\ SectMax(f, end) = st + e /\ Off(pos, 0) = off
  BY DEF SectMin, SectMax, Off
<1>5. c = Lesser(n + 1, BufSects) /\ Rounds(f, pos, end) = q + 1
  <2>1. SectMax(f, end) - SectMin(f, pos) = n
    <3> HIDE DEF p, e, S, st
    <3> QED
      BY <1>1, <1>2, <1>3, <1>4
  <2> QED
    BY <2>1 DEF Chunk, Rounds
<1>6. SectMin(f, pos) * S + Off(pos, 0) = Address(f, pos)
  <2> HIDE DEF p, off, st, S
  <2>1. (st + p) * S = st * S + p * S
    BY <1>1, <1>2
  <2>2. st * S \in Nat /\ p * S \in Nat
    BY <1>1, <1>2
  <2>3. Address(f, pos) = st * S + pos
    BY DEF Address, S, st
  <2> QED
    BY <1>2, <1>4, <2>1, <2>2, <2>3
<1> HIDE DEF p, e, S, st, off, c
<1>7. n \in Nat
  <2> SUFFICES ASSUME e < p PROVE FALSE
    BY <1>2, <1>3
  <2>1. (e + 1) * S <= p * S /\ (e + 1) * S = e * S + S /\ e * S \in Nat
    BY <1>1, <1>2, <1>3, MoreSectors
  <2> QED
    BY <1>1, <1>2, <1>3, <2>1
<1>8. c \in Nat \ {0} /\ c <= n + 1
  BY <1>1, <1>5, <1>7 DEF Lesser
<1>9. q \in Nat /\ n % c \in 0..(c - 1) /\ n = q * c + (n % c)
  <2> HIDE DEF n
  <2> QED
    BY <1>7, <1>8, Sectors
<1> HIDE DEF q
<1>10. (q + 1) * c \in Nat /\ (q + 1) * c >= n + 1
  <2>1. (q + 1) * c = q * c + c /\ q * c \in Nat
    BY <1>8, <1>9
  <2> QED
    BY <1>7, <1>8, <1>9, <2>1
<1>11. (q + 1) * (c * S) - off > end - pos
  <2>1. (q + 1) * (c * S) = ((q + 1) * c) * S
    BY <1>1, <1>8, <1>9
  <2>2. (n + 1) * S <= ((q + 1) * c) * S
    BY <1>1, <1>7, <1>10, MoreSectors
  <2>3. (n + 1) * S = e * S - p * S + S
    BY <1>1, <1>2, <1>3
  <2>4. e * S \in Nat /\ p * S \in Nat /\ ((q + 1) * c) * S \in Nat
    BY <1>1, <1>2, <1>3, <1>10
  <2> QED
    BY <1>1, <1>2, <1>3, <2>1, <2>2, <2>3, <2>4
<1>12. c * S - off > 0
  <2>1. 1 * S <= c * S /\ c * S \in Nat
    BY <1>1, <1>8, MoreSectors
  <2> QED
    BY <1>1, <1>2, <2>1
<1>13. Off(pos, 0) = off /\ Rounds(f, pos, end) = q + 1
  BY <1>4, <1>5 DEF q
<1>14. Rounds(f, pos, end) * (c * S) - Off(pos, 0) > end - pos /\ c * S - Off(pos, 0) > 0
  BY <1>11, <1>12, <1>13
<1>15. SectMin(f, pos) \in Nat /\ Rounds(f, pos, end) \in Nat \ {0} /\ Off(pos, 0) \in 0..(S - 1)
  BY <1>1, <1>2, <1>4, <1>9, <1>13
<1> QED
  BY <1>6, <1>8, <1>14, <1>15 DEF c, S

(* bytes_rw of each round comes from the one before,                       *)
LEMMA BytesRwSteps ==
  ASSUME NEW f \in File, NEW pos \in Nat, NEW len \in Nat, NEW end \in Nat, pos <= end
  PROVE  LET b == BytesRw(f, pos, len, end) IN
         \A r \in Nat : b[r] = IF r = 0 THEN 0
                               ELSE b[r - 1] + Lesser(len - b[r - 1],
                                                      Chunk(f, pos, end) * SECTOR_SIZE - Off(pos, r - 1))
<1> DEFINE room(r) == Chunk(f, pos, end) * SECTOR_SIZE - Off(pos, r)
           Z == Int
           Goes(b) == b = [r \in Nat |-> IF r = 0 THEN 0
                                         ELSE b[r - 1] + Lesser(len - b[r - 1], room(r - 1))]
           step == [r \in Nat |-> [x \in Int |-> IF r = 0 THEN 0 ELSE x + Lesser(len - x, room(r - 1))]]
<1>1. \A r \in Nat : room(r) \in Int
  <2>1. Chunk(f, pos, end) \in Nat /\ SECTOR_SIZE \in Nat /\ Off(pos, 0) \in Nat
    <3>1. Chunk(f, pos, end) \in Nat \ {0} /\ Off(pos, 0) \in 0..(SECTOR_SIZE - 1)
      BY LoopBounds, Zenon
    <3> QED
      BY <3>1, RdwtAssumption
  <2>2. Chunk(f, pos, end) * SECTOR_SIZE \in Nat
    BY <2>1
  <2>3. \A r \in Nat : Off(pos, r) \in Nat
    BY <2>1 DEF Off
  <2> QED
    BY <2>2, <2>3
<1> HIDE DEF room
<1>2. step \in [Nat -> [Int -> Int]]
  <2>1. \A r \in Nat, x \in Int : (IF r = 0 THEN 0 ELSE x + Lesser(len - x, room(r - 1))) \in Int
    BY <1>1 DEF Lesser
  <2> QED
    BY <2>1
<1>3. PICK b \in [Nat -> Int] : b = [r \in Nat |-> IF r = 0 THEN 0 ELSE step[r][b[r - 1]]]
  <2>1. step \in [Nat -> [Z -> Z]] /\ 0 \in Z
    BY <1>2
  <2> HIDE DEF step, Z
  <2>2. \E b \in [Nat -> Z] : b = [r \in Nat |-> IF r = 0 THEN 0 ELSE step[r][b[r - 1]]]
    BY <2>1, Iteration
  <2> QED
    BY <2>2 DEF Z
<1>4. Goes(b)
  <2> DEFINE g == [r \in Nat |-> IF r = 0 THEN 0 ELSE b[r - 1] + Lesser(len - b[r - 1], room(r - 1))]
  <2>1. ASSUME NEW r \in Nat PROVE b[r] = g[r]
    <3>1. CASE r = 0
      BY <1>3, <3>1
    <3>2. CASE r # 0
      <4>1. r - 1 \in Nat /\ b[r - 1] \in Int
        BY <3>2
      <4>2. b[r] = step[r][b[r - 1]]
        <5> HIDE DEF step
        <5> QED
          BY <1>3, <3>2
      <4> QED
        BY <3>2, <4>1, <4>2
    <3> QED
      BY <3>1, <3>2
  <2>2. b = g
    <3> HIDE DEF step
    <3>1. DOMAIN b = Nat /\ b = [r \in Nat |-> b[r]]
      BY <1>3
    <3> QED
      BY <2>1, <3>1
  <2> QED
    BY <2>2
<1>5. BytesRw(f, pos, len, end) = CHOOSE w : Goes(w)
  BY DEF BytesRw, room
<1>6. Goes(BytesRw(f, pos, len, end))
  <2> HIDE DEF Goes
  <2> QED
    BY <1>4, <1>5
<1> HIDE DEF step
<1> QED
  BY <1>6 DEF room

(* and is all that was asked for or all that fits in the rounds so far.    *)
LEMMA BytesRwIs ==
  ASSUME NEW f \in File, NEW pos \in Nat, NEW len \in Nat, NEW end \in Nat, pos <= end, NEW r \in Nat
  PROVE  BytesRw(f, pos, len, end)[r] =
           IF r = 0 THEN 0
           ELSE Lesser(len, r * (Chunk(f, pos, end) * SECTOR_SIZE) - Off(pos, 0))
<1> DEFINE b == BytesRw(f, pos, len, end)
           P == Chunk(f, pos, end) * SECTOR_SIZE
           off == Off(pos, 0)
           E == {n \in Nat : b[n] = IF n = 0 THEN 0 ELSE Lesser(len, n * P - off)}
<1>1. P \in Nat /\ off \in Nat /\ P - off > 0
  <2>1. Chunk(f, pos, end) \in Nat \ {0} /\ off \in 0..(SECTOR_SIZE - 1) /\ P - off > 0
    BY LoopBounds, Zenon
  <2>2. SECTOR_SIZE \in Nat
    BY RdwtAssumption
  <2> QED
    BY <2>1, <2>2
<1>2. \A n \in Nat : b[n] = IF n = 0 THEN 0 ELSE b[n - 1] + Lesser(len - b[n - 1], P - Off(pos, n - 1))
  BY BytesRwSteps
<1>3. \A n \in Nat : n # 0 => Off(pos, n) = 0
  BY DEF Off
<1> HIDE DEF b, P, off
<1>4. 0 \in E
  BY <1>2
<1>5. ASSUME NEW n \in E PROVE n + 1 \in E
  <2>1. n \in Nat /\ b[n] = IF n = 0 THEN 0 ELSE Lesser(len, n * P - off)
    OBVIOUS
  <2>2. b[n + 1] = b[n] + Lesser(len - b[n], P - Off(pos, n))
    <3>1. n + 1 \in Nat /\ n + 1 # 0 /\ (n + 1) - 1 = n
      BY <2>1
    <3> QED
      BY <1>2, <3>1
  <2>3. (n + 1) * P = n * P + P /\ n * P \in Nat
    BY <1>1, <2>1
  <2>4. CASE n = 0
    <3>1. b[n + 1] = Lesser(len, P - off) /\ 1 * P = P
      BY <1>1, <2>1, <2>2, <2>4 DEF Lesser, off
    <3> QED
      BY <2>4, <3>1
  <2>5. CASE n # 0
    <3>1. b[n + 1] = b[n] + Lesser(len - b[n], P) /\ b[n] = Lesser(len, n * P - off)
      BY <1>1, <1>3, <2>1, <2>2, <2>5
    <3> DEFINE m == n * P
               w == (n + 1) * P
    <3>2. m \in Nat /\ w = m + P
      BY <2>3
    <3>3. b[n] = Lesser(len, m - off)
      BY <3>1
    <3> HIDE DEF m, w
    <3>4. b[n + 1] = Lesser(len, w - off)
      BY <1>1, <3>1, <3>2, <3>3 DEF Lesser
    <3>5. n + 1 \in Nat /\ n + 1 # 0
      BY <2>1
    <3> QED
      BY <3>4, <3>5 DEF w
  <2> QED
    BY <2>4, <2>5
<1>6. E = Nat
  <2>1. E \in SUBSET Nat
    OBVIOUS
  <2> HIDE DEF E
  <2> QED
    BY <1>4, <1>5, <2>1, NatSetInduction
<1> QED
  BY <1>6 DEF b, P, off

-----------------------------------------------------------------------------
(* do_rdwt(): what the loop moves.                                         *)

(* The rounds move n bytes that follow each other from address from on.    *)
MoveStraightOn(t, from, n) ==
  /\ DOMAIN t \in SUBSET Nat /\ \E m \in Nat : \A i \in DOMAIN t : i <= m
  /\ \A i \in DOMAIN t :
       /\ t[i].addr \in Nat /\ t[i].bytes \in Nat /\ t[i].at \in Nat
       /\ t[i].at + t[i].bytes <= n
       /\ t[i].bytes > 0 => t[i].addr = from + t[i].at
  /\ \A k \in 0..(n - 1) : \E i \in DOMAIN t : k \in t[i].at..(t[i].at + t[i].bytes - 1)

(* A request's rounds move the bytes that follow its position, one after   *)
(* the other and at most as many as are asked for: all of them, or so many *)
(* that they end behind end.                                               *)
LEMMA LoopMoves ==
  ASSUME NEW f \in File, NEW pos \in Nat, NEW len \in Nat \ {0}, NEW end \in Nat, pos <= end
  PROVE  LET n == Total(f, pos, len, end) IN
         /\ n \in 1..len
         /\ n = len \/ pos + n > end
         /\ MoveStraightOn(Transfer(f, pos, len, end), Address(f, pos), n)
<1> DEFINE b == BytesRw(f, pos, len, end)
           c == Chunk(f, pos, end)
           P == c * SECTOR_SIZE
           R == Rounds(f, pos, end)
           s == SectMin(f, pos)
           off == Off(pos, 0)
           t == Transfer(f, pos, len, end)
           n == Total(f, pos, len, end)
           from == Address(f, pos)
<1>1. /\ c \in Nat \ {0} /\ R \in Nat \ {0} /\ s \in Nat /\ off \in 0..(SECTOR_SIZE - 1)
      /\ s * SECTOR_SIZE + off = from /\ R * P - off > end - pos /\ P - off > 0
  BY LoopBounds, Zenon
<1>2. SECTOR_SIZE \in Nat \ {0}
  BY RdwtAssumption
<1>3. P \in Nat /\ \A r \in Nat : r * P \in Nat
  BY <1>1, <1>2
<1>4. \A r \in Nat : b[r] = IF r = 0 THEN 0 ELSE Lesser(len, r * P - off)
  <2>1. len \in Nat
    OBVIOUS
  <2> QED
    BY <2>1, BytesRwIs
<1>5. n = b[R]
  BY DEF Total
<1>6. /\ DOMAIN t = 1..R
      /\ \A i \in 1..R : t[i] = [addr |-> (s + (i - 1) * c) * SECTOR_SIZE + Off(pos, i - 1),
                                 bytes |-> b[i] - b[i - 1], at |-> b[i - 1]]
  BY DEF Transfer
<1>7. \A r \in Nat : r # 0 => Off(pos, r) = 0
  BY DEF Off
<1>8. Off(pos, 0) = off
  OBVIOUS
<1> HIDE DEF b, P, c, R, s, off, t, n, from
<1>9. \A r \in Nat : b[r] \in Nat /\ b[r] <= len /\ b[r] <= b[r + 1]
  <2> SUFFICES ASSUME NEW r \in Nat PROVE b[r] \in Nat /\ b[r] <= len /\ b[r] <= b[r + 1]
    OBVIOUS
  <2>1. (r + 1) * P = r * P + P /\ r * P \in Nat /\ r + 1 \in Nat /\ r + 1 # 0
    BY <1>3
  <2> DEFINE m == r * P
             w == (r + 1) * P
  <2>2. w = m + P /\ m \in Nat /\ b[r + 1] = Lesser(len, w - off)
    BY <1>4, <2>1
  <2> HIDE DEF m, w
  <2>3. b[r + 1] = Lesser(len, m + P - off)
    BY <1>1, <1>2, <1>3, <2>2 DEF Lesser
  <2>4. CASE r = 0
    <3>1. b[r] = 0 /\ m = 0
      BY <1>3, <1>4, <2>4 DEF m
    <3> QED
      BY <1>1, <1>2, <1>3, <2>2, <2>3, <3>1 DEF Lesser
  <2>5. CASE r # 0
    <3>1. 1 * P <= r * P
      BY <1>3, <2>5, MoreSectors
    <3>2. b[r] = Lesser(len, r * P - off)
      BY <1>4, <2>5
    <3>3. P <= m /\ b[r] = Lesser(len, m - off)
      BY <1>3, <3>1, <3>2 DEF m
    <3> QED
      BY <1>1, <1>2, <1>3, <2>2, <2>3, <3>3 DEF Lesser
  <2> QED
    BY <2>4, <2>5
<1>10. \A r \in Nat : r <= R => b[r] <= n
  <2> DEFINE E == {x \in Nat : x <= R => b[R - x] <= n}
  <2>1. 0 \in E
    BY <1>1, <1>5, <1>9
  <2>2. ASSUME NEW x \in E PROVE x + 1 \in E
    <3>1. ASSUME x + 1 <= R PROVE b[R - (x + 1)] <= n
      <4>1. R - (x + 1) \in Nat /\ (R - (x + 1)) + 1 = R - x /\ x <= R /\ R - x \in Nat
        BY <1>1, <3>1
      <4>2. b[R - (x + 1)] <= b[R - x] /\ b[R - (x + 1)] \in Nat /\ b[R - x] \in Nat
        BY <1>9, <4>1
      <4>3. b[R - x] <= n /\ n \in Nat
        BY <1>1, <1>5, <1>9, <4>1
      <4> QED
        BY <4>2, <4>3
    <3> QED
      BY <3>1
  <2>3. E = Nat
    <3>1. E \in SUBSET Nat
      OBVIOUS
    <3> HIDE DEF E
    <3> QED
      BY <2>1, <2>2, <3>1, NatSetInduction
  <2>4. ASSUME NEW r \in Nat, r <= R PROVE b[r] <= n
    <3>1. R - r \in Nat /\ R - r <= R /\ R - (R - r) = r
      BY <1>1, <2>4
    <3> QED
      BY <2>3, <3>1
  <2> QED
    BY <2>4
<1>11. n \in 1..len /\ (n = len \/ pos + n > end)
  <2> DEFINE m == R * P
  <2>1. n = Lesser(len, m - off) /\ m \in Nat /\ m - off > end - pos
    BY <1>1, <1>3, <1>4, <1>5
  <2> HIDE DEF m
  <2> QED
    BY <1>1, <1>2, <2>1 DEF Lesser
<1>12. ASSUME NEW i \in 1..R
       PROVE  /\ t[i].addr \in Nat /\ t[i].bytes \in Nat /\ t[i].at \in Nat
              /\ t[i].at + t[i].bytes <= n
              /\ t[i].bytes > 0 => t[i].addr = from + t[i].at
  <2>1. i - 1 \in Nat /\ i \in Nat /\ (i - 1) + 1 = i /\ i <= R /\ i # 0
    BY <1>1
  <2>2. /\ t[i].addr = (s + (i - 1) * c) * SECTOR_SIZE + Off(pos, i - 1)
        /\ t[i].bytes = b[i] - b[i - 1] /\ t[i].at = b[i - 1]
    BY <1>6
  <2>3. b[i] \in Nat /\ b[i - 1] \in Nat /\ b[i - 1] <= b[i] /\ b[i] <= n
    BY <1>9, <1>10, <2>1
  <2>4. (s + (i - 1) * c) * SECTOR_SIZE = s * SECTOR_SIZE + (i - 1) * P
    <3> DEFINE x == i - 1
    <3>1. x \in Nat
      BY <2>1
    <3> HIDE DEF x
    <3>2. (s + x * c) * SECTOR_SIZE = s * SECTOR_SIZE + x * (c * SECTOR_SIZE)
      BY <1>1, <1>2, <3>1
    <3> QED
      BY <3>2 DEF x, P
  <2>5. s * SECTOR_SIZE \in Nat /\ (i - 1) * P \in Nat
    BY <1>1, <1>2, <1>3, <2>1
  <2>6. CASE i = 1
    <3>1. (i - 1) * P = 0 /\ b[i - 1] = 0 /\ Off(pos, i - 1) = off
      BY <1>3, <1>4, <1>8, <2>1, <2>6
    <3>2. t[i].addr = s * SECTOR_SIZE + off
      BY <1>1, <2>2, <2>4, <2>5, <3>1
    <3> QED
      BY <1>1, <1>2, <2>2, <2>3, <2>5, <3>1, <3>2
  <2>7. CASE i # 1
    <3> DEFINE m == (i - 1) * P
    <3>1. i - 1 # 0 /\ Off(pos, i - 1) = 0 /\ b[i - 1] = Lesser(len, m - off)
      BY <1>4, <1>7, <2>1, <2>7
    <3>2. t[i].addr = s * SECTOR_SIZE + m /\ m \in Nat
      BY <2>2, <2>4, <2>5, <3>1
    <3>3. b[i] <= len
      BY <1>9, <2>1
    <3> HIDE DEF m
    <3>4. t[i].bytes > 0 => b[i - 1] = m - off
      BY <1>1, <1>2, <2>2, <2>3, <3>1, <3>2, <3>3 DEF Lesser
    <3> QED
      BY <1>1, <1>2, <2>2, <2>3, <2>5, <3>2, <3>4
  <2> QED
    BY <2>6, <2>7
<1>13. ASSUME NEW k \in 0..(n - 1) PROVE \E i \in 1..R : k \in t[i].at..(t[i].at + t[i].bytes - 1)
  <2> DEFINE E == {r \in Nat : b[r] > k}
  <2>1. R \in E
    BY <1>1, <1>5, <1>11
  <2>2. PICK r \in E : \A x \in E : r <= x
    <3>1. E \in SUBSET Nat /\ E # {}
      BY <2>1
    <3> HIDE DEF E
    <3> QED
      BY <3>1, LeastNat
  <2>3. r \in 1..R /\ r - 1 \in Nat
    <3>1. r # 0
      BY <1>4
    <3> QED
      BY <1>1, <2>1, <2>2, <3>1
  <2>4. b[r - 1] \in Nat /\ b[r - 1] <= k /\ b[r] > k /\ b[r] \in Nat
    <3>1. r - 1 \notin E
      <4>1. ~(r <= r - 1)
        BY <2>3
      <4> HIDE DEF E
      <4> QED
        BY <2>2, <4>1
    <3> QED
      BY <1>9, <2>3, <3>1
  <2>5. t[r].at = b[r - 1] /\ t[r].bytes = b[r] - b[r - 1]
    BY <1>6, <2>3
  <2>6. k \in t[r].at..(t[r].at + t[r].bytes - 1)
    BY <2>4, <2>5
  <2> QED
    BY <2>3, <2>6
<1>14. DOMAIN t \in SUBSET Nat /\ \E m \in Nat : \A i \in DOMAIN t : i <= m
  BY <1>1, <1>6
<1> QED
  BY <1>6, <1>11, <1>12, <1>13, <1>14 DEF t, n, from, MoveStraightOn

(* The last of some rounds is one of them.                                 *)
LEMMA LastRound ==
  ASSUME NEW S \in SUBSET Nat, S # {}, NEW m \in Nat, \A i \in S : i <= m
  PROVE  Max(S) \in S
<1> DEFINE D == {x \in Nat : m - x \in S}
<1>1. D \in SUBSET Nat /\ D # {}
  <2>1. PICK i \in S : TRUE
    OBVIOUS
  <2>2. m - i \in Nat /\ m - (m - i) = i
    BY <2>1
  <2>3. m - i \in D
    BY <2>1, <2>2
  <2> QED
    BY <2>3
<1>2. PICK x \in D : \A y \in D : x <= y
  <2> HIDE DEF D
  <2> QED
    BY <1>1, LeastNat
<1>3. ASSUME NEW i \in S PROVE m - x >= i
  <2>1. m - i \in Nat /\ m - (m - i) = i /\ i \in Nat
    OBVIOUS
  <2>2. m - i \in D
    BY <2>1
  <2>3. x <= m - i
    BY <1>2, <2>2
  <2> QED
    BY <1>2, <2>1, <2>3
<1>4. m - x \in S
  BY <1>2
<1> QED
  BY <1>3, <1>4 DEF Max

(* So a WRITE replaces the bytes that follow its position, and no others,  *)
LEMMA WrittenAt ==
  ASSUME NEW f \in File, NEW pos \in Nat, NEW len \in Nat \ {0}, NEW end \in Nat, pos <= end,
         NEW data, NEW a \in Nat
  PROVE  LET from == Address(f, pos)
             n == Total(f, pos, len, end)
         IN Written(Transfer(f, pos, len, end), data, a) =
              IF a \in from..(from + n - 1) THEN data[a - from + 1] ELSE partition[a]
<1> DEFINE t == Transfer(f, pos, len, end)
           n == Total(f, pos, len, end)
           from == Address(f, pos)
           hits == OnPartition(t, a)
<1>0. n \in 1..len /\ MoveStraightOn(t, from, n)
  BY LoopMoves
<1>1. /\ n \in 1..len
      /\ DOMAIN t \in SUBSET Nat /\ \E m \in Nat : \A i \in DOMAIN t : i <= m
      /\ \A i \in DOMAIN t :
           /\ t[i].addr \in Nat /\ t[i].bytes \in Nat /\ t[i].at \in Nat
           /\ t[i].at + t[i].bytes <= n
           /\ t[i].bytes > 0 => t[i].addr = from + t[i].at
      /\ \A k \in 0..(n - 1) : \E i \in DOMAIN t : k \in t[i].at..(t[i].at + t[i].bytes - 1)
  <2> HIDE DEF t, n, from
  <2> QED
    BY <1>0, Zenon DEF MoveStraightOn
<1>2. from \in Nat
  BY RdwtAssumption DEF Address
<1>3. hits = {i \in DOMAIN t : a \in t[i].addr..(t[i].addr + t[i].bytes - 1)}
  BY DEF OnPartition
<1>4. Written(t, data, a) = IF hits = {} THEN partition[a]
                            ELSE data[t[Max(hits)].at + a - t[Max(hits)].addr + 1]
  BY DEF Written
<1> HIDE DEF t, n, from, hits
<1>5. ASSUME NEW i \in hits PROVE t[i].addr = from + t[i].at /\ a \in from..(from + n - 1)
  BY <1>1, <1>2, <1>3
<1>6. ASSUME a \in from..(from + n - 1) PROVE hits # {}
  <2>1. a - from \in 0..(n - 1)
    BY <1>1, <1>2, <1>6
  <2>2. PICK i \in DOMAIN t : a - from \in t[i].at..(t[i].at + t[i].bytes - 1)
    BY <1>1, <2>1
  <2>3. i \in hits
    BY <1>1, <1>2, <1>3, <2>2
  <2> QED
    BY <2>3
<1>7. CASE hits = {}
  <2>1. a \notin from..(from + n - 1)
    BY <1>6, <1>7
  <2> QED
    BY <1>4, <1>7, <2>1 DEF t, n, from
<1>8. CASE hits # {}
  <2>1. Max(hits) \in hits
    <3>1. hits \in SUBSET Nat /\ \E m \in Nat : \A i \in hits : i <= m
      BY <1>1, <1>3
    <3> QED
      BY <1>8, <3>1, LastRound
  <2>2. t[Max(hits)].addr = from + t[Max(hits)].at /\ a \in from..(from + n - 1)
    BY <1>5, <2>1
  <2>3. t[Max(hits)].at \in Nat
    BY <1>1, <1>3, <2>1
  <2>4. t[Max(hits)].at + a - t[Max(hits)].addr + 1 = a - from + 1
    BY <1>2, <2>2, <2>3
  <2> QED
    BY <1>4, <1>8, <2>2, <2>4 DEF t, n, from
<1> QED
  BY <1>7, <1>8

(* and a READ copies them, in order.                                       *)
LEMMA ReadInAt ==
  ASSUME NEW f \in File, NEW pos \in Nat, NEW len \in Nat \ {0}, NEW end \in Nat, pos <= end,
         NEW k \in 0..(Total(f, pos, len, end) - 1)
  PROVE  ReadIn(Transfer(f, pos, len, end), k) = partition[Address(f, pos) + k]
<1> DEFINE t == Transfer(f, pos, len, end)
           n == Total(f, pos, len, end)
           from == Address(f, pos)
           hits == InBuf(t, k)
<1>0. n \in 1..len /\ MoveStraightOn(t, from, n)
  BY LoopMoves
<1>1. /\ n \in 1..len
      /\ DOMAIN t \in SUBSET Nat /\ \E m \in Nat : \A i \in DOMAIN t : i <= m
      /\ \A i \in DOMAIN t :
           /\ t[i].addr \in Nat /\ t[i].bytes \in Nat /\ t[i].at \in Nat
           /\ t[i].at + t[i].bytes <= n
           /\ t[i].bytes > 0 => t[i].addr = from + t[i].at
      /\ \A x \in 0..(n - 1) : \E i \in DOMAIN t : x \in t[i].at..(t[i].at + t[i].bytes - 1)
  <2> HIDE DEF t, n, from
  <2> QED
    BY <1>0, Zenon DEF MoveStraightOn
<1>2. from \in Nat /\ k \in 0..(n - 1)
  BY RdwtAssumption DEF Address
<1>3. hits = {i \in DOMAIN t : k \in t[i].at..(t[i].at + t[i].bytes - 1)}
  BY DEF InBuf
<1>4. ReadIn(t, k) = partition[t[Max(hits)].addr + k - t[Max(hits)].at]
  BY DEF ReadIn
<1> HIDE DEF t, n, from, hits
<1>5. Max(hits) \in hits
  <2>1. hits \in SUBSET Nat /\ hits # {} /\ \E m \in Nat : \A i \in hits : i <= m
    BY <1>1, <1>2, <1>3
  <2> QED
    BY <2>1, LastRound
<1>6. t[Max(hits)].addr = from + t[Max(hits)].at /\ t[Max(hits)].at \in Nat
  BY <1>1, <1>2, <1>3, <1>5
<1>7. t[Max(hits)].addr + k - t[Max(hits)].at = from + k
  BY <1>1, <1>2, <1>6
<1> QED
  BY <1>4, <1>7 DEF t, from

-----------------------------------------------------------------------------
(* do_rdwt(): the inductive invariant.                                     *)

(* A descriptor is within its file.                                        *)
RInv ==
  /\ DOMAIN partition = 0..(PartSects * SECTOR_SIZE - 1)
  /\ i_size \in [File -> Nat] /\ fd_pos \in [Filp -> Nat]
  /\ \A d \in Filp : fd_pos[d] <= i_size[FileOf[d]]

(* What a request that moves n bytes does to positions and sizes.          *)
LEMMA Advances ==
  ASSUME RInv, NEW d \in Filp, NEW n \in Nat, Advance(d, n), DOMAIN partition' = DOMAIN partition
  PROVE  /\ RInv'
         /\ fd_pos'[d] = fd_pos[d] + n /\ \A e \in Filp \ {d} : fd_pos'[e] = fd_pos[e]
         /\ i_size'[FileOf[d]] = IF fd_pos[d] + n > i_size[FileOf[d]] THEN fd_pos[d] + n
                                 ELSE i_size[FileOf[d]]
         /\ \A g \in File : g # FileOf[d] => i_size'[g] = i_size[g]
<1>1. FileOf \in [Filp -> File]
  BY RdwtAssumption
<1>2. /\ fd_pos' = [fd_pos EXCEPT ![d] = @ + n]
      /\ i_size' = [i_size EXCEPT ![FileOf[d]] = IF fd_pos[d] + n > @ THEN fd_pos[d] + n ELSE @]
  BY DEF Advance
<1>3. i_size' \in [File -> Nat] /\ fd_pos' \in [Filp -> Nat]
  BY <1>1, <1>2 DEF RInv
<1>4. \A e \in Filp : fd_pos'[e] <= i_size'[FileOf[e]]
  BY <1>1, <1>2 DEF RInv
<1> QED
  BY <1>1, <1>2, <1>3, <1>4 DEF RInv

(* A READ returns what follows the position, up to the file's end at least.*)
LEMMA ReadDoes ==
  ASSUME RInv, NEW d \in Filp, NEW len \in Lens, Read(d, len)
  PROVE  \E n \in 1..len :
           /\ Advance(d, n) /\ partition' = partition
           /\ n = len \/ fd_pos[d] + n > i_size[FileOf[d]]
           /\ buf' = [k \in 1..n |-> partition[Address(FileOf[d], fd_pos[d]) + k - 1]]
<1> DEFINE f == FileOf[d]
           pos == fd_pos[d]
           end == EndOfRead(f, pos, len)
           n == Total(f, pos, len, end)
           t == Transfer(f, pos, len, end)
<1>1. f \in File /\ len \in Nat \ {0} /\ pos \in Nat /\ i_size[f] \in Nat /\ pos <= i_size[f]
  BY RdwtAssumption DEF RInv
<1>2. /\ buf' = [k \in 1..n |-> ReadIn(t, k - 1)] /\ Advance(d, n) /\ partition' = partition
  BY DEF Read
<1> HIDE DEF f, pos, n, t
<1>3. end \in Nat /\ pos <= end /\ (end = pos + len \/ end = i_size[f])
  BY <1>1 DEF EndOfRead, Lesser
<1> HIDE DEF end
<1>4. n \in 1..len /\ (n = len \/ pos + n > end)
  BY <1>1, <1>3, LoopMoves DEF n
<1>5. n = len \/ pos + n > i_size[f]
  BY <1>1, <1>3, <1>4
<1>6. \A k \in 1..n : ReadIn(t, k - 1) = partition[Address(f, pos) + k - 1]
  <2> SUFFICES ASSUME NEW k \in 1..n PROVE ReadIn(t, k - 1) = partition[Address(f, pos) + k - 1]
    OBVIOUS
  <2>1. k - 1 \in 0..(n - 1)
    BY <1>4
  <2>2. ReadIn(t, k - 1) = partition[Address(f, pos) + (k - 1)]
    BY <1>1, <1>3, <2>1, ReadInAt DEF n, t
  <2>3. Address(f, pos) \in Nat
    BY <1>1, RdwtAssumption DEF Address
  <2>4. Address(f, pos) + (k - 1) = Address(f, pos) + k - 1
    BY <1>4, <2>3
  <2> QED
    BY <2>2, <2>4
<1>7. buf' = [k \in 1..n |-> partition[Address(f, pos) + k - 1]]
  BY <1>2, <1>6
<1> QED
  BY <1>2, <1>4, <1>5, <1>7 DEF f, pos

(* The data of a WRITE is a sequence.                                      *)
LEMMA DataLen ==
  ASSUME NEW data \in Data
  PROVE  Len(data) \in Lens /\ Len(data) \in Nat \ {0} /\ DOMAIN data = 1..Len(data)
<1>1. PICK n \in Lens : data = [k \in 1..n |-> k % 3]
  BY DEF Data
<1>2. n \in Nat \ {0}
  BY RdwtAssumption
<1>3. data \in Seq(Nat)
  <2>1. data \in [1..n -> Nat]
    BY <1>1, <1>2
  <2> QED
    BY <1>2, <2>1, SeqDef
<1>4. Len(data) \in Nat /\ DOMAIN data = 1..Len(data)
  BY <1>3, LenProperties
<1>5. DOMAIN data = 1..n
  BY <1>1
<1>6. Len(data) = n
  <2>1. n \in 1..Len(data)
    BY <1>2, <1>4, <1>5
  <2>2. Len(data) \in 1..n
    BY <1>2, <1>4, <1>5, <2>1
  <2> QED
    BY <1>2, <2>1, <2>2
<1> QED
  BY <1>2, <1>4, <1>6

(* A WRITE replaces what follows the position, up to the end of the file's *)
(* sectors at least.                                                       *)
LEMMA WriteDoes ==
  ASSUME RInv, NEW d \in Filp, NEW data \in Data, Write(d, data), Fits(FileOf[d], i_size)
  PROVE  \E n \in 1..Len(data) :
           /\ Advance(d, n) /\ buf' = data
           /\ n = Len(data) \/ fd_pos[d] + n > Space(FileOf[d])
           /\ partition' = [a \in DOMAIN partition |->
                LET from == Address(FileOf[d], fd_pos[d]) IN
                IF a \in from..(from + n - 1) THEN data[a - from + 1] ELSE partition[a]]
<1> DEFINE f == FileOf[d]
           pos == fd_pos[d]
           len == Len(data)
           end == EndOfWrite(f, pos, len)
           n == Total(f, pos, len, end)
           t == Transfer(f, pos, len, end)
           from == Address(f, pos)
<1>1. f \in File /\ len \in Nat \ {0} /\ pos \in Nat /\ i_size[f] \in Nat /\ pos <= i_size[f]
  BY DataLen, RdwtAssumption DEF RInv
<1>2. Space(f) \in Nat /\ i_size[f] <= Space(f)
  <2>1. i_nr_sects[f] \in Nat /\ SECTOR_SIZE \in Nat
    BY <1>1, RdwtAssumption
  <2> QED
    BY <2>1 DEF Space, Fits
<1>3. /\ partition' = [a \in DOMAIN partition |-> Written(t, data, a)]
      /\ buf' = data /\ Advance(d, n)
  BY DEF Write
<1> HIDE DEF f, pos, len, n, t, from
<1>4. end \in Nat /\ pos <= end /\ (end = pos + len \/ end = Space(f))
  BY <1>1, <1>2 DEF EndOfWrite, Lesser
<1> HIDE DEF end
<1>5. n \in 1..len /\ (n = len \/ pos + n > end)
  BY <1>1, <1>4, LoopMoves DEF n
<1>6. n = len \/ pos + n > Space(f)
  BY <1>1, <1>2, <1>4, <1>5
<1>7. \A a \in DOMAIN partition :
        Written(t, data, a) = IF a \in from..(from + n - 1) THEN data[a - from + 1] ELSE partition[a]
  <2> SUFFICES ASSUME NEW a \in DOMAIN partition
               PROVE  Written(t, data, a) =
                        IF a \in from..(from + n - 1) THEN data[a - from + 1] ELSE partition[a]
    OBVIOUS
  <2>1. a \in Nat
    BY DEF RInv
  <2> QED
    BY <1>1, <1>4, <2>1, WrittenAt DEF t, n, from
<1>8. partition' = [a \in DOMAIN partition |->
                      IF a \in from..(from + n - 1) THEN data[a - from + 1] ELSE partition[a]]
  BY <1>3, <1>7
<1> QED
  BY <1>3, <1>5, <1>6, <1>8 DEF f, pos, len, from

-----------------------------------------------------------------------------
(* do_rdwt(): the theorems.                                                *)

(* The length of a sequence written as a function.                         *)
LEMMA LenIs ==
  ASSUME NEW n \in Nat, NEW s, s = [k \in 1..n |-> s[k]]
  PROVE  Len(s) = n
<1> DEFINE V == {s[k] : k \in 1..n}
<1>1. s \in [1..n -> V]
  <2> DEFINE g == [k \in 1..n |-> s[k]]
  <2>1. g \in [1..n -> V]
    OBVIOUS
  <2> QED
    BY <2>1
<1>2. s \in Seq(V)
  <2> HIDE DEF V
  <2> QED
    BY <1>1, SeqDef
<1>3. Len(s) \in Nat /\ DOMAIN s = 1..Len(s)
  <2> HIDE DEF V
  <2> QED
    BY <1>2, LenProperties
<1>4. DOMAIN s = 1..n
  BY <1>1
<1>5. CASE n = 0
  <2>1. Len(s) \notin 1..Len(s)
    BY <1>3, <1>4, <1>5
  <2> QED
    BY <1>3, <1>5, <2>1
<1>6. CASE n # 0
  <2>1. n \in 1..Len(s)
    BY <1>3, <1>4, <1>6
  <2>2. Len(s) \in 1..n
    BY <1>3, <1>4, <1>6, <2>1
  <2> QED
    BY <1>3, <2>1, <2>2
<1> QED
  BY <1>5, <1>6

(* A part of a sequence, as a function.                                    *)
LEMMA SubSeqIs ==
  ASSUME NEW s, NEW m \in Nat, NEW n \in Nat, m <= n + 1
  PROVE  SubSeq(s, m, n) = [i \in 1..(n - m + 1) |-> s[m + i - 1]]
<1> DEFINE V == {s[i] : i \in m..n}
           u == SubSeq(s, m, n)
<1>1. /\ u \in Seq(V) /\ Len(u) = (IF m <= n THEN n - m + 1 ELSE 0)
      /\ \A i \in 1..(n - m + 1) : u[i] = s[m + i - 1]
  <2>1. \A i \in m..n : s[i] \in V
    OBVIOUS
  <2>2. m \in Int /\ n \in Int
    OBVIOUS
  <2> HIDE DEF V
  <2> QED
    BY <2>1, <2>2, SubSeqProperties
<1>2. Len(u) = n - m + 1
  BY <1>1
<1>3. u \in [1..Len(u) -> V]
  <2> HIDE DEF V, u
  <2> QED
    BY <1>1, LenProperties
<1> HIDE DEF V, u
<1>4. u = [i \in 1..(n - m + 1) |-> u[i]]
  BY <1>2, <1>3
<1> QED
  BY <1>1, <1>4 DEF u

(* The bytes of a file are on the partition, and nobody else's.            *)
LEMMA OwnBytes ==
  ASSUME NEW f \in File, NEW at \in Nat, at < Space(f)
  PROVE  /\ Address(f, at) \in 0..(PartSects * SECTOR_SIZE - 1)
         /\ \A g \in File \ {f} : \A x \in Nat : x < Space(g) => Address(g, x) # Address(f, at)
<1>0. /\ SECTOR_SIZE \in Nat /\ PartSects \in Nat
      /\ \A h \in File : i_start_sect[h] \in Nat /\ i_nr_sects[h] \in Nat
  BY RdwtAssumption
<1> DEFINE first(h) == i_start_sect[h] * SECTOR_SIZE
<1>1. \A h \in File : first(h) \in Nat /\ Space(h) \in Nat
  BY <1>0 DEF Space
<1>2. ASSUME NEW h \in File, NEW m \in Nat, i_start_sect[h] + i_nr_sects[h] <= m
      PROVE  first(h) + Space(h) <= m * SECTOR_SIZE
  <2>1. i_start_sect[h] + i_nr_sects[h] \in Nat
    BY <1>0
  <2>2. (i_start_sect[h] + i_nr_sects[h]) * SECTOR_SIZE <= m * SECTOR_SIZE
    BY <1>0, <1>2, <2>1, MoreSectors
  <2>3. (i_start_sect[h] + i_nr_sects[h]) * SECTOR_SIZE = first(h) + Space(h)
    BY <1>0 DEF Space
  <2> QED
    BY <2>2, <2>3
<1>3. first(f) + Space(f) <= PartSects * SECTOR_SIZE /\ PartSects * SECTOR_SIZE \in Nat
  BY <1>0, <1>2, RdwtAssumption
<1>4. \A h \in File, x \in Nat : Address(h, x) = first(h) + x
  BY DEF Address
<1>5. \A g \in File \ {f} : first(f) + Space(f) <= first(g) \/ first(g) + Space(g) <= first(f)
  <2> SUFFICES ASSUME NEW g \in File \ {f}
               PROVE  first(f) + Space(f) <= first(g) \/ first(g) + Space(g) <= first(f)
    OBVIOUS
  <2>1. \/ i_start_sect[f] + i_nr_sects[f] <= i_start_sect[g]
        \/ i_start_sect[g] + i_nr_sects[g] <= i_start_sect[f]
    BY RdwtAssumption
  <2> QED
    BY <1>0, <1>2, <2>1
<1> HIDE DEF first
<1> QED
  BY <1>1, <1>3, <1>4, <1>5

(* At the start every file is empty and every descriptor at its beginning. *)
LEMMA InitRInv == RdwtInit => RInv
BY RdwtAssumption DEF RdwtInit, RInv

(* The invariant survives every request: reading, writing and reopening.   *)
LEMMA NextRInv == RInv /\ [RdwtNext]_rdwtvars => RInv'
<1> SUFFICES ASSUME RInv, [RdwtNext]_rdwtvars PROVE RInv'
  OBVIOUS
<1>1. ASSUME NEW d \in Filp, NEW len \in Lens, Read(d, len) PROVE RInv'
  <2>1. PICK n \in 1..len : Advance(d, n) /\ partition' = partition
    BY <1>1, ReadDoes
  <2>2. n \in Nat
    BY RdwtAssumption
  <2> QED
    BY <2>1, <2>2, Advances
<1>2. ASSUME NEW d \in Filp, NEW data \in Data, Write(d, data), Fits(FileOf[d], i_size) PROVE RInv'
  <2>1. PICK n \in 1..Len(data) : Advance(d, n) /\ DOMAIN partition' = DOMAIN partition
    BY <1>2, WriteDoes
  <2>2. n \in Nat
    BY DataLen
  <2> QED
    BY <2>1, <2>2, Advances
<1>3. ASSUME NEW d \in Filp, Reopen(d) PROVE RInv'
  <2>1. UNCHANGED <<partition, i_size>> /\ fd_pos' = [fd_pos EXCEPT ![d] = 0]
    BY <1>3 DEF Reopen
  <2>2. FileOf \in [Filp -> File]
    BY RdwtAssumption
  <2>3. ASSUME NEW e \in Filp PROVE fd_pos'[e] <= i_size[FileOf[e]]
    <3>1. fd_pos'[e] = IF e = d THEN 0 ELSE fd_pos[e]
      BY <2>1 DEF RInv
    <3>2. i_size[FileOf[e]] \in Nat /\ fd_pos[e] <= i_size[FileOf[e]]
      BY <2>2 DEF RInv
    <3> QED
      BY <3>1, <3>2
  <2> QED
    BY <2>1, <2>3 DEF RInv
<1>4. CASE UNCHANGED rdwtvars
  BY <1>4 DEF rdwtvars, RInv
<1>5. \A d \in Filp : FileOf[d] \in File
  BY RdwtAssumption
<1> QED
  BY <1>1, <1>2, <1>3, <1>4, <1>5 DEF RdwtNext

(* No descriptor is ever past its file's end.                              *)
THEOREM RdwtInvariance == RdwtSpec => []RInv
<1> QED
  BY InitRInv, NextRInv, PTL DEF RdwtSpec

(* StraightOn: do_rdwt() moves the bytes that follow the position, in      *)
(* order, and no others, whatever the sizes of sectors, buffer and request *)
(* and even where a file has outgrown its sectors (read_write.c:73-114).   *)
THEOREM RequestsGoStraightOn == RdwtSpec => StraightOn
<1> DEFINE A == \A d \in Filp : StraightOnStep(d)
<1>1. ASSUME RInv, [RdwtNext]_rdwtvars PROVE [A]_rdwtvars
  <2>1. ASSUME NEW d \in Filp, NEW e \in Filp, NEW n \in Nat, d # e, Advance(d, n),
               DOMAIN partition' = DOMAIN partition
        PROVE  StraightOnStep(e)
    <3>1. fd_pos'[e] = fd_pos[e] /\ fd_pos[e] \in Nat
      BY <1>1, <2>1, Advances DEF RInv
    <3> QED
      BY <3>1 DEF StraightOnStep
  <2>2. \A f \in File, at \in Nat : Address(f, at) \in Nat
    BY RdwtAssumption DEF Address
  <2>3. \A d \in Filp : FileOf[d] \in File /\ fd_pos[d] \in Nat
    BY <1>1, RdwtAssumption DEF RInv
  <2>4. ASSUME NEW d \in Filp, NEW len \in Lens, Read(d, len) PROVE A
    <3> DEFINE from == Address(FileOf[d], fd_pos[d])
    <3>1. PICK n \in 1..len :
             /\ Advance(d, n) /\ partition' = partition
             /\ buf' = [k \in 1..n |-> partition[from + k - 1]]
      BY <1>1, <2>4, ReadDoes
    <3>2. n \in Nat /\ from \in Nat
      BY <2>2, <2>3, RdwtAssumption
    <3>3. fd_pos'[d] - fd_pos[d] = n
      BY <1>1, <2>3, <3>1, <3>2, Advances
    <3>4. Len(buf') = n
      BY <3>1, <3>2, LenIs
    <3> HIDE DEF from
    <3>5. \A k \in 0..(n - 1) : buf'[k + 1] = partition'[from + k]
      <4> SUFFICES ASSUME NEW k \in 0..(n - 1) PROVE buf'[k + 1] = partition'[from + k]
        OBVIOUS
      <4>1. k + 1 \in 1..n /\ from + (k + 1) - 1 = from + k
        BY <3>2
      <4> QED
        BY <3>1, <4>1
    <3>6. StraightOnStep(d)
      BY <3>1, <3>2, <3>3, <3>4, <3>5 DEF StraightOnStep, from
    <3> QED
      BY <2>1, <3>1, <3>2, <3>6
  <2>5. ASSUME NEW d \in Filp, NEW data \in Data, Write(d, data), Fits(FileOf[d], i_size) PROVE A
    <3> DEFINE from == Address(FileOf[d], fd_pos[d])
    <3>1. PICK n \in 1..Len(data) :
             /\ Advance(d, n) /\ buf' = data
             /\ partition' = [a \in DOMAIN partition |->
                  IF a \in from..(from + n - 1) THEN data[a - from + 1] ELSE partition[a]]
      BY <1>1, <2>5, WriteDoes
    <3>2. n \in Nat /\ from \in Nat /\ n <= Len(buf')
      BY <2>2, <2>3, <3>1, DataLen
    <3>3. fd_pos'[d] - fd_pos[d] = n
      <4>1. DOMAIN partition' = DOMAIN partition
        BY <3>1
      <4> QED
        BY <1>1, <2>3, <3>1, <3>2, <4>1, Advances
    <3> HIDE DEF from
    <3>4. ASSUME NEW k \in 0..(n - 1), from + k \in DOMAIN partition
          PROVE  buf'[k + 1] = partition'[from + k]
      <4>1. from + k \in from..(from + n - 1) /\ (from + k) - from + 1 = k + 1
        BY <3>2
      <4> QED
        BY <3>1, <3>4, <4>1
    <3>5. \A a \in DOMAIN partition : partition'[a] # partition[a] => a \in from..(from + n - 1)
      BY <3>1
    <3>6. StraightOnStep(d)
      BY <3>1, <3>2, <3>3, <3>4, <3>5 DEF StraightOnStep, from
    <3> QED
      BY <2>1, <3>1, <3>2, <3>6
  <2>6. ASSUME NEW d \in Filp, Reopen(d) PROVE A
    <3>1. \A e \in Filp : fd_pos'[e] = IF e = d THEN 0 ELSE fd_pos[e]
      BY <1>1, <2>6 DEF Reopen, RInv
    <3> QED
      BY <2>3, <3>1 DEF StraightOnStep
  <2> HIDE DEF A
  <2> QED
    BY <1>1, <2>3, <2>4, <2>5, <2>6 DEF RdwtNext
<1>2. RdwtSpec => [][A]_rdwtvars
  BY <1>1, RdwtInvariance, PTL DEF RdwtSpec
<1> QED
  BY <1>2 DEF StraightOn

-----------------------------------------------------------------------------
(* do_rdwt() implements Files.                                             *)

(* What Files sees of a file.                                              *)
LEMMA Contents ==
  ASSUME RInv, NEW f \in File
  PROVE  /\ Content(f) = [k \in 1..i_size[f] |-> partition[Address(f, k - 1)]]
         /\ Len(Content(f)) = i_size[f]
<1>1. Content(f) = [k \in 1..i_size[f] |-> partition[Address(f, k - 1)]] /\ i_size[f] \in Nat
  BY DEF Content, RInv
<1> QED
  BY <1>1, LenIs

(* A READ keeps the promise of Files,                                      *)
LEMMA ReadPromised ==
  ASSUME RInv, NEW d \in Filp, NEW len \in Lens, Read(d, len)
  PROVE  Promise!Read(d, len)
<1> DEFINE f == FileOf[d]
           pos == fd_pos[d]
           C == [g \in File |-> Content(g)]
           C1 == [g \in File |-> Content(g)']
           from == Address(f, pos)
<1>0. C' = C1
  OBVIOUS
<1>1. f \in File /\ len \in Nat \ {0} /\ pos \in Nat /\ pos <= i_size[f]
      /\ \A g \in File : i_size[g] \in Nat
  BY RdwtAssumption DEF RInv
<1>2. PICK n \in 1..len :
         /\ Advance(d, n) /\ partition' = partition
         /\ n = len \/ pos + n > i_size[f]
         /\ buf' = [k \in 1..n |-> partition[from + k - 1]]
  BY ReadDoes
<1>3. n \in Nat \ {0}
  BY <1>1
<1>4. /\ RInv'
      /\ fd_pos'[d] = pos + n /\ \A e \in Filp \ {d} : fd_pos'[e] = fd_pos[e]
      /\ i_size'[f] = IF pos + n > i_size[f] THEN pos + n ELSE i_size[f]
      /\ \A g \in File : g # f => i_size'[g] = i_size[g]
  BY <1>2, <1>3, Advances
<1>5. \A g \in File : /\ C[g] = [k \in 1..i_size[g] |-> partition[Address(g, k - 1)]]
                      /\ Len(C[g]) = i_size[g]
  BY Contents
<1>6. \A g \in File : /\ C1[g] = [k \in 1..i_size'[g] |-> partition[Address(g, k - 1)]]
                      /\ Len(C1[g]) = i_size'[g]
  <2> SUFFICES ASSUME NEW g \in File
               PROVE  /\ C1[g] = [k \in 1..i_size'[g] |-> partition[Address(g, k - 1)]]
                      /\ Len(C1[g]) = i_size'[g]
    OBVIOUS
  <2>1. C1[g] = [k \in 1..i_size'[g] |-> partition[Address(g, k - 1)]]
    BY <1>2 DEF Content
  <2>2. i_size'[g] \in Nat
    BY <1>4 DEF RInv
  <2> HIDE DEF C1
  <2> QED
    BY <2>1, <2>2, LenIs
<1>7. \A k \in 1..n : from + k - 1 = Address(f, (pos + k) - 1)
  <2>1. i_start_sect[f] * SECTOR_SIZE \in Nat
    BY <1>1, RdwtAssumption
  <2> QED
    BY <1>1, <1>3, <2>1 DEF Address
<1> HIDE DEF C, C1, f, pos, from
<1>8. i_size'[f] \in Nat /\ i_size[f] <= i_size'[f] /\ pos + n <= i_size'[f]
  BY <1>1, <1>3, <1>4
<1>9. \A g \in File : IF g = f THEN Len(C[g]) <= Len(C1[g]) /\ SubSeq(C1[g], 1, Len(C[g])) = C[g]
                      ELSE C1[g] = C[g]
  <2>1. SubSeq(C1[f], 1, i_size[f]) = [i \in 1..(i_size[f] - 1 + 1) |-> C1[f][1 + i - 1]]
    BY <1>1, SubSeqIs
  <2>2. i_size[f] - 1 + 1 = i_size[f] /\ \A i \in 1..i_size[f] : 1 + i - 1 = i
    BY <1>1
  <2>3. \A i \in 1..i_size[f] : C1[f][i] = partition[Address(f, i - 1)]
    <3> SUFFICES ASSUME NEW i \in 1..i_size[f] PROVE C1[f][i] = partition[Address(f, i - 1)]
      OBVIOUS
    <3>1. i \in 1..i_size'[f]
      BY <1>1, <1>8
    <3> QED
      BY <1>1, <1>6, <3>1
  <2>4. SubSeq(C1[f], 1, i_size[f]) = [i \in 1..i_size[f] |-> partition[Address(f, i - 1)]]
    BY <2>1, <2>2, <2>3
  <2>5. SubSeq(C1[f], 1, Len(C[f])) = C[f] /\ Len(C[f]) <= Len(C1[f])
    BY <1>1, <1>5, <1>6, <1>8, <2>4
  <2>6. ASSUME NEW g \in File, g # f PROVE C1[g] = C[g]
    <3>1. i_size'[g] = i_size[g]
      BY <1>4, <2>6
    <3> QED
      BY <1>5, <1>6, <3>1
  <2> QED
    BY <2>5, <2>6
<1>10. pos + len <= Len(C[f]) => C1[f] = C[f] /\ n = len
  <2>1. ASSUME pos + len <= i_size[f] PROVE i_size'[f] = i_size[f] /\ n = len
    BY <1>1, <1>2, <1>3, <1>4, <2>1
  <2> QED
    BY <1>1, <1>5, <1>6, <2>1
<1>11. Len(C[f]) <= pos + n \/ n = len
  <2>1. Len(C[f]) = i_size[f]
    BY <1>1, <1>5
  <2> QED
    BY <1>1, <1>2, <1>3, <2>1
<1>12. buf' = SubSeq(C1[f], pos + 1, pos + n)
  <2>1. SubSeq(C1[f], pos + 1, pos + n) =
          [i \in 1..((pos + n) - (pos + 1) + 1) |-> C1[f][(pos + 1) + i - 1]]
    <3>1. pos + 1 \in Nat /\ pos + n \in Nat /\ pos + 1 <= (pos + n) + 1
      BY <1>1, <1>3
    <3> QED
      BY <3>1, SubSeqIs
  <2>2. (pos + n) - (pos + 1) + 1 = n /\ \A i \in 1..n : (pos + 1) + i - 1 = pos + i
    BY <1>1, <1>3
  <2>3. \A i \in 1..n : C1[f][pos + i] = partition[from + i - 1]
    <3> SUFFICES ASSUME NEW i \in 1..n PROVE C1[f][pos + i] = partition[from + i - 1]
      OBVIOUS
    <3>1. pos + i \in 1..i_size'[f]
      BY <1>1, <1>3, <1>8
    <3>2. C1[f] = [k \in 1..i_size'[f] |-> partition[Address(f, k - 1)]]
      BY <1>1, <1>6
    <3>3. C1[f][pos + i] = partition[Address(f, (pos + i) - 1)]
      BY <3>1, <3>2
    <3> QED
      BY <1>7, <3>3
  <2> QED
    BY <1>2, <2>1, <2>2, <2>3
<1>13. fd_pos'[d] - fd_pos[d] = n
  BY <1>1, <1>3, <1>4 DEF pos
<1>14. n \in 0..len
  BY <1>1
<1> QED
  BY <1>0, <1>4, <1>9, <1>10, <1>11, <1>12, <1>13, <1>14
     DEF Promise!Read, Promise!Prefix, C, f, pos

(* and so does a WRITE that stays within the file's sectors.               *)
LEMMA WritePromised ==
  ASSUME RInv, NEW d \in Filp, NEW data \in Data, Write(d, data),
         \A g \in File : Fits(g, i_size) /\ Fits(g, i_size')
  PROVE  Promise!Write(d, data)
<1> DEFINE f == FileOf[d]
           pos == fd_pos[d]
           C == [g \in File |-> Content(g)]
           C1 == [g \in File |-> Content(g)']
           from == Address(f, pos)
           len == Len(data)
<1>0. C' = C1
  OBVIOUS
<1>1. f \in File /\ len \in Nat \ {0} /\ pos \in Nat /\ pos <= i_size[f]
      /\ \A g \in File : i_size[g] \in Nat /\ i_size[g] <= Space(g) /\ i_size'[g] <= Space(g)
  BY DataLen, RdwtAssumption DEF RInv, Fits
<1>2. PICK n \in 1..len :
         /\ Advance(d, n) /\ buf' = data
         /\ n = len \/ pos + n > Space(f)
         /\ partition' = [a \in DOMAIN partition |->
              IF a \in from..(from + n - 1) THEN data[a - from + 1] ELSE partition[a]]
  <2>1. Fits(FileOf[d], i_size)
    BY <1>1
  <2> QED
    BY <2>1, WriteDoes
<1>3. Space(f) \in Nat
  BY <1>1, RdwtAssumption DEF Space
<1>4. /\ RInv' /\ fd_pos' = [fd_pos EXCEPT ![d] = pos + n]
      /\ i_size'[f] = IF pos + n > i_size[f] THEN pos + n ELSE i_size[f]
      /\ \A g \in File : g # f => i_size'[g] = i_size[g]
  <2>1. DOMAIN partition' = DOMAIN partition /\ n \in Nat
    BY <1>1, <1>2
  <2> QED
    BY <1>2, <2>1, Advances DEF Advance
<1>5. n = len /\ pos + n <= Space(f)
  <2>1. pos + n <= i_size'[f] /\ i_size'[f] <= Space(f) /\ i_size'[f] \in Nat
    BY <1>1, <1>2, <1>4
  <2> QED
    BY <1>1, <1>2, <1>3, <2>1
<1>6. \A g \in File : /\ C[g] = [k \in 1..i_size[g] |-> partition[Address(g, k - 1)]]
                      /\ Len(C[g]) = i_size[g]
  BY Contents
<1>7. \A g \in File : C1[g] = [k \in 1..i_size'[g] |-> partition'[Address(g, k - 1)]]
  BY DEF Content
<1>8. DOMAIN partition = 0..(PartSects * SECTOR_SIZE - 1)
  BY DEF RInv
(* Addresses of its own bytes.                                             *)
<1>9. \A k \in Nat : Address(f, k) = from + k - pos /\ from \in Nat /\ Address(f, k) \in Nat
  <2> DEFINE first == i_start_sect[f] * SECTOR_SIZE
  <2>1. first \in Nat /\ pos \in Nat
    BY <1>1, RdwtAssumption
  <2>2. from = first + pos /\ \A k \in Nat : Address(f, k) = first + k
    BY DEF Address
  <2> HIDE DEF first, from, f, pos
  <2> QED
    BY <2>1, <2>2
<1> HIDE DEF C, C1, f, pos, from, len
<1>10. ASSUME NEW g \in File, g # f PROVE C1[g] = C[g]
  <2>1. i_size'[g] = i_size[g] /\ i_size[g] \in Nat /\ i_size[g] <= Space(g)
    BY <1>1, <1>4, <1>10
  <2>2. Space(g) \in Nat
    BY RdwtAssumption DEF Space
  <2>3. ASSUME NEW k \in 1..i_size[g]
        PROVE  partition'[Address(g, k - 1)] = partition[Address(g, k - 1)]
    <3>1. k - 1 \in Nat /\ k - 1 < Space(g)
      BY <2>1, <2>2
    <3>2. /\ Address(g, k - 1) \in 0..(PartSects * SECTOR_SIZE - 1)
          /\ \A h \in File \ {g} : \A x \in Nat : x < Space(h) => Address(h, x) # Address(g, k - 1)
      BY <3>1, OwnBytes
    <3>3. \A x \in Nat : x < Space(f) => Address(f, x) # Address(g, k - 1)
      BY <1>1, <1>10, <3>2
    <3> DEFINE a == Address(g, k - 1)
    <3>4. a \in DOMAIN partition /\ a \in Nat
      BY <1>8, <3>2
    <3>5. ASSUME a \in from..(from + n - 1) PROVE FALSE
      <4> DEFINE x == a - from + pos
      <4>1. x \in Nat /\ x < Space(f) /\ from + x - pos = a
        BY <1>1, <1>2, <1>3, <1>5, <1>9, <3>4, <3>5
      <4> HIDE DEF x, a
      <4>2. Address(f, x) = a
        BY <1>9, <4>1
      <4> QED
        BY <3>3, <4>1, <4>2 DEF a
    <3> HIDE DEF a
    <3>6. partition'[a] = partition[a]
      BY <1>2, <3>4, <3>5
    <3> QED
      BY <3>6 DEF a
  <2>4. C1[g] = [k \in 1..i_size[g] |-> partition'[Address(g, k - 1)]]
    BY <1>7, <2>1
  <2>5. C1[g] = [k \in 1..i_size[g] |-> partition[Address(g, k - 1)]]
    BY <2>3, <2>4
  <2> QED
    BY <1>6, <2>5
<1>11. C1[f] = [k \in 1..(IF pos + len > Len(C[f]) THEN pos + len ELSE Len(C[f])) |->
                  IF k \in (pos + 1)..(pos + len) THEN data[k - pos] ELSE C[f][k]]
  <2>1. Len(C[f]) = i_size[f] /\ C[f] = [k \in 1..i_size[f] |-> partition[Address(f, k - 1)]]
    BY <1>1, <1>6
  <2>2. i_size'[f] = IF pos + len > Len(C[f]) THEN pos + len ELSE Len(C[f])
    BY <1>4, <1>5, <2>1
  <2>3. ASSUME NEW k \in 1..i_size'[f]
        PROVE  partition'[Address(f, k - 1)] =
                 IF k \in (pos + 1)..(pos + len) THEN data[k - pos] ELSE C[f][k]
    <3> DEFINE a == Address(f, k - 1)
    <3>1. k - 1 \in Nat /\ k - 1 < Space(f) /\ k \in Nat
      BY <1>1, <1>3, <1>4, <1>5
    <3>2. a = from + (k - 1) - pos /\ a \in Nat /\ from \in Nat
      BY <1>9, <3>1
    <3>3. a \in DOMAIN partition
      BY <1>1, <1>8, <3>1, OwnBytes
    <3> HIDE DEF a
    <3>4. partition'[a] = IF a \in from..(from + n - 1) THEN data[a - from + 1] ELSE partition[a]
      BY <1>2, <3>3
    <3>5. CASE k \in (pos + 1)..(pos + len)
      <4>1. a \in from..(from + n - 1) /\ a - from + 1 = k - pos
        BY <1>1, <1>5, <3>1, <3>2, <3>5
      <4> QED
        BY <3>4, <3>5, <4>1 DEF a
    <3>6. CASE k \notin (pos + 1)..(pos + len)
      <4>1. a \notin from..(from + n - 1)
        BY <1>1, <1>5, <3>1, <3>2, <3>6
      <4>2. k \in 1..i_size[f]
        BY <1>1, <1>4, <1>5, <3>1, <3>6
      <4>3. C[f][k] = partition[Address(f, k - 1)]
        BY <2>1, <4>2
      <4> QED
        BY <3>4, <3>6, <4>1, <4>3 DEF a
    <3> QED
      BY <3>5, <3>6
  <2>4. C1[f] = [k \in 1..i_size'[f] |-> partition'[Address(f, k - 1)]]
    BY <1>1, <1>7
  <2>5. C1[f] = [k \in 1..i_size'[f] |->
                   IF k \in (pos + 1)..(pos + len) THEN data[k - pos] ELSE C[f][k]]
    BY <2>3, <2>4
  <2> QED
    BY <2>2, <2>5
<1>12. C1 = [C EXCEPT ![f] = C1[f]]
  <2>1. DOMAIN C = File /\ DOMAIN C1 = File /\ C1 = [g \in File |-> C1[g]]
    BY DEF C, C1
  <2> DEFINE E == [C EXCEPT ![f] = C1[f]]
  <2>2. E = [g \in File |-> C1[g]]
    BY <1>1, <1>10, <2>1
  <2> HIDE DEF E
  <2>3. C1 = E
    BY <2>1, <2>2
  <2> QED
    BY <2>3 DEF E
<1>13. C' = [C EXCEPT ![FileOf[d]] = Promise!Overlay(@, fd_pos[d], data)]
  BY <1>0, <1>1, <1>11, <1>12 DEF Promise!Overlay, f, pos, len
<1>14. fd_pos' = [fd_pos EXCEPT ![d] = @ + Len(data)]
  BY <1>4, <1>5 DEF pos, len
<1> QED
  BY <1>2, <1>13, <1>14 DEF Promise!Write, C

(* ImplementsFiles: do_rdwt() implements Files, for any files that lie     *)
(* apart on the partition, any descriptors on them, any sizes of sectors   *)
(* and buffer: the initial state maps to an initial state, and each        *)
(* request that stays within the sectors of its file to a step of Files.   *)
THEOREM FilesPromiseKept == RdwtSpec => ImplementsFiles
<1>1. RdwtInit => Promise!Init
  <2> SUFFICES ASSUME RdwtInit PROVE Promise!Init
    OBVIOUS
  <2>1. \A f \in File : Content(f) = << >>
    BY DEF RdwtInit, Content
  <2>2. fd_pos = [d \in Filp |-> 0] /\ buf = << >>
    BY DEF RdwtInit
  <2> QED
    BY <2>1, <2>2 DEF Promise!Init
<1> DEFINE A == (\A f \in File : Fits(f, i_size')) => Promise!Next
<1>2. ASSUME RInv, [RdwtNext]_rdwtvars PROVE [A]_rdwtvars
  <2>1. ASSUME NEW d \in Filp, NEW len \in Lens, Read(d, len) PROVE Promise!Next
    BY <1>2, <2>1, ReadPromised DEF Promise!Next
  <2>2. ASSUME NEW d \in Filp, NEW data \in Data, Write(d, data),
               \A f \in File : Fits(f, i_size)
        PROVE  A
    BY <1>2, <2>2, WritePromised DEF Promise!Next
  <2>3. ASSUME NEW d \in Filp, Reopen(d) PROVE Promise!Next
    <3>1. \A f \in File : Content(f)' = Content(f)
      BY <2>3 DEF Reopen, Content
    <3>2. [f \in File |-> Content(f)]' = [f \in File |-> Content(f)]
      BY <3>1
    <3> QED
      BY <2>3, <3>2 DEF Reopen, Promise!Reopen, Promise!Next
  <2> QED
    BY <1>2, <2>1, <2>2, <2>3 DEF RdwtNext
<1>3. RdwtSpec => [][A]_rdwtvars
  BY <1>2, RdwtInvariance, PTL DEF RdwtSpec
<1> QED
  BY <1>1, <1>3 DEF ImplementsFiles, RdwtSpec
=============================================================================
