------------------------------- MODULE Fs -------------------------------
(***************************************************************************)
(* TASK_FS: opening, creating, closing, removing and examining files, and  *)
(* what fork() and exit() do to open files.                                *)
(*                                                                         *)
(* FS answers one request at a time and waits for the disk inside it, so a *)
(* request is one step.  The only concurrency is with MM, which copies a   *)
(* parent's filp[] into the child before it tells FS of the fork.          *)
(*                                                                         *)
(* Sectors are numbered as the bits of the sector map, bit 0 being         *)
(* reserved.  File contents, fd_pos and i_size of regular files are        *)
(* modelled in FsRdwt; here only the directory has a size, counted in      *)
(* entries.  The directory is a file to READ and WRITE, too: what they do  *)
(* to it is modelled here, what they do to the caller's buffer is not.     *)
(***************************************************************************)
EXTENDS Naturals, FiniteSets, FiniteSetsExt, Functions, TLC

CONSTANTS
  Proc, First,   \* processes that may hold files, the one alive at boot
  New,           \* names of files that mkfs() did not make
  NR_FILES, NR_FILE_DESC, NR_INODE,   \* sizes of the three tables
  NrInodes,      \* inodes on the disk
  NR_DEFAULT_FILE_SECTS,
  InstallBit, InstallSects,           \* where cmd.tar lies
  NrSects,       \* bits of the sector map
  DirCap,        \* bound: entries the directory may grow to
  MaxLeaked,     \* bound: references lost by unlink()
  Scribbles,     \* bound: which entries write() puts into the directory, and where
  MaxScribbles   \* bound: how many of them

ASSUME FsAssumption ==
  /\ IsFiniteSet(Proc) /\ First \in Proc
  /\ {NR_FILES, NR_FILE_DESC, NR_INODE, NR_DEFAULT_FILE_SECTS} \subseteq Nat \ {0}
  /\ NrInodes \in Nat /\ NrInodes >= 3
  /\ {InstallBit, InstallSects, NrSects, DirCap} \subseteq Nat /\ DirCap >= 3
  /\ InstallBit > NR_DEFAULT_FILE_SECTS /\ NrSects >= InstallBit + InstallSects

ROOT_INODE == 1
TTY_INODE == 2
CMD_INODE == 3
Inode == 1..NrInodes
Fd == 1..NR_FILES
Desc == 1..NR_FILE_DESC
Slot == 1..NR_INODE
Bit == 0..(NrSects - 1)
Path == {"/", ".", "dev_tty0", "cmd.tar"} \cup New
NoEntry == [nr |-> 0, name |-> ""]
NoInode == [mode |-> "none", start |-> 0, nr |-> 0]
FreeInode == [num |-> 0, cnt |-> 0, i |-> NoInode]

VARIABLES
  filp,          \* per process and fd: a descriptor, or 0
  f_desc_table,  \* descriptor -> [inode: a slot or 0, cnt]
  inode_table,   \* slot -> [num, cnt, i: the cached inode]
  imap, smap,    \* bits that are set on the disk
  dinode,        \* inode_array on the disk
  dir,           \* the root directory's entries
  dir_size,      \* i_size of the root directory, in entries
  alive,         \* processes that can make calls
  forking,       \* {<<parent, child>>}: filp[] copied, FS not told yet
  leaked,        \* slot -> references that nobody holds any more
  scribbled,     \* entries of the directory that write() has overwritten
  panicked       \* a panic() or a failed assertion has stopped FS

tables == <<filp, f_desc_table, inode_table>>
disk == <<imap, smap, dinode, dir, dir_size>>
vars == <<tables, disk, alive, forking, leaked, scribbled, panicked>>

Run(start, n) == start..(start + n - 1)

\* mkfs() and init_fs(): the root directory's inode stays in the table.
Init ==
  /\ filp = [p \in Proc |-> [f \in Fd |-> 0]]
  /\ f_desc_table = [d \in Desc |-> [inode |-> 0, cnt |-> 0]]
  /\ dinode = [n \in Inode |->
       CASE n = ROOT_INODE -> [mode |-> "directory", start |-> 1, nr |-> NR_DEFAULT_FILE_SECTS]
         [] n = TTY_INODE -> [mode |-> "char", start |-> 0, nr |-> 0]
         [] n = CMD_INODE -> [mode |-> "regular", start |-> InstallBit, nr |-> InstallSects]
         [] OTHER -> NoInode]
  /\ inode_table = [s \in Slot |->
       IF s = 1 THEN [num |-> ROOT_INODE, cnt |-> 1, i |-> dinode[ROOT_INODE]] ELSE FreeInode]
  /\ imap = 1..3
  /\ smap = {0} \cup Run(1, NR_DEFAULT_FILE_SECTS) \cup Run(InstallBit, InstallSects)
  /\ dir = [e \in 1..DirCap |->
       CASE e = 1 -> [nr |-> ROOT_INODE, name |-> "."]
         [] e = 2 -> [nr |-> TTY_INODE, name |-> "dev_tty0"]
         [] e = 3 -> [nr |-> CMD_INODE, name |-> "cmd.tar"]
         [] OTHER -> NoEntry]
  /\ dir_size = 3
  /\ alive = {First}
  /\ forking = {}
  /\ leaked = [s \in Slot |-> 0]
  /\ scribbled = 0
  /\ panicked = FALSE

-----------------------------------------------------------------------------
(* The helpers of fs/misc.c and fs/main.c.                                 *)

\* The search looks at one entry more than the directory has, but at none of
\* an empty one, which has no sectors.
Match(x) ==
  {e \in 1..DirCap : dir_size > 0 /\ e <= dir_size + 1 /\ dir[e].name = x}

search_file(x) ==
  IF x = "/" THEN ROOT_INODE
  ELSE IF Match(x) = {} THEN 0 ELSE dir[Min(Match(x))].nr

Cached(n) == {s \in Slot : inode_table[s].cnt > 0 /\ inode_table[s].num = n}
FreeSlots == {s \in Slot : inode_table[s].cnt = 0}
InodeTableFull(n) == Cached(n) = {} /\ FreeSlots = {}
SlotFor(n) == Min(IF Cached(n) # {} THEN Cached(n) ELSE FreeSlots)

\* The table and, with SlotFor(n), the slot that get_inode(n) returns.
get_inode(n) ==
  [inode_table EXCEPT ![SlotFor(n)] =
     IF Cached(n) # {} THEN [num |-> n, cnt |-> @.cnt + 1, i |-> @.i]
                       ELSE [num |-> n, cnt |-> 1, i |-> dinode[n]]]

\* k references fewer.  The fields of a free slot are never read: clear them.
Less(entry, k) ==
  IF entry.cnt = k THEN FreeInode ELSE [entry EXCEPT !.cnt = @ - k]

put_inode(table, s) == [table EXCEPT ![s] = Less(@, 1)]

panic ==
  /\ panicked' = TRUE
  /\ UNCHANGED <<tables, disk, alive, forking, leaked, scribbled>>

\* A process that waits for MM's answer to a fork() asks FS nothing.
MayCall(p) == ~panicked /\ p \in alive /\ \A fk \in forking : fk[1] # p

-----------------------------------------------------------------------------
(* OPEN *)

FreeFds(p) == {f \in Fd : filp[p][f] = 0}
FreeDescs == {d \in Desc : f_desc_table[d].inode = 0}

\* The first free filp[] and the first free descriptor now refer to slot s.
Connect(p, s) ==
  /\ filp' = [filp EXCEPT ![p][Min(FreeFds(p))] = Min(FreeDescs)]
  /\ f_desc_table' = [f_desc_table EXCEPT ![Min(FreeDescs)] = [inode |-> s, cnt |-> 1]]

NoRoom(p) == FreeFds(p) = {} \/ FreeDescs = {}

\* Every open() looks for a free filp[] and descriptor before anything else.
OpenPanics(p) == MayCall(p) /\ NoRoom(p) /\ panic

\* Mutant of OpenFails: nobody asserts that the inode is one of a file.
OnlyFullTable(n) == InodeTableFull(n)

\* An entry may name an inode that is free once the directory was written to.
OpenFails(n) == InodeTableFull(n) \/ dinode[n].mode = "none"

do_open(p, x) ==
  LET n == search_file(x) IN
  /\ MayCall(p) /\ ~NoRoom(p) /\ n # 0
  /\ IF OpenFails(n) THEN panic
     ELSE /\ Connect(p, SlotFor(n))
          /\ inode_table' = get_inode(n)
          /\ UNCHANGED <<disk, alive, forking, leaked, scribbled, panicked>>

FirstFree == Min(Bit \ smap)
\* Mutant of SmapRefuses: no check that the bits after the first are free.
OnlyEndOfMap == Bit \ smap = {} \/ NrSects \in Run(FirstFree, NR_DEFAULT_FILE_SECTS)
SmapRefuses ==
  Bit \ smap = {} \/ \E b \in Run(FirstFree, NR_DEFAULT_FILE_SECTS) : b \in smap \cup {NrSects}

\* The entry new_dir_entry() writes: the first free one, or the one after
\* the last.
FreeEntries == {e \in 1..dir_size : dir[e].nr = 0}
NewEntry == IF FreeEntries # {} THEN Min(FreeEntries) ELSE dir_size + 1

\* open() with O_CREAT of a file that exists returns -1 and changes nothing.
\* new_inode() counts from one whoever held the slot before: a refused
\* unlink() of an entry that named a free inode.
create_file(p, x) ==
  LET n == Min(Inode \ imap)
      new == [mode |-> "regular", start |-> FirstFree, nr |-> NR_DEFAULT_FILE_SECTS]
  IN
  /\ MayCall(p) /\ ~NoRoom(p)
  /\ x # "/" /\ search_file(x) = 0
  /\ Inode \ imap # {}            \* the sector map is full long before
  /\ NewEntry <= DirCap           \* bound
  /\ IF SmapRefuses \/ InodeTableFull(n) THEN panic
     ELSE /\ Connect(p, SlotFor(n))
          /\ inode_table' = [inode_table EXCEPT ![SlotFor(n)] = [num |-> n, cnt |-> 1, i |-> new]]
          /\ imap' = imap \cup {n}
          /\ smap' = smap \cup Run(FirstFree, NR_DEFAULT_FILE_SECTS)
          /\ dinode' = [dinode EXCEPT ![n] = new]
          /\ dir' = [dir EXCEPT ![NewEntry] = [nr |-> n, name |-> x]]
          /\ dir_size' = IF FreeEntries # {} THEN dir_size ELSE dir_size + 1
          /\ leaked' = [leaked EXCEPT ![SlotFor(n)] = 0]
          /\ UNCHANGED <<alive, forking, scribbled, panicked>>

-----------------------------------------------------------------------------
(* CLOSE, STAT, UNLINK *)

do_close(p, f) ==
  LET d == filp[p][f] IN
  /\ MayCall(p) /\ d # 0
  /\ inode_table' = put_inode(inode_table, f_desc_table[d].inode)
  /\ f_desc_table' = [f_desc_table EXCEPT ![d] =
       [inode |-> IF @.cnt = 1 THEN 0 ELSE @.inode, cnt |-> @.cnt - 1]]
  /\ filp' = [filp EXCEPT ![p][f] = 0]
  /\ UNCHANGED <<disk, alive, forking, leaked, scribbled, panicked>>

\* The inode is brought in and put back: only a full table shows.
do_stat(p, x) ==
  LET n == search_file(x) IN
  /\ MayCall(p) /\ n # 0
  /\ IF InodeTableFull(n) THEN panic
     ELSE /\ inode_table' = put_inode(get_inode(n), SlotFor(n))
          /\ UNCHANGED <<filp, f_desc_table, disk, alive, forking, leaked, scribbled, panicked>>

\* Mutant of Removable: open files may go.
AnyRegular(n) == dinode[n].mode = "regular"

\* Only a regular file that nobody has open is removed.
Removable(n) == dinode[n].mode = "regular" /\ Cached(n) = {}

\* The refusal keeps the reference that get_inode() has just taken.
UnlinkRefused(p, x) ==
  LET n == search_file(x) IN
  /\ MayCall(p) /\ x # "/" /\ n # 0
  /\ ~InodeTableFull(n) /\ ~Removable(n)
  /\ SumFunction(leaked) < MaxLeaked    \* bound
  /\ inode_table' = get_inode(n)
  /\ leaked' = [leaked EXCEPT ![SlotFor(n)] = @ + 1]
  /\ UNCHANGED <<filp, f_desc_table, disk, alive, forking, scribbled, panicked>>

Entries(n) == {e \in 1..dir_size : dir[e].nr = n}

\* The directory shrinks, when its last entry goes, to the number of entries
\* in use before it.
ShrunkSize(e) ==
  IF e = dir_size THEN Cardinality({k \in 1..(e - 1) : dir[k].nr # 0}) ELSE dir_size

do_unlink(p, x) ==
  LET n == search_file(x) IN
  /\ MayCall(p) /\ x # "/" /\ n # 0
  /\ InodeTableFull(n) \/ Removable(n)
  /\ IF \/ InodeTableFull(n)
        \/ ~(Run(dinode[n].start, dinode[n].nr) \subseteq smap)
        \/ n \notin imap
        \/ Entries(n) = {}
     THEN panic
     ELSE LET e == Min(Entries(n)) IN
          /\ imap' = imap \ {n}
          /\ smap' = smap \ Run(dinode[n].start, dinode[n].nr)
          /\ dinode' = [dinode EXCEPT ![n] = NoInode]
          /\ dir' = [dir EXCEPT ![e] = NoEntry]
          /\ dir_size' = ShrunkSize(e)
          /\ UNCHANGED <<tables, alive, forking, leaked, scribbled, panicked>>

-----------------------------------------------------------------------------
(* READ and WRITE of the directory: open() gives everybody a descriptor of  *)
(* it for both, and do_rdwt() takes it.                                     *)

RootFd(p, f) ==
  filp[p][f] # 0 /\ inode_table[f_desc_table[filp[p][f]].inode].num = ROOT_INODE

\* A READ moves fd_pos past the directory's end, up to that of a sector, and
\* the directory grows with it.
ReadRoot(p, f) ==
  /\ MayCall(p) /\ RootFd(p, f)
  /\ dir_size' \in dir_size..DirCap    \* bound
  /\ UNCHANGED <<tables, imap, smap, dinode, dir, alive, forking, leaked, scribbled, panicked>>

\* What a caller can write that reads as an entry of this disk.
AnyEntry == {NoEntry} \cup [nr : {0} \cup Inode, name : Path \ {"/"}]

\* A WRITE of any entry, at any place where fd_pos may be; a longer one is
\* several of these.
WriteRoot(p, f) ==
  /\ MayCall(p) /\ RootFd(p, f)
  /\ scribbled < MaxScribbles    \* bound
  /\ \E e \in 1..DirCap, w \in AnyEntry :
       /\ <<e, w>> \in Scribbles     \* bound
       /\ dir' = [dir EXCEPT ![e] = w]
       /\ dir_size' = IF e > dir_size THEN e ELSE dir_size
  /\ scribbled' = scribbled + 1
  /\ UNCHANGED <<tables, imap, smap, dinode, alive, forking, leaked, panicked>>

-----------------------------------------------------------------------------
(* fork() and exit() *)

\* do_fork(): the child's table entry, filp[] included, is its parent's.
ForkCopy(p, c) ==
  /\ MayCall(p) /\ c \notin alive /\ forking = {}
  /\ filp' = [filp EXCEPT ![c] = filp[p]]
  /\ forking' = {<<p, c>>}
  /\ UNCHANGED <<f_desc_table, inode_table, disk, alive, leaked, scribbled, panicked>>

Uses(p, d) == Cardinality({f \in Fd : filp[p][f] = d})
\* Mutant of UsesOfSlot: a file opened twice counts once.
UsesOnce(p, s) ==
  IF \E f \in Fd : filp[p][f] # 0 /\ f_desc_table[filp[p][f]].inode = s THEN 1 ELSE 0
UsesOfSlot(p, s) ==
  Cardinality({f \in Fd : filp[p][f] # 0 /\ f_desc_table[filp[p][f]].inode = s})

fs_fork(p, c) ==
  /\ ~panicked /\ <<p, c>> \in forking
  /\ f_desc_table' = [d \in Desc |-> [f_desc_table[d] EXCEPT !.cnt = @ + Uses(c, d)]]
  /\ inode_table' = [s \in Slot |-> [inode_table[s] EXCEPT !.cnt = @ + UsesOfSlot(c, s)]]
  /\ forking' = {}
  /\ alive' = alive \cup {c}
  /\ UNCHANGED <<filp, disk, leaked, scribbled, panicked>>

\* MM handles one fork() or exit() at a time.
fs_exit(p) ==
  /\ MayCall(p) /\ p # First /\ forking = {}
  /\ inode_table' = [s \in Slot |-> Less(inode_table[s], UsesOfSlot(p, s))]
  /\ f_desc_table' = [d \in Desc |->
       LET left == f_desc_table[d].cnt - Uses(p, d) IN
       [inode |-> IF left = 0 THEN 0 ELSE f_desc_table[d].inode, cnt |-> left]]
  /\ filp' = [filp EXCEPT ![p] = [f \in Fd |-> 0]]
  /\ alive' = alive \ {p}
  /\ UNCHANGED <<disk, forking, leaked, scribbled, panicked>>

Next ==
  \E p \in Proc :
    \/ OpenPanics(p)
    \/ \E x \in Path : \/ do_open(p, x) \/ create_file(p, x) \/ do_stat(p, x)
                       \/ do_unlink(p, x) \/ UnlinkRefused(p, x)
    \/ \E f \in Fd : do_close(p, f) \/ ReadRoot(p, f) \/ WriteRoot(p, f)
    \/ \E c \in Proc : ForkCopy(p, c) \/ fs_fork(p, c)
    \/ fs_exit(p)

Spec == Init /\ [][Next]_vars
-----------------------------------------------------------------------------
(* Properties.                                                             *)

TypeOK ==
  /\ filp \in [Proc -> [Fd -> {0} \cup Desc]]
  /\ f_desc_table \in [Desc -> [inode : {0} \cup Slot, cnt : Nat]]
  /\ DOMAIN inode_table = Slot
  /\ \A s \in Slot : inode_table[s].num \in {0} \cup Inode /\ inode_table[s].cnt \in Nat
  /\ imap \subseteq Inode /\ smap \subseteq Bit
  /\ DOMAIN dinode = Inode /\ DOMAIN dir = 1..DirCap /\ dir_size \in 0..DirCap
  /\ alive \subseteq Proc /\ Cardinality(forking) <= 1 /\ scribbled \in Nat

\* The open files FS has been told of.
Counted == {pf \in Proc \X Fd :
              filp[pf[1]][pf[2]] # 0 /\ \A fk \in forking : fk[2] # pf[1]}
Holders(d) == {pf \in Counted : filp[pf[1]][pf[2]] = d}

\* fd_cnt says how many processes share the descriptor, through every fork(),
\* exit() and close(), and a descriptor is in use exactly while it is shared
\* by somebody.
DescCounts ==
  \A d \in Desc : /\ f_desc_table[d].cnt = Cardinality(Holders(d))
                  /\ (f_desc_table[d].inode = 0) <=> (f_desc_table[d].cnt = 0)

\* i_cnt counts the open files of the inode, the root directory's own
\* reference and those that refused unlink()s have left behind, no more and no
\* less; and no inode is in the table twice.
InodeRefs ==
  /\ \A s \in Slot :
       inode_table[s].cnt =
         Cardinality({pf \in Counted : f_desc_table[filp[pf[1]][pf[2]]].inode = s})
           + leaked[s] + (IF s = 1 THEN 1 ELSE 0)
  /\ \A s, t \in Slot :
       inode_table[s].num = inode_table[t].num /\ inode_table[s].num # 0 => s = t

\* The two counts together, with every variable of its type.
CountsInv == TypeOK /\ DescCounts /\ InodeRefs

\* The inode and sector maps, the inode array and the table agree, whatever
\* the callers have written into the directory: a bit is set for exactly the
\* inodes in use, a sector belongs to exactly one file or is free, a cached
\* inode is the one on the disk, and one that somebody has open is in use.
DiskConsistent ==
  LET used == {n \in Inode : dinode[n].mode # "none"}
      sects(n) == IF dinode[n].mode = "char" THEN {} ELSE Run(dinode[n].start, dinode[n].nr)
  IN
  /\ imap = used
  /\ smap = {0} \cup UNION {sects(n) : n \in used}
  /\ \A m, n \in used : m # n => sects(m) \cap sects(n) = {}
  /\ \A s \in Slot : inode_table[s].cnt > 0 =>
       /\ inode_table[s].num \in Inode /\ inode_table[s].i = dinode[inode_table[s].num]
       /\ inode_table[s].cnt > leaked[s] => inode_table[s].num \in used

\* Every directory entry, those past i_size too, names an inode in use, and no
\* two name the same.  FS sees to it; a caller that writes to the directory
\* can undo it.
EntriesNameFiles ==
  \A e \in 1..DirCap : dir[e].nr # 0 =>
    /\ dinode[dir[e].nr].mode # "none"
    /\ \A k \in 1..DirCap : dir[k].nr = dir[e].nr => k = e

\* Between two requests the disk and FS's copies of it are in order, and as
\* long as nobody has written to a descriptor of "/", the directory is, too.
DiskInv == DiskConsistent /\ (scribbled = 0 => EntriesNameFiles)

\* As long as a process has a file open, whatever the others close, remove or
\* create, its descriptor means the same inode and that inode the same file:
\* also for a child FS has not been told of yet.
OpenFilesStay ==
  [][\A p \in Proc, f \in Fd :
       LET d == filp[p][f] IN
       d # 0 /\ filp'[p][f] = d =>
         LET s == f_desc_table[d].inode IN
         /\ f_desc_table'[d].inode = s
         /\ inode_table'[s].num = inode_table[s].num
         /\ dinode'[inode_table[s].num] = dinode[inode_table[s].num]]_vars

\* Creating or removing one file loses no other: every regular file on the
\* disk is still found under some path.
EveryFileFound ==
  \A n \in Inode : dinode[n].mode = "regular" => \E x \in Path : search_file(x) = n
=============================================================================
