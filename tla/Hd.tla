--------------------------------- MODULE Hd ---------------------------------
(***************************************************************************)
(* TASK_HD: the disk driver between FS's requests and the drive, over the  *)
(* message passing of Ipc.  The drive is modelled from how hd.c uses it:   *)
(* it interrupts when a sector can be read and when one has been written,  *)
(* and its count register holds CountMod values, 0 meaning CountMod.       *)
(* Of the disk's contents only the partition tables are modelled.          *)
(***************************************************************************)
EXTENDS Ipc, FiniteSetsExt

CONSTANTS
  HD, FS,
  CountMod,    \* 2^8: the values of the count register
  NR_PART_PER_DRIVE, NR_SUB_PER_PART, MAX_PRIM, MINOR_hd1a,
  Table,       \* sector -> the partition table it holds, <<[id, start, size], ...>>
  RootDevs,    \* bound: the partitions FS may have as its root
  Positions,   \* bound: where in the partition requests start
  Lens         \* bound: lengths of requests, in sectors

\* do_rdwt() asks for up to FSBUF_SIZE, 2048 sectors, at a time: eight times
\* what the count register holds.  Nobody compares the end of a request with
\* that of the partition.
ASSUME HdAssumption ==
  /\ Proc = {HD, FS} /\ HD # FS /\ IrqTask = {HD}
  /\ CountMod \in Nat \ {0} /\ Lens \subseteq Nat \ {0} /\ Positions \subseteq Nat

NO_PART == 0
EXT_PART == 5
NrSub == NR_PART_PER_DRIVE * NR_SUB_PER_PART

VARIABLES
  hd,       \* where TASK_HD is: [at, msg: the request, left: sectors]
  hd_info,  \* [open_cnt, primary, logical]: [base, size] of the partitions
  part,     \* the variables of partition(): [tbl, j, k, s]
  drive,    \* [at, op, left, lba]: "busy", "ready" (DRQ), "flush" or "idle";
            \* lba is the sector it moves next
  irq,      \* 1: the drive's interrupt has not been handled
  fs        \* FS: [at, did: the last request, dev: ROOT_DEV, geo]

ipcvars == <<p_flags, p_recvfrom, p_sendto, p_msg, q_sending, has_int_msg, mem, panic>>
taskvars == <<hd, hd_info, part>>
drivevars == <<drive, irq>>
hdvars == <<ipcvars, taskvars, drivevars, fs>>

Request(op, pos, n) == [op |-> op, pos |-> pos, cnt |-> n]
HdIdle == [at |-> "loop", msg |-> Request("none", 0, 0), left |-> 0]
DriveIdle == [at |-> "idle", op |-> "none", left |-> 0, lba |-> 0]
NoPart == [base |-> 0, size |-> 0]
NotReading == [tbl |-> <<>>, j |-> 0, k |-> 0, s |-> 0]

HdInit ==
  /\ Init
  /\ hd = HdIdle
  /\ hd_info = [open_cnt |-> 0, primary |-> [n \in 0..NR_PART_PER_DRIVE |-> NoPart],
                logical |-> [n \in 0..(NrSub - 1) |-> NoPart]]
  /\ part = NotReading
  /\ drive = DriveIdle
  /\ irq = 0
  /\ \E dev \in RootDevs : fs = [at |-> "run", did |-> "none", dev |-> dev, geo |-> NoPart]

-----------------------------------------------------------------------------
(* FS: init_fs() opens the device, mkfs() asks for its geometry and makes  *)
(* a file system of that size, then rw_sector() reads and writes sectors.  *)

FsSend(op, pos, n) ==
  /\ fs.at = "run"
  /\ CASE op = "OPEN" -> fs.did = "none"
       [] op = "IOCTL" -> fs.did = "OPEN"
       [] OTHER -> fs.did \notin {"none", "OPEN"}
  /\ Request(op, pos, n) \in Type    \* bound
  /\ SendStep(FS, HD, Request(op, pos, n))
  /\ fs' = [fs EXCEPT !.at = "sent", !.did = op]
  /\ UNCHANGED <<taskvars, drivevars>>

FsReceive ==
  /\ fs.at = "sent"
  /\ ReceiveStep(FS, HD)
  /\ fs' = [fs EXCEPT !.at = "wait"]
  /\ UNCHANGED <<taskvars, drivevars>>

FsReturn ==
  /\ fs.at = "wait" /\ CanCall(FS)
  /\ fs' = [fs EXCEPT !.at = "run"]
  /\ UNCHANGED <<ipcvars, taskvars, drivevars>>

-----------------------------------------------------------------------------
(* TASK_HD.                                                                *)

HdAt(s) == hd.at = s /\ CanCall(HD)
HdGot(ops) == HdAt("got") /\ mem[HD].type # HARD_INT /\ mem[HD].type.op \in ops

HdReceive ==
  /\ hd.at = "loop"
  /\ ReceiveStep(HD, ANY)
  /\ hd' = [hd EXCEPT !.at = "got"]
  /\ UNCHANGED <<hd_info, part, drivevars, fs>>

\* Mutant of CountReg: one sector fewer.
CountRegLess(n) == n - 1

\* The u8 that hd_cmd_out() writes, and the sectors the drive takes it for.
CountReg(n) == n % CountMod
Sectors(count) == IF count = 0 THEN CountMod ELSE count

\* waitfor(STATUS_BSY, 0) succeeds: the command goes out.
hd_cmd_out(op, lba, n) ==
  /\ drive.at = "idle"
  /\ drive' = [at |-> "busy", op |-> op, left |-> Sectors(CountReg(n)), lba |-> lba]

PartOf(dev) ==
  IF dev < MAX_PRIM THEN hd_info.primary[dev] ELSE hd_info.logical[(dev - MINOR_hd1a) % NrSub]

HdCommand ==
  LET m == mem[HD].type IN
  /\ HdGot({"READ", "WRITE"})
  /\ hd_cmd_out(m.op, PartOf(fs.dev).base + m.pos, m.cnt)
  /\ hd' = [at |-> IF m.op = "READ" THEN "wait" ELSE "drq", msg |-> m, left |-> m.cnt]
  /\ UNCHANGED <<ipcvars, hd_info, part, irq, fs>>

hd_ioctl ==
  /\ HdGot({"IOCTL"})
  /\ fs' = [fs EXCEPT !.geo = PartOf(fs.dev)]
  /\ hd' = [hd EXCEPT !.at = "reply", !.msg = mem[HD].type]
  /\ UNCHANGED <<ipcvars, hd_info, part, drivevars>>

\* interrupt_wait().
HdInterruptWait ==
  /\ hd.at = "wait"
  /\ ReceiveStep(HD, INTERRUPT)
  /\ hd' = [hd EXCEPT !.at = "awake"]
  /\ UNCHANGED <<hd_info, part, drivevars, fs>>

\* interrupt_wait(), with the drive's interrupt between the RECEIVE's look at
\* has_int_msg and its store of p_recvfrom (IpcPreempt): the interrupt is only
\* remembered, and HD sleeps.
HdInterruptLost ==
  /\ HdAt("wait") /\ irq = 1 /\ has_int_msg[HD] = 0
  /\ mem' = [mem EXCEPT ![HD].source = HD]
  /\ p_flags' = [p_flags EXCEPT ![HD] = {RECEIVING}]
  /\ p_msg' = [p_msg EXCEPT ![HD] = 1]
  /\ p_recvfrom' = [p_recvfrom EXCEPT ![HD] = INTERRUPT]
  /\ has_int_msg' = [has_int_msg EXCEPT ![HD] = 1]
  /\ irq' = 0
  /\ hd' = [hd EXCEPT !.at = "awake"]
  /\ UNCHANGED <<p_sendto, q_sending, panic, hd_info, part, drive, fs>>

\* One sector is done: the next one, or the answer.
SectorDone(at) == [hd EXCEPT !.left = @ - 1, !.at = IF hd.left = 1 THEN "reply" ELSE at]

\* The port takes whatever is there.
port_read ==
  drive' = IF drive.at = "ready"
           THEN [drive EXCEPT !.at = "busy", !.left = @ - 1, !.lba = @ + 1]
           ELSE drive

HdPortRead ==
  /\ HdAt("awake") /\ hd.msg.op = "READ"
  /\ hd' = SectorDone("wait")
  /\ port_read
  /\ UNCHANGED <<ipcvars, hd_info, part, irq, fs>>

\* Mutant of HdPortWrite: the last sector's interrupt is not waited for.
HdPortWriteAndReply ==
  /\ HdAt("drq") /\ drive.at = "ready"
  /\ drive' = [drive EXCEPT !.at = "flush"]
  /\ hd' = [hd EXCEPT !.at = IF hd.left = 1 THEN "reply" ELSE "wait"]
  /\ UNCHANGED <<ipcvars, hd_info, part, irq, fs>>

\* Mutant of HdPortWrite: the wait for DRQ is forgotten.
HdPortWriteAtOnce ==
  /\ HdAt("drq")
  /\ drive' = IF drive.at = "ready" THEN [drive EXCEPT !.at = "flush"] ELSE drive
  /\ hd' = [hd EXCEPT !.at = "wait"]
  /\ UNCHANGED <<ipcvars, hd_info, part, irq, fs>>

\* waitfor(STATUS_DRQ) succeeds: port_write() of a sector.
HdPortWrite ==
  /\ HdAt("drq") /\ drive.at = "ready"
  /\ drive' = [drive EXCEPT !.at = "flush"]
  /\ hd' = [hd EXCEPT !.at = "wait"]
  /\ UNCHANGED <<ipcvars, hd_info, part, irq, fs>>

HdWritten ==
  /\ HdAt("awake") /\ hd.msg.op = "WRITE"
  /\ hd' = SectorDone("drq")
  /\ UNCHANGED <<ipcvars, hd_info, part, drivevars, fs>>

\* Either waitfor() gives up after HD_TIMEOUT: panic().
HdTimeout ==
  /\ \/ (HdGot({"READ", "WRITE"}) \/ HdAt("table")) /\ drive.at # "idle"
     \/ HdAt("drq") /\ drive.at # "ready"
  /\ panic' = "TIMEOUT"
  /\ UNCHANGED <<p_flags, p_recvfrom, p_sendto, p_msg, q_sending, has_int_msg, mem,
                 taskvars, drivevars, fs>>

HdReply ==
  /\ hd.at = "reply"
  /\ SendStep(HD, FS, hd.msg)
  /\ hd' = HdIdle
  /\ UNCHANGED <<hd_info, part, drivevars, fs>>

-----------------------------------------------------------------------------
(* hd_open() and partition().                                              *)

hd_open ==
  /\ HdGot({"OPEN"})
  /\ hd_info' = [hd_info EXCEPT !.open_cnt = @ + 1]
  /\ hd' = [hd EXCEPT !.at = IF hd_info.open_cnt = 0 THEN "table" ELSE "reply",
                         !.msg = mem[HD].type]
  /\ part' = NotReading
  /\ UNCHANGED <<ipcvars, drivevars, fs>>

\* get_part_table(): the table at part.s, up to the interrupt.
HdTableCommand ==
  /\ HdAt("table")
  /\ hd_cmd_out("READ", part.s, 1)
  /\ hd' = [hd EXCEPT !.at = "wait", !.left = 1]
  /\ UNCHANGED <<ipcvars, hd_info, part, irq, fs>>

Extent(from, e) == [base |-> from + e.start, size |-> e.size]

\* The loop over the primary entries after entry j, up to the next extended
\* partition, whose tables are read first, or the end.
NextExtended(tbl, j) ==
  LET ext == {n \in (j + 1)..NR_PART_PER_DRIVE : tbl[n].id = EXT_PART}
  IN IF ext = {} THEN 0 ELSE Min(ext)

Primaries(tbl, j) ==
  LET e == NextExtended(tbl, j) IN
  [n \in DOMAIN hd_info.primary |->
     IF n > j /\ (e = 0 \/ n <= e) /\ tbl[n].id # NO_PART THEN Extent(0, tbl[n])
     ELSE hd_info.primary[n]]

\* Mutant of NextTable: links are taken as relative to the table they are in.
NextTableAfter(s, j, link) == s + link.start

\* The links between logical partitions count from the extended partition.
NextTable(s, j, link) == hd_info.primary[j].base + link.start

MoreTables(tbl, j) ==
  LET e == NextExtended(tbl, j) IN
  /\ hd' = [hd EXCEPT !.left = 0, !.at = IF e = 0 THEN "reply" ELSE "table"]
  /\ part' = IF e = 0 THEN NotReading ELSE [tbl |-> tbl, j |-> e, k |-> 0, s |-> tbl[e].start]

HdPrimary ==
  LET tbl == Table[part.s] IN
  /\ HdAt("awake") /\ hd.msg.op = "OPEN" /\ part.j = 0
  /\ port_read
  /\ hd_info' = [hd_info EXCEPT !.primary = Primaries(tbl, 0)]
  /\ MoreTables(tbl, 0)
  /\ panic' = IF \A n \in 1..NR_PART_PER_DRIVE : tbl[n].id = NO_PART THEN "ASSERT" ELSE panic
  /\ UNCHANGED <<p_flags, p_recvfrom, p_sendto, p_msg, q_sending, has_int_msg, mem, irq, fs>>

HdLogical ==
  LET tbl == Table[part.s]
      last == tbl[2].id = NO_PART \/ part.k + 1 = NR_SUB_PER_PART
      dev_nr == (part.j - 1) * NR_SUB_PER_PART + part.k
  IN
  /\ HdAt("awake") /\ hd.msg.op = "OPEN" /\ part.j # 0
  /\ port_read
  /\ hd_info' = [hd_info EXCEPT
       !.logical[dev_nr] = Extent(part.s, tbl[1]),
       !.primary = IF last THEN Primaries(part.tbl, part.j) ELSE @]
  /\ IF last THEN MoreTables(part.tbl, part.j)
     ELSE /\ hd' = [hd EXCEPT !.left = 0, !.at = "table"]
          /\ part' = [part EXCEPT !.k = @ + 1, !.s = NextTable(part.s, part.j, tbl[2])]
  /\ UNCHANGED <<ipcvars, irq, fs>>

-----------------------------------------------------------------------------
(* The drive and its interrupt.                                            *)

\* A sector can be read, which interrupts, or the first one written, which
\* does not; or all are read.
DriveReady ==
  /\ drive.at = "busy" /\ panic = "no"
  /\ drive' = IF drive.left = 0 THEN DriveIdle
              ELSE [drive EXCEPT !.at = "ready"]
  /\ irq' = IF drive.left > 0 /\ drive.op = "READ" THEN 1 ELSE irq
  /\ UNCHANGED <<ipcvars, taskvars, fs>>

\* A sector is written.
DriveFlushed ==
  /\ drive.at = "flush" /\ panic = "no"
  /\ drive' = [drive EXCEPT !.left = @ - 1, !.lba = @ + 1,
                            !.at = IF drive.left = 1 THEN "busy" ELSE "ready"]
  /\ irq' = 1
  /\ UNCHANGED <<ipcvars, taskvars, fs>>

hd_handler ==
  /\ irq = 1
  /\ irq' = 0
  /\ InformStep(HD)
  /\ UNCHANGED <<taskvars, drive, fs>>

-----------------------------------------------------------------------------
HdTask == HdReceive \/ HdCommand \/ HdInterruptWait \/ HdPortRead \/ HdPortWrite
            \/ HdWritten \/ HdReply \/ hd_ioctl \/ hd_open \/ HdTableCommand \/ HdPrimary \/ HdLogical
Drive == DriveReady \/ DriveFlushed

HdNext ==
  \/ \E op \in {"OPEN", "IOCTL"} : FsSend(op, 0, 0)
  \/ \E op \in {"READ", "WRITE"}, pos \in Positions, n \in Lens : FsSend(op, pos, n)
  \/ FsReceive \/ FsReturn
  \/ HdTask \/ HdInterruptLost \/ HdTimeout
  \/ Drive \/ hd_handler

HdSpec == HdInit /\ [][HdNext]_hdvars

\* Runnable processes run again, the drive finishes what it does, interrupts
\* are handled, and the time of a waitfor() runs out.
HdFairSpec ==
  /\ HdSpec
  /\ WF_hdvars(FsReceive \/ FsReturn) /\ WF_hdvars(HdTask) /\ WF_hdvars(HdTimeout)
  /\ WF_hdvars(Drive) /\ WF_hdvars(hd_handler)

-----------------------------------------------------------------------------
(* Properties.                                                             *)

Awake == hd.at = "awake" /\ p_flags[HD] = {}
Pending == irq + has_int_msg[HD]

\* The driver reads the data port only when the drive has a sector for it, and
\* goes on writing only when the last one is written: no interrupt is taken
\* for another one's.
PortWhenReady ==
  /\ Awake /\ hd.msg.op \in {"READ", "OPEN"} => drive.at = "ready"
  /\ Awake /\ hd.msg.op = "WRITE" => drive.at # "flush"

\* The sectors that the count register has cut off what was asked for.
CutOff ==
  IF hd.msg.op \in {"READ", "WRITE"} THEN hd.msg.cnt - Sectors(CountReg(hd.msg.cnt)) ELSE 0

\* Driver and drive agree how many sectors are left, the one just announced
\* by an interrupt included, but for those cut off, which the drive has never
\* heard of; so the answer goes out only when all that was asked for is moved,
\* and never with the drive still transferring.
CountsAgree ==
  /\ hd.at = "drq" \/ (hd.at = "wait" /\ hd.msg.op # "WRITE") => drive.left + CutOff = hd.left
  /\ hd.at \in {"table", "reply"} => drive.left = 0 /\ CutOff = 0

\* Driver and drive are out of step by nothing but what the register cuts off.
DriveInv == PortWhenReady /\ CountsAgree

\* Every interrupt of a command is taken while the command runs: none is left
\* for the main loop, which would take it for an unknown message and spin, or
\* for the next command.
NoStrayInterrupt ==
  /\ hd.at \in {"loop", "table", "reply"} => Pending = 0
  /\ hd.at = "got" /\ p_flags[HD] = {} => mem[HD].type # HARD_INT
  /\ Pending <= 1

\* Where the k-th logical partition of extended partition j has its table: the
\* links form a chain, and each counts from the extended partition's start.
TableOf(j, k) ==
  LET first == Table[0][j].start
      at[i \in 0..k] == IF i = 0 THEN first ELSE first + Table[at[i - 1]][2].start
  IN at[k]

Logical(j, k) == LET t == TableOf(j, k) IN Extent(t, Table[t][1])

OnDisk(dev) ==
  IF dev <= NR_PART_PER_DRIVE THEN Extent(0, Table[0][dev])
  ELSE LET n == dev - MINOR_hd1a IN Logical(n \div NR_SUB_PER_PART + 1, n % NR_SUB_PER_PART)

\* The partitions that there are: the entries of the first table that are used,
\* and of an extended one those that its chain reaches.
HasLogical(j, k) ==
  Table[0][j].id = EXT_PART /\ \A i \in 0..(k - 1) : Table[TableOf(j, i)][2].id # NO_PART

IsPartition(dev) ==
  \/ dev \in 1..NR_PART_PER_DRIVE /\ Table[0][dev].id # NO_PART
  \/ /\ dev \in MINOR_hd1a..(MINOR_hd1a + NrSub - 1)
     /\ LET n == dev - MINOR_hd1a IN HasLogical(n \div NR_SUB_PER_PART + 1, n % NR_SUB_PER_PART)

\* ROOT_DEV is one of them; minor numbers are as in const.h:231-248.
ASSUME DiskAssumption ==
  /\ NR_PART_PER_DRIVE \in Nat \ {0} /\ NR_SUB_PER_PART \in Nat \ {0}
  /\ MAX_PRIM \in Nat /\ MINOR_hd1a \in Nat
  /\ NR_PART_PER_DRIVE < MAX_PRIM /\ MAX_PRIM <= MINOR_hd1a
  /\ \A n \in 1..NR_PART_PER_DRIVE : Table[0][n].start \in Nat
  /\ \A dev \in RootDevs : IsPartition(dev) /\ OnDisk(dev).base \in Nat /\ OnDisk(dev).size \in Nat

\* n sectors from the one on are part of e.
Within(from, n, e) == e.base <= from /\ from + n <= e.base + e.size

\* FS knows its own partition's place and size, and the sectors the drive has
\* still to move are always the last of those asked for, counted from the
\* start of that partition: a request that ends within the size FS was told
\* touches neither the tables nor another partition.
InPartition ==
  LET own == OnDisk(fs.dev)
      m == hd.msg
  IN
  /\ m.op \notin {"none", "OPEN"} => fs.geo = own
  /\ m.op \in {"READ", "WRITE"} /\ drive.at # "idle" =>
       /\ drive.lba + drive.left = own.base + m.pos + Sectors(CountReg(m.cnt))
       /\ drive.left <= m.cnt
       /\ m.pos + m.cnt <= own.size => Within(drive.lba, drive.left, own)

\* HD sleeps through an interrupt that it has missed.
InterruptLost == RECEIVING \in p_flags[HD] /\ has_int_msg[HD] = 1

\* Every request of no more sectors than the count register holds is answered,
\* unless the drive keeps the driver waiting for longer than HD_TIMEOUT, or its
\* interrupt is lost.
RequestsAnswered ==
  (fs.at = "sent") ~> (fs.at = "run" \/ panic # "no" \/ InterruptLost \/ hd.msg.cnt > CountMod)
=============================================================================
