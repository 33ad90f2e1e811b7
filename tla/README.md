# Verification of the -OS kernel and its servers

TLA+ models of the operating system in `src/`, the TLC configurations that
check them, and proofs that TLAPS checks. Everything is translated from the C
and assembly sources; paths and lines below are relative to `src/`.

1. The system · 2. Hazards · 3. Modules · 4. Runs, bounds and fairness ·
5. Proofs · 6. What disagrees with its documentation · 7. Not modelled · 8. Plan

## 1. The system

A 32-bit x86 system in the style of Minix. A small kernel schedules a fixed
table of processes and passes messages between them; everything else is done by
*tasks*, processes that loop on `RECEIVE ANY` and answer what they receive. A
user process asks MM or FS with `send_recv(BOTH)`, which is a SEND followed by
a RECEIVE from the same task; MM asks FS; FS asks HD or TTY; interrupts wake
TTY and HD. Message passing is therefore modelled first and the models of the
servers are built on it.

| part | code | state | operations |
|---|---|---|---|
| message passing | `kernel/proc.c`, `lib/misc.c` | `p_flags`, `p_recvfrom`, `p_sendto`, `p_msg`, `q_sending`, `has_int_msg` of each process | `sendrec` (SEND, RECEIVE), `inform_int` |
| interrupt entry | `kernel/kernel.asm` | `k_reenter`, saved registers | `hwint`, `sys_call`, `restart` |
| scheduler, clock | `kernel/proc.c`, `kernel/clock.c` | `ticks`, `priority`, `p_proc_ready` | `schedule`, `clock_handler` |
| MM | `mm/*.c` | `p_parent`, `exit_status`, flags WAITING, HANGING, FREE_SLOT | FORK, EXIT, WAIT, EXEC |
| FS | `fs/*.c` | `filp`, `f_desc_table`, `inode_table`; on disk: maps, inodes, directory, data | OPEN, CLOSE, READ, WRITE, UNLINK, STAT, FORK, EXIT, RESUME_PROC |
| TTY | `kernel/tty.c`, `keyboard.c`, `console.c` | `kb_in`, `key_pressed`, reader and input queue of each terminal, current console | DEV_OPEN, DEV_READ, DEV_WRITE, HARD_INT, `keyboard_handler` |
| HD | `kernel/hd.c` | the drive's registers, `hd_info` | DEV_OPEN, DEV_CLOSE, DEV_READ, DEV_WRITE, DEV_IOCTL, `hd_handler` |
| SYS | `kernel/systask.c` | none | GET_TICKS, GET_PID |
| library, Init, shell | `lib/*.c`, `kernel/main.c` | none of their own | the caller's side of every request |

What makes each part correct:

* **Message passing.** A message reaches exactly the process it is for, whole
  and once; senders are served in order; nobody sleeps while his partner is
  ready; no cycle of senders comes about; the assertions of `msg_send()` and
  `msg_receive()` hold.
* **MM.** Every process has a living parent; every zombie is reaped once, by
  its parent or by INIT, with the status it left; what MM answers is true when
  the answer arrives.
* **FS.** Reference counts are the references; maps, inodes and directory
  agree; an open file is not removed under its holder; reads and writes are
  those of byte files.
* **TTY.** A reader gets the line typed on its terminal, and characters are
  stored nowhere else; FS and TTY do not deadlock. Keys arrive in order with
  the modifiers they were pressed with; the screen shows the current console.
* **Scheduling.** The kernel returns to a process that can run, and every
  process that can run does so some day.
* **HD.** Driver and drive keep in step: the data port is used when the drive
  is ready, and an interrupt belongs to the sector that raised it.

## 2. Hazards

`PROJECT.json` lists them line by line. The groups:

* **Interleaving of a system call with interrupts.** `sys_call` runs with
  interrupts enabled (`kernel/kernel.asm:361-378`), and `inform_int()` edits
  the same table entry the call does. TTY and HD wait for their interrupts by
  such calls.
* **Conversations.** A request is two system calls, and others run in between.
  Two tasks that send to each other stop the machine (TTY resuming a reader
  while FS asks it; MM answering an `exec()`).
* **Copies of what runs.** MM is preemptible while it copies a caller that may
  not have come to its RECEIVE.
* **Flags edited by hand.** MM sets and clears WAITING and HANGING of processes
  that are blocked for another reason at the same time.
* **Counts over long histories.** Descriptors and inodes shared by fork, exit
  and close; references that early returns of `do_unlink()` keep.
* **Boundaries.** Sectors, buffers, directory ends, map bits, an 8-bit count, a
  partition's end that nobody compares, a console's memory that is not a whole
  number of lines.
* **The directory as a file.** Whoever opens `/` can write entries.
* **Scan codes and drawing.** Codes of one key come one interrupt at a time and
  are read much later; a debug print draws in the kernel while TTY draws.
* **Ticks.** Clocks nested in system calls and in `schedule()` charge processes
  without rescheduling; `fork()` copies ticks.

## 3. Modules

### Message passing

* `Ipc` — one system call is one step. State: the table's fields by their
  names; `mem[p]` is the message at the address `p` passed. Actions:
  `SendDeadlock`, `SendDeliver`, `SendBlock` (the three ends of `msg_send()`),
  `ReceiveInterrupt`, `ReceiveFetch`, `ReceiveBlock` and `ReceiveStray` (those
  of `msg_receive()`), `InformDeliver`, `InformPend` (`inform_int()`).
  `q_sending` is the sequence that the `next_sending` pointers link.
  `deadlock(p, dest)` says what the code's walk through `p_sendto` finds out;
  `Walk` is that walk, hop by hop, and `WalkAgrees` that the two say the same.
  `ReceiveStray`
  stands for `RECEIVE` from INTERRUPT reading the memory in front of
  `proc_table` as if it were an entry (`kernel/proc.c:422`).
* `IpcPreempt` — the same call split at the statements between which an
  interrupt makes a difference; the variable `call` is its program counter.
  Only interrupts interleave: the kernel does not reschedule while it is
  re-entered (`k_reenter`), so there is one call at a time.
* `IpcAtomic` — the relation of the two. A history variable shows the table as
  `Ipc` would; until an interrupt falls into one of three named windows
  (`InWindow`), every preemptible run is a run of `Ipc`. The windows reach from
  the sender's test of the receiver to the end of the delivery, from the
  clearing of a remembered interrupt to the assertion that there is none
  (`ReceiveAssertInt`), and from the test for one to the end of the call that
  waits for one.
* `Mailbox` — what message passing promises, with no flags, pointers or queues
  shared between processes; `IpcMailbox` maps the kernel's state to it.

### MM

* `Mm` — on top of `Ipc`: callers, MM and FS as processes that send and
  receive. `pc[p]` is where a user process is in its call, `mm` where MM is in
  its handler. What MM does between two messages is one step because only MM
  touches what it changes, but for the copying of a caller: between `ForkCopy`
  (its table entry) and `ForkImage` (its memory), and between `ExecLoad` and
  `ExecEnter`, a caller that is still in front of its RECEIVE may run
  (`UserRunTorn`), and so may the child, which has the parent's memory until it
  has its own. Such a torn copy ends the model (`panic = "TORN"`), as the
  failed assertions do. `ForkCopy` to `ForkBirth` are `do_fork()`,
  `ExitTellFs` to `ExitReparent` `do_exit()` with `cleanup()`, `Wait*`
  `do_wait()`, `Exec*` `do_exec()`. FS's side is a request served and answered,
  or, when the program of an `exec()` is a terminal, suspended (`FsSuspend`);
  `close()` counts as one with `read()`.
  Process numbers are numbers because the code compares them.
* `Family` — what fork, exit and wait promise about a process's life;
  `MmFamily` maps the process table to it. A process counts as a zombie from
  the storing of its status on, also while a waiting parent is being told.

### FS

* `Fs` — one request is one step: FS serves one at a time. What interleaves is
  MM, which copies `filp[]` into a child before FS is told (`ForkCopy`,
  `fs_fork`). Directory entries keep their positions, since where an entry lies
  decides what is found. Slots of the inode table nobody counts are shown
  empty: their old contents are read only to find the same inode again, which
  the disk holds too. A panic or failed assertion freezes the state.
  `ReadRoot` and `WriteRoot` are what `do_rdwt()` does to the root directory,
  which `open()` gives out for writing: any entry may come to any place, and the
  directory grows by reading, too; `scribbled` counts the entries written.
* `FsRdwt` — `do_rdwt()` on regular files, on a partition of bytes: `Transfer`
  is what each round of the loop over FS's buffer moves from where to where, and
  `BytesRw` counts `bytes_rw` up to a round. Requests may be of any length;
  nothing more is asked once a file has outgrown its sectors.
* `Files` — files as sequences of bytes, with what a read past the end does;
  `FsRdwt!ImplementsFiles` maps to it.

### TTY, keyboard, console and HD

* `Tty` — processes, FS and TTY over `Ipc`, with `keyboard_handler` and
  `clock_handler`. A key is the scan codes of one event, already decoded, and
  TTY drains a terminal's queue whenever it has put a key in it, so the queue
  is empty between steps. FS passes on an `open()` of a terminal as it does a
  read or a write, and `tty_open` answers it. `ttypc` is where TTY is: serving terminal `t`,
  resuming a reader, or with a message.
* `Keyboard` — the other side of TTY, code by code. `Press` and `Release` put a
  key's codes on the `line`; `keyboard_handler` moves one of them to `kb_in` or
  drops it; `get_byte_from_kbuf` takes one (TTY spins when there is none);
  `keyboard_read` is what follows when a code is complete: modifiers (`mods`),
  row and column of `keymap[]`, number pad, LEDs. `LongCodes` are the sequences
  of more than two bytes and `More` says that one of them has begun. `typed`
  remembers what each key meant when it was pressed, which is what
  `NextIsTyped` compares with. The keyboard is external: a few keys stand for
  the rows of `keymap[]` that are alike; it has no auto-repeat and sends no
  fake Shift codes.
* `Console` — each console's `cursor` and `start`, the registers of the display
  (`crtc`) and `out`, the place in `out_char()`, `scroll_screen()` or `flush()`
  where TTY is. A step is the reads or the write between which `sys_printx`,
  which runs in the kernel, makes a difference. `raced` marks that it drew on
  the console TTY was drawing on.
* `Terminal` — TASK_TTY over the two: its loop (`ReadNothing`, `ReadCode`,
  `Decode` with `in_process`, `Echo`, `Echoed`, `EndOfLine`, `TerminalDone`) and
  its messages cut down to their effect (`HardInt`, `tty_do_read`,
  `tty_do_write` of one character), for `Tty` has their protocol. `pc` is where
  it is, and it goes on only when `out` is idle.
* `Hd` — `hd.c` and its requests from FS, over `Ipc`: `init_fs()` opens the
  device, at which the driver reads the chain of partition tables, `mkfs()`
  asks for the geometry, and `rw_sector()` then reads and writes. Nobody
  compares a request with the partition's end or with the count register, and
  neither does `FsSend`: `do_rdwt()` asks for up to 2048 sectors at a time. The recursion of `partition()` is the state `part` (the table of the
  primary entries, the extended partition and the link followed), since each
  table read waits for an interrupt. The drive is external: it is modelled from
  how `hd.c` uses it (an interrupt when a sector can be read and when one has
  been written, none before the first sector of a write; count 0 means the
  register's whole range). Its contents, other than partition tables, are not
  modelled.

### Scheduler and clock

* `Sched` — `schedule()` entry by entry (`Skip`, `Better`, `Take`, `Refill`),
  because interrupts may come between the two reads of `p->ticks`; `kernel` is
  where the kernel is. `Clock` is `clock_handler()` in user mode, `NestedClock`
  the same inside a system call (`k_reenter`), which charges a tick and does not
  reschedule; inside a `schedule()` that `clock_handler()` called the clock's
  line is masked and only `DiskInterrupt` comes. `Block` is a system call whose
  caller waits, `Unblock` one that wakes somebody; who does which is the affair
  of `Ipc`. `Fork`, `Flag` and `Exit` are MM's writes to other entries.

`IpcProofs`, `MmProofs`, `TtyProofs` and `HdProofs` extend the module they are
named after and hold its theorems; `FsProofs` holds those of `Fs` and `FsRdwt`,
`KernelProofs` those of `Terminal` and `Sched`, `IpcRefinementProofs` those of
`IpcMailbox`, `IpcPreempt` and `IpcAtomic`. `Induction` has the general facts they
share. See 5.

`Tty` and `Hd` use the atomic calls of `Ipc`. What an interrupt inside a
receive does to them is the subject of `IpcPreempt`: the lost wakeup and the late
assertion found there apply to both tasks. TTY is woken again by the next tick;
HD by nobody, so the lost wakeup is a step of `Hd`, too (`HdInterruptLost`).

`MC*` modules only give constants their values. Definitions called *Mutant*
are single mistakes a programmer might have made; each property of a passing
run is violated when the definition named is replaced by one of them.

## 4. Runs, bounds and fairness

| run | shows | bounds |
|---|---|---|
| `ipc` | all safety properties of `Ipc`, and `Mailbox` implemented | three processes and one interrupt task: a circle of three senders, a queue of three with one unlinked from the middle |
| `ipc_preempt` | queues and graph survive any interrupt; outside the three windows calls are atomic | two processes and one task: a call has two parties and an interrupt a third |
| `ipc_lost_interrupt` | *violation*: a wakeup is lost | the same |
| `mm` | replies are true, who is released can run, the only deadlock is `exec`'s, forks are answered in parent and child, orphans reaped | two slots, so that the table is full at times; INIT forks once, its descendants as they like |
| `mm_family` | MM implements `Family`; living parents, no exit missed | three slots with memory, so that a dying parent has a running and a zombie child, and one beyond it, so that `alloc_mem()` panics; users only fork and exit, INIT waits |
| `fs` | counts, disk and directory agree; open files stay | two processes, two descriptors, two fds, three inode slots, room for three new files of two sectors, the gap before `cmd.tar` not a multiple of a file as on the real disk. Bounds: `DirCap` entries in the directory, `MaxLeaked` lost references, one write into the directory (`MaxScribbles`) of an entry that names a free inode or gives a file a second name (`Scribbles`), after which one process goes on alone, as it does after reading past the directory's last entry (`OneAfterWrite`); with a reference lost no more than four entries (`ShortAfterLoss`) |
| `fs_lost_file` | *violation*: unlink loses other files | one process |
| `fs_rdwt` | bytes are moved straight on; reads and writes are those of byte files as long as the files fit | files of three sectors and one, sectors of two bytes, a buffer of two sectors, lengths 2, 3, 5: starts inside a sector, ends on one, several rounds, past the end of the file and of its sectors; two descriptors share a file |
| `tty` | nobody is forgotten, stores go to waiting readers, one deadlock, lines, writes and opens end | two processes on two terminals, one reading and writing, one opening and reading; lines of two characters; one event in the keyboard's buffer; `OpsOf` and `TtyOf` satisfy `OneReader` |
| `hd` | ports, counts and interrupts agree; the sectors moved are those asked for of FS's own partition; requests are answered | a count register of 4 values, requests of 1 to 5 and of 8 sectors: 4 is written as 0, 5 as 1, 8 as 0; starts at 0 to 3 in partitions of 2 to 5 sectors, so that requests end before, at and behind the partition's end; four primary entries, of which one is unused and two are extended partitions with three logical ones (all there may be) and one; FS on a primary partition or any logical one |
| `terminal` | keys in order, the oldest waiting code read while `key_pressed` is set, cursor and screen in their memory, the current console shown, TTY comes back | two consoles of three lines and a half with two lines on the screen, so that the memory ends inside a line; a ring of three bytes, less than Pause or Print Screen; thirteen scenarios (`MCScenarios`), each with the keys, writers, readers and printx() that go together; no key moves after a byte was lost nor while TTY draws |
| `sched` | whoever the kernel returns to can run; nobody starves | five entries: TTY, HD, MM, a user process and a free slot for a child; priorities 1 and 2 |

`CHECK_DEADLOCK FALSE` is said where the machine may stop: a panic, an endless
assertion, or everybody blocked with no interrupt to come.

**Fairness.** `schedule()` gives every runnable process its ticks anew, so a
process that can go on does (`NobodyStarves` of the run `sched`): weak fairness of each task and of each process
*inside a call*. Nothing is assumed of what user processes choose to call,
except that `Init()` goes on to fork and wait, which is its code
(`kernel/main.c`). The clock ticks; the drive finishes what it has begun; a
raised interrupt is handled; a `waitfor()` whose condition never comes reaches
HD_TIMEOUT (`HdTimeout`). Keys need not be pressed. `WritesReturn` says
what happens once the keyboard rests: RECEIVE ANY prefers a pending interrupt
to any sender (`kernel/proc.c:372`), so keys pressed for ever may keep every
writer waiting for ever. Liveness is stated up to the panics, each of which is a
state of the model and has a property that says when it can happen
(`OnlyExecDeadlocks`, `OnlyResumeDeadlocks`, `HdTimeout`), and to the ends that
are states of their own: for MM a torn copy, an `exec()` whose caller
does not receive or whose program is a terminal (`Stuck`), and the answer -1 to
`fork()`; for HD a lost interrupt and a request that the count register cannot
say (`RequestsAnswered` names both).

`Sched` itself assumes weak fairness of the kernel's own steps, for nothing
stops it, and strong fairness of the clock in user mode: calls are short against
the 10 ms between two ticks, so the clock does not find the machine in a call
every time. `NobodyStarves` has two premises, and without either TLC finds a
counterexample: forking ends, since a child brings its parent's ticks and a
chain of children would go before everybody else for ever; and clocks nested in
`schedule()` stop taking the last tick of the process just chosen. Both are
rare, and neither is excluded by the code. In `Terminal` the codes on the line
arrive, the clock ticks and TTY gets the processor; keys need not be pressed,
and messages need not come.

## 5. Proofs

Every theorem below is for all values of the constants that satisfy the named
assumptions of its module: any number of processes, consoles, slots, inodes or
sectors. The runs show the same properties on small instances. Every safety and
action property and every refinement of the passing runs is proved. Inductive
invariants were checked by TLC before they were proved, except that about keys
(`KeyInv`), which speaks of an infinite set.

| module | theorem | property |
|---|---|---|
| `IpcProofs` | `TypeCorrect` | `TypeOK` |
| | `BlockedStateCorrect` | `BlockedStateAgrees`: the assertions of `proc.c` |
| | `QueuesCorrect` | `QueueExact` |
| | `RendezvousNotMissed` | `NoMissedRendezvous` |
| | `InterruptNotMissed` | `NoPendingInterrupt` |
| | `MessagingGraphAcyclic` | `NoSendCycle` |
| | `WalkCorrect` | `WalkAgrees` |
| | `RendezvousCorrect`, `FifoCorrect` | `Rendezvous`, `Fifo` (action properties) |
| `IpcRefinementProofs` | `KernelImplementsMailbox` | `ImplementsMailbox` (refinement) |
| | `StructureKeptWithHistory` | `StructureSurvives` |
| | `CallsImplementIpc` | `CallsAreAtomic` (refinement) |
| | `UndisturbedInvariance` | `IInv` of `IpcProofs`, between calls no window of which was hit |
| `MmProofs` | `FamiliesInOrder` | `FamilyInv` |
| | `DeadlocksAreExecs` | `OnlyExecDeadlocks` |
| | `RepliesAreTrue`, `MessagesMakeRunnable` | `ReplyTruth`, `MessageMakesRunnable` (action properties) |
| | `MmImplementsFamily` | `ImplementsFamily` (refinement) |
| `FsProofs` | `CountsExact` | `CountsInv` |
| | `DiskInOrder` | `DiskInv` |
| | `OpenFilesAreKept` | `OpenFilesStay` (action property) |
| | `RequestsGoStraightOn` | `StraightOn` (action property) |
| | `FilesPromiseKept` | `ImplementsFiles` (refinement) |
| `TtyProofs` | `ReadersAreKept` | `ReadersKept` |
| | `AnswersAreToRequests` | `AnswerIsToRequest`: the assertion of `do_rdwt()` |
| | `DeadlocksAreResumes` | `OnlyResumeDeadlocks` |
| `HdProofs` | `DriveInStep`, `InterruptsTaken` | `DriveInv`, `NoStrayInterrupt` |
| | `OwnPartition` | `InPartition` |
| | `HdNeverDeadlocks` | the driver's conversation never meets `panic(">>DEADLOCK<<")` |
| `KernelProofs` | `ScreensHold`, `CurrentShown` | `ScreenHolds`, `Shown` |
| | `KeysArriveInOrder` | `KeysInOrder` (action property) |
| | `RunnerIsReady` | `RunsReady`: outside of `schedule()` `p_proc_ready` can run |

**`Induction`.** The library states induction for predicates and operators, which
no installed prover can instantiate. Here it is stated for sets: a set of numbers
with 0 and with each number's successor is `Nat`, so that a fact is proved by
taking the set of numbers that it is true of; and for each function `step` there is
the function that begins at a value and goes on by `step` (`Iteration`), which is
what a recursive function of the models needs to have the value written in its
definition.

**`IpcProofs`.** Only the named assumptions of `Ipc` are used. The inductive
invariant `IInv` is the conjunction of the six state properties, for none is
inductive alone: `QueueExact` needs the fields of a process to agree, since a
sender is queued where `p_sendto` says; `NoMissedRendezvous` needs `QueueExact`,
since an empty queue must mean that nobody is sending; type correctness needs
it for the index a fetch uses. Each conjunct is preserved in a lemma of its own
with one step per action (`StepTypeOK`, `StepQueue`, ...); lemmas about `Unlink`
say what removing one element does to a sequence without repetitions.
`MessagingGraphAcyclic` is the interesting one: a new edge `p -> dest` closes a
cycle only if some closed set of senders holds both, and that is what
`deadlock()` looks for before it (`NewEdge`); every other action only removes
edges (`FewerSenders`). `WalkCorrect` is about the walk itself: since the graph has no
cycle yet, the walk comes by nobody twice and so, the processes being finitely many,
ends (`WalkEnds`, `WalkIsShort`); those it has come by are the smallest set closed
under `p_sendto`, of which `deadlock` speaks (`WalkFinds`).

**`IpcRefinementProofs`, upwards.** The mapping reads a mailbox off a sending
queue, so its messages tell whose they are only because a blocked sender's message
carries its own number: `MInv` is `IInv` and that. One lemma per system call and
interrupt says which step of `Mailbox` it is, or that it changes none.
`DeadlockIsCircle` shows that `deadlock()` reports exactly when sending would leave
a circle in which everyone waits (`Mailbox!ClosesCircle`): if the largest set that
`p` belongs to and in which everybody else waits for a member missed `dest`, then
what is outside of it would be closed under the chain of senders that
`deadlock()` walks, without anybody there sending to `p`.

**`IpcRefinementProofs`, downwards.** An interrupt between two statements of a call
changes the table under it. `SInv` says what every statement may still rely on:
the sender is not queued anywhere and sends to nobody until its last statement, so
what `deadlock()` found holds until then (`InSend`); a receiver marked RECEIVING
whose `p_recvfrom` is not set yet awaits nobody, so nobody finds it ready too early
(`InReceive`). That is kept wherever interrupts fall. `NoPendingInterrupt` is not,
and with it goes the refinement, which holds until a window is hit. `AInv` relates
`seen`, the table without the call in progress, to the table by what the call has
done so far: flags, `p_recvfrom`, `p_msg` and memory of its two parties, one clause
for each, by program counter, and what it has found must still be true of `seen`
(`TableShown`). Each statement is then silent (`SilentFollows`) except the last,
which shows the step of `Ipc` (`ReturnFollows`); an interrupt outside of the
three windows finds its task the same in both tables (`SameTask`): a RECEIVE that
has cleared `has_int_msg` asserts so next, which only an interrupt there can spoil. `Shown` is
`IpcProofs` about `seen`, so the invariant of the atomic calls comes with it; when
no call is in progress the two tables are one, which is `UndisturbedInvariance`.

**`MmProofs`.** `MmInv` is types, the kernel's queues (`TableInv`), the families
(`KinInv`) and, as long as the machine is up, the conversations: for each user
process where it is in its call with which flags (`UserInv`), FS's side (`FsInv`)
and, for each place of MM's handlers, whose request it has in hand and what it has
done with it (`HandlerInv`). Families need the conversations: that `cleanup()`
frees a slot nobody else's reply names, or that the child that `fork()` answers is
alive, holds only because its parent is still in the call. While MM copies, nothing
but its place says so; a torn copy is down like a halted machine, for nothing is
claimed of it. `OnlyExecDeadlocks` is
part of it, since the panic is a state too. The refinement goes by steps:
`FamilyStutters` for the ones that leave life, parent and status alone, `ForkMaps`,
`ExitMaps` and `FreeMaps` for the three that do not; `MmAssumption` and the
assumptions of `Ipc` are all that is used.

**`FsProofs`.** `FInv` adds to the two properties that a slot of the inode table
is all free or all in use (`SlotsInv`), what MM's copy of `filp[]` may have made of
the counts before FS is told (`ForkInv`), and that the root directory stays
(`RootInv`). The counts are cardinalities of sets of descriptors and slots: the
proofs rest on lemmas about what one pointer more or less does to them, and on the
library's theorems about finite sets. `FsAssumption` has a directory of at least
the three entries that `mkfs()` makes. What `WriteRoot` puts into the directory
may name any inode. Maps, inodes and counts stay right nevertheless, by the
assertions of `do_open()` and the checks of `do_unlink()`; only the agreement of the
directory itself (`EntriesNameFiles`) ends with the first such write. The proofs are
for any entries written at any place, by any process, and any number of times:
`Scribbles` and `MaxScribbles` are arbitrary.

**`FsProofs`, `do_rdwt()`.** By induction over the rounds `bytes_rw` has a closed
form: the whole length, or less when the buffers have not covered it. So the pieces
of `Transfer` follow one another, in the caller's buffer as on the partition, and
each byte belongs to one of them: that is `StraightOn`. `RInv` is that descriptors are
within their files, so that a request always has a round. The refinement reads a
file off the partition (`Content`); as long as files fit their sectors, what
is written to one leaves the others alone, since `RdwtAssumption` says that they lie
apart and within the partition, as the sectors `new_inode()` gives them do.

**`TtyProofs`.** `TInv` says for each process in `read()` or `write()` who has to
see to it: FS has its request, FS serves it, TTY stores characters for it, TTY is
blocked with its line, FS has its line, or FS is blocked with its answer (`Seen`).
Uniqueness is the other half: what FS and TTY pass on belongs to a process that TTY
has nothing else to do with (`Fresh`). FS in front of its RECEIVE of an answer,
TTY has the request in hand or is blocked with the answer (`FsServeInv`), so TTY
cannot be sending a line then: this gives `AnswerIsToRequest`, and leaves one
circle of senders; an `open()` is such a request, too. Two assumptions tell what the code relies on:
`MessageAssumption`, that the messages are among the kernel's, and `OneReader`,
that two processes do not read from one terminal (see 6).

**`HdProofs`.** FS and TASK_HD are quiet, or FS is queued, or served, or HD is
queued with the answer (`Conversation`); `InStep` relates the driver's count of
sectors to the drive's and both to the interrupts on their way: one exactly when a
sector is ready or has been written and nobody has taken that interrupt. For a
request longer than the count register the counts differ by what was cut off
(`CutOff`), from the command to the time-out or the wait that does not end. The drive
is part of the model, so these theorems are about the driver with a drive as
modelled.

`PInv` follows `partition()` down the chain of tables: up to the table being read,
`hd_info` has every partition there is as it is on the disk (`KnownUpTo`, `Reading`), and
once `hd_open()` has answered, all of them (`AllKnown`); so the geometry FS is told and
the sectors of each command are counted from the start of its own partition
(`Own`); that they lie within it follows if the request ends there, which is FS's
affair and no code's check. Where a logical
partition lies depends on all the tables before it in its chain, which takes
induction along the chain. `DiskAssumption` says
that the device FS is told to use is a partition of the disk and that minor numbers
are kept apart as in `include/sys/const.h:231-248`; without the first, FS would ask the
drive for sectors of an entry that nobody filled in.

**`KernelProofs`, consoles.** `raced` tells that `printx()` has drawn between two of TTY's
steps; of a console where it has nothing is claimed. Until then `ScreenHolds` needs
what TTY has read and not yet written (`DrawingInv`) and what the display was told
last (`DisplayInv`). Bounds are arithmetic about lines, with division: a position
starts a line if it is a number of lines behind the first one, and scrolling by one
keeps it so (`Quotient`, `WholeLines`, `LinesAway`). `select_console()` scrolls back
until the screen holds its cursor; the start it ends at is a least element, which
there is by well-founded induction over one set.

**`KernelProofs`, keys.** A sequence of codes *says* keys: `Says` is the least
relation with the empty sequence, which says nothing and leaves the modifiers alone,
and with the codes of one key in front of what says the rest. `KeyInv` is that, while
no code has been dropped, what `keyboard_read()` has taken, `kb_in` and the keyboard's
line together say just the keys in `typed`, from the modifiers TTY knows (`mods`) to
those the keyboard has (`Held`). A press or release adds a key at the end
(`SaysMore`). At the other end `keyboard_read()` takes the codes of one key, neither
more nor fewer, although no code tells how many follow (`WholeKey`: no key's codes
begin another's), and does with `mods` and `typed` what that key does (`KeyRead`). The
codes of all keys are compared one with another, the only place where proofs
enumerate the keys of the model.

**`KernelProofs`, scheduler.** `SchedIInv` adds to types what holds in the middle of
`schedule()`: once some ticks have been found, `p_proc_ready` is ready, and so is
the entry about to be taken. It is preserved because nobody blocks but by a call of
his own, and MM, which edits entries of others, runs itself while it does.
`SchedAssumption` says that tasks are not user processes and that all user
processes have one priority.

**Model-checked only.** Liveness and whatever depends on ENABLED (`ForksAnswered`,
`OrphansReaped`, `LinesArrive`, `WritesReturn`, `RequestsAnswered`, `NobodyStarves`,
`KeyWakes`, `TtyListens`): TLAPS does not treat them.

## 6. What disagrees with its documentation

* **A lost wakeup** (`ipc_lost_interrupt`). `msg_receive()` tests
  `has_int_msg`, and only later stores `p_recvfrom`. An interrupt in between is
  remembered, and the task sleeps with it pending, although
  `include/sys/proc.h:55-58` says that it is kept only for a task not ready to
  deal with it. TTY is woken by the next tick, HD by nothing.
* **Lost files** (`fs_lost_file`). Removing the directory's last entry shrinks
  the directory to the number of entries in use; a hole before it hides the
  last ones.

Seen while modelling, without a run of their own; the models do what the code
does here, except where 7 says that they stop:

* `msg_receive()` clears `has_int_msg` and five lines later asserts that it is
  clear (`kernel/proc.c:386-391`), with interrupts enabled: one in between halts
  the machine over a receive that has succeeded. It is the second of the windows
  of `IpcPreempt`.
* `fork()` is said to return -1 on failure (`lib/fork.c:22`) and asserts that it
  does not: with the process table full its caller spins.
* `do_wait()` counts entries by `p_parent`, which `cleanup()` leaves in freed
  ones: a caller whose children have all been reaped sleeps, although a WAITING
  process is said to have a child (`mm/forkexit.c:154`). INIT meets it when it
  waits again after its only child.
* A disk request of more than 256 sectors writes only its low eight bits to the
  count register (`kernel/hd.c:178`): a read waits for sectors that never come, a
  write ends in `panic("hd writing error.")`.
* TTY takes one code per wake-up and clears `key_pressed` for all of them
  (`kernel/tty.c:62`), so that codes which came while it was busy wait for the next
  key. `KeyWakes` is what remains: with `key_pressed` set the oldest is read.
* `do_rdwt()` bounds the sectors by the file's allocation, not the bytes: a
  write across its end goes on in the next file, although the limit is said not
  to be exceeded (`fs/read_write.c:71`). A read past the end of the file answers
  with the length asked for.
* `exec()` and TTY's resumption can each end in the kernel's deadlock panic; an
  `exec()` of a terminal leaves MM suspended like any reader.
* `fork()` and `exec()` copy a caller that may still run, before its RECEIVE
  (`UserRunTorn` of `Mm`), and the child can run before its memory is its own.
* `open("/")` gives a descriptor for writing, and `write()` on it overwrites
  directory entries; a `read()` past the directory's end makes it longer.
* `tty_do_read()` overwrites `tty_procnr` (`kernel/tty.c:194`): a second
  process that reads the terminal takes the place of the first, which is never
  answered. The shell waits for the command that it has started
  (`kernel/main.c:408`), so it does not happen; `OneReader` of `Tty` says so.
* Nothing compares a disk request with the partition's end, and
  `alloc_smap_bit()` (`fs/open.c:284`) allots any bit of the map's last sector,
  also bits of sectors behind that end.
* The right Alt key sets and clears `alt_l` (`kernel/keyboard.c:172`): with both
  held, releasing one ends Alt. `altOn` of `Keyboard` follows the code.
* `kb_ack()` compares with `=!` (`kernel/keyboard.c:325`) and so reads the data
  port once, whatever it holds: an acknowledgement that comes later goes through
  the handler, where it is harmless, being the release of no key (`Acks`).
* With `kb_in` full, codes are dropped one by one; half a key makes TTY spin in
  `get_byte_from_kbuf()` until the next key comes.
* `printx()` between two statements of TTY's `out_char()` on console 0 loses
  one of the two cursor movements; with a new line at the end of the memory the
  cursor can come to lie where the loop of `out_char()` never ends. The
  properties of `Console` exclude such a console (`raced`).
* Once a console's memory is used up it shows nothing more: there is no going
  back to its beginning.

## 7. Not modelled

* Boot loader, descriptor tables, port I/O, memory copies, formatted output,
  the commands and build files: run once, without protocol, or hardware set-up.
* SYS: answers each request at once from one variable.
* Memory: segments, images and alloc_mem()'s arithmetic, except whether a slot
  has memory and whether an image is being copied while its owner runs. What a
  process with a torn copy of registers or stack goes on to do is not followed.
* What reading and writing `/` does to the caller's buffer; `FsRdwt` is about
  regular files. The sectors of a partition as opposed to the bits of its map.
* What scan codes mean after one of a key's codes was dropped, and what
  `printx()` and TTY make of a console on which both draw (`raced`).
* The characters in video memory; auto-repeat and fake Shift codes of the
  keyboard; `untar()`; marshalling in the library stubs.
* `mkfs()` and `init_fs()` sector by sector: their result is `Fs`'s initial
  state.
* `hd_close()`, since nobody sends DEV_CLOSE, and `hd_identify()` with its
  printing, which nobody calls.
* Names of the maximal length. `do_lseek()` is not reachable: its case in `task_fs()` is commented out (`fs/main.c:64`).

## 8. Plan

Order of work, most important first; all but the last are done.

1. `Ipc`, `Mailbox`, `IpcProofs`: everything rests on them.
2. `IpcPreempt`, `IpcAtomic`: how far calls are atomic.
3. `Mm`, `Family`.
4. `Fs`.
5. `FsRdwt`, `Files`, with requests of any length.
6. `Tty`, `Hd`.
7. `Sched`, its part of `KernelProofs`.
8. `Keyboard`, `Console`, `Terminal`.
9. Proofs: `IpcMailbox` implements `Mailbox`; `Hd`; `Fs`; `Mm` and its refinement
   of `Family`; the consoles; `Tty`.
10. Proofs about preemptible calls: `StructureSurvives`, then that `IpcAtomic`
    implements `Ipc` step by step.
11. Proofs by induction over data: `FsRdwt` and its refinement of `Files`, the
    walk of `deadlock()`, the chain of partition tables, the order of keys.
12. `mkfs()` as steps, and an abstract table of open files in the manner of Unix
    for `Fs`.
