-------------------------------- MODULE Tty --------------------------------
(***************************************************************************)
(* Terminals: the path of an OPEN, READ or WRITE of a terminal from a      *)
(* process through FS to TASK_TTY, the suspension of a reader until its    *)
(* line is typed, and the keyboard's interrupts, over the message passing  *)
(* of Ipc.  What an open() does to FS's tables is in Fs.                   *)
(*                                                                         *)
(* A key is the scan codes of one event, decoded: keyboard_read() takes    *)
(* one event.  TTY drains a terminal's input queue each time it has put a  *)
(* key in it, so the queue is empty between the steps below.               *)
(***************************************************************************)
EXTENDS Ipc

CONSTANTS
  TTY, FS, User,
  NrConsoles,        \* NR_CONSOLES
  TtyOf,             \* process -> the terminal it has open
  KB_IN_BYTES,       \* events the keyboard's buffer holds
  OpsOf,             \* bound: what each process does, "OPEN", "READ", "WRITE"
  Keys,              \* bound: the keys that are pressed
  Lens               \* bound: lengths of reads and writes

Console == 0..(NrConsoles - 1)

ASSUME TtyAssumption ==
  /\ Proc = {TTY, FS} \cup User /\ IrqTask = {TTY} /\ TTY # FS
  /\ {TTY, FS} \cap User = {}
  /\ NrConsoles \in 1..3 /\ TtyOf \in [User -> Console]
  /\ OpsOf \in [User -> SUBSET {"OPEN", "READ", "WRITE"}]
  /\ Lens \subseteq Nat \ {0} /\ KB_IN_BYTES \in Nat

\* No two processes read from one terminal: its shell waits for the command
\* that it has started.  A second reader would take the place of the first.
ASSUME OneReader ==
  \A u, v \in User : u # v /\ "READ" \in OpsOf[u] \cap OpsOf[v] => TtyOf[u] # TtyOf[v]

VARIABLES
  kb_in,         \* key events the interrupt handler has stored
  key_pressed,
  current,       \* the console whose terminal reads the keyboard
  tty,           \* terminal -> [procnr, left, trans] of its reader
  ttypc,         \* where TASK_TTY is: [at, t]
  fspc,          \* where TASK_FS is: [at, src, len]
  pc             \* where a process is in its call: [at, op, len]

ipcvars == <<p_flags, p_recvfrom, p_sendto, p_msg, q_sending, has_int_msg, mem, panic>>
kbvars == <<kb_in, key_pressed>>
ttyvars == <<current, tty, ttypc>>
allvars == <<ipcvars, kbvars, ttyvars, fspc, pc>>

\* "char": a printable key; "other": a break code, or a key without meaning
\* here; the rest: Ctrl and a function key, which select a console.
FKey == <<"F1", "F2", "F3">>
Key == {"char", "enter", "backspace", "other"} \cup {FKey[t + 1] : t \in Console}
ASSUME KeysAssumption == Keys \subseteq Key

select_console(k) ==
  IF \E t \in Console : FKey[t + 1] = k THEN CHOOSE t \in Console : FKey[t + 1] = k ELSE current

Msg(op, t, who, n) == [op |-> op, tty |-> t, who |-> who, cnt |-> n]
Ret(n) == Msg("SYSCALL_RET", 0, NO_TASK, n)

\* Only READ and WRITE have a length.
LensOf(op) == IF op = "OPEN" THEN {0} ELSE Lens
Counts == {0} \cup UNION {0..n : n \in Lens}

MessageType ==
  {Msg(op, t, u, n) : op \in {"OPEN", "READ", "WRITE", "DEV_OPEN", "DEV_READ", "DEV_WRITE"},
                      t \in Console, u \in User, n \in Lens \cup {0}}
    \cup {Msg("RESUME_PROC", 0, u, n) : u \in User, n \in Counts}
    \cup {Msg(op, 0, NO_TASK, n) : op \in {"SYSCALL_RET", "SUSPEND_PROC"}, n \in Counts}
ASSUME MessageAssumption == MessageType \subseteq Type

NoReader == [procnr |-> NO_TASK, left |-> 0, trans |-> 0]

TtyInit ==
  /\ Init
  /\ kb_in = << >> /\ key_pressed = 0
  /\ current = 0
  /\ tty = [t \in Console |-> NoReader]
  /\ ttypc = [at |-> "service", t |-> 0]
  /\ fspc = [at |-> "loop", src |-> NO_TASK, len |-> 0]
  /\ pc = [u \in User |-> [at |-> "run", op |-> "none", len |-> 0]]

-----------------------------------------------------------------------------
(* Interrupts.                                                             *)

keyboard_handler(k) ==
  /\ panic = "no"
  /\ kb_in' = IF Len(kb_in) < KB_IN_BYTES THEN Append(kb_in, k) ELSE kb_in
  /\ key_pressed' = 1
  /\ UNCHANGED <<ipcvars, ttyvars, fspc, pc>>

\* Every tick informs TTY as long as it has not cleared key_pressed.
clock_handler ==
  /\ key_pressed = 1
  /\ InformStep(TTY)
  /\ UNCHANGED <<kbvars, ttyvars, fspc, pc>>

-----------------------------------------------------------------------------
(* open(), read() and write() of a terminal.                               *)

UserSend(u, op, n) ==
  /\ pc[u].at = "run"
  /\ SendStep(u, FS, Msg(op, TtyOf[u], u, n))
  /\ pc' = [pc EXCEPT ![u] = [at |-> "sent", op |-> op, len |-> n]]
  /\ UNCHANGED <<kbvars, ttyvars, fspc>>

UserReceive(u) ==
  /\ pc[u].at = "sent"
  /\ ReceiveStep(u, FS)
  /\ pc' = [pc EXCEPT ![u].at = "wait"]
  /\ UNCHANGED <<kbvars, ttyvars, fspc>>

UserReturn(u) ==
  /\ pc[u].at = "wait" /\ CanCall(u)
  /\ pc' = [pc EXCEPT ![u] = [at |-> "run", op |-> "none", len |-> 0]]
  /\ UNCHANGED <<ipcvars, kbvars, ttyvars, fspc>>

-----------------------------------------------------------------------------
(* TASK_FS: the character device parts of do_open() and do_rdwt().         *)

FsReceive ==
  /\ fspc.at = "loop"
  /\ ReceiveStep(FS, ANY)
  /\ fspc' = [fspc EXCEPT !.at = "got"]
  /\ UNCHANGED <<kbvars, ttyvars, pc>>

FsGot(op) == fspc.at = "got" /\ CanCall(FS) /\ mem[FS].type.op = op

DevOp(op) ==
  CASE op = "OPEN" -> "DEV_OPEN" [] op = "READ" -> "DEV_READ" [] OTHER -> "DEV_WRITE"

Requested == FsGot("OPEN") \/ FsGot("READ") \/ FsGot("WRITE")

\* A DEV_OPEN says only which terminal: nobody reads its other fields.
FsForward ==
  LET m == mem[FS].type IN
  /\ Requested
  /\ SendStep(FS, TTY, Msg(DevOp(m.op), m.tty, mem[FS].source, m.cnt))
  /\ fspc' = [at |-> "sent", src |-> mem[FS].source, len |-> m.cnt]
  /\ UNCHANGED <<kbvars, ttyvars, pc>>

\* Mutant of FsAwait: any message counts as TTY's answer.
FsAwaitAnyone ==
  /\ fspc.at = "sent"
  /\ ReceiveStep(FS, ANY)
  /\ fspc' = [fspc EXCEPT !.at = "back"]
  /\ UNCHANGED <<kbvars, ttyvars, pc>>

FsAwait ==
  /\ fspc.at = "sent"
  /\ ReceiveStep(FS, TTY)
  /\ fspc' = [fspc EXCEPT !.at = "back"]
  /\ UNCHANGED <<kbvars, ttyvars, pc>>

FsIdle == [at |-> "loop", src |-> NO_TASK, len |-> 0]

\* The answer goes to the caller, unless TTY has suspended it.
FsReply ==
  /\ fspc.at = "back" /\ CanCall(FS) /\ mem[FS].type.op # "SUSPEND_PROC"
  /\ SendStep(FS, fspc.src, Ret(mem[FS].type.cnt))
  /\ fspc' = FsIdle
  /\ UNCHANGED <<kbvars, ttyvars, pc>>

\* Mutant of FsSuspend: the suspended caller is answered, too.
FsAnswerSuspended ==
  /\ fspc.at = "back" /\ CanCall(FS) /\ mem[FS].type.op = "SUSPEND_PROC"
  /\ SendStep(FS, fspc.src, Ret(0))
  /\ fspc' = FsIdle
  /\ UNCHANGED <<kbvars, ttyvars, pc>>

FsSuspend ==
  /\ fspc.at = "back" /\ CanCall(FS) /\ mem[FS].type.op = "SUSPEND_PROC"
  /\ fspc' = FsIdle
  /\ UNCHANGED <<ipcvars, kbvars, ttyvars, pc>>

\* Mutant of FsResume: the answer goes to who sent the message.
FsResumeSender ==
  /\ FsGot("RESUME_PROC")
  /\ SendStep(FS, mem[FS].source, Ret(mem[FS].type.cnt))
  /\ fspc' = FsIdle
  /\ UNCHANGED <<kbvars, ttyvars, pc>>

FsResume ==
  /\ FsGot("RESUME_PROC")
  /\ SendStep(FS, mem[FS].type.who, Ret(mem[FS].type.cnt))
  /\ fspc' = FsIdle
  /\ UNCHANGED <<kbvars, ttyvars, pc>>

-----------------------------------------------------------------------------
(* TASK_TTY.                                                               *)

TtyAt(s) == ttypc.at = s /\ CanCall(TTY)

After(t) ==
  IF t + 1 \in Console THEN [at |-> "service", t |-> t + 1] ELSE [at |-> "receive", t |-> 0]

\* tty_dev_write(): what a character does to the terminal's reader.
Typed(r, k) ==
  CASE r.left > 0 /\ k = "char" -> [r EXCEPT !.trans = @ + 1, !.left = @ - 1]
    [] r.left > 0 /\ k = "backspace" /\ r.trans > 0 -> [r EXCEPT !.trans = @ - 1, !.left = @ + 1]
    [] OTHER -> r

\* Mutant of Complete: a full buffer does not end the line.
CompleteOnEnter(r, k) == r.left > 0 /\ k = "enter"

\* The reader's line is complete.
Complete(r, k) == r.left > 0 /\ (k = "enter" \/ Typed(r, k).left = 0)

\* Nothing to read for terminal t: it is not shown, or no key is there.
ServiceNothing ==
  LET t == ttypc.t IN
  /\ TtyAt("service") /\ (t # current \/ kb_in = << >>)
  /\ ttypc' = After(t)
  /\ UNCHANGED <<ipcvars, kbvars, current, tty, fspc, pc>>

\* tty_dev_read() takes one key event, in_process() and tty_dev_write() act
\* on it.
ServiceKey ==
  LET t == ttypc.t
      k == Head(kb_in)
  IN
  /\ TtyAt("service") /\ t = current /\ kb_in # << >>
  /\ kb_in' = Tail(kb_in)
  /\ current' = select_console(k)
  /\ tty' = [tty EXCEPT ![t] = Typed(@, k)]
  /\ ttypc' = IF Complete(tty[t], k) THEN [at |-> "resume", t |-> t] ELSE After(t)
  /\ UNCHANGED <<ipcvars, key_pressed, fspc, pc>>

\* The reader's line goes to FS; the terminal has no reader any more, and the
\* next one overwrites what is left of this one.
Resume ==
  LET t == ttypc.t IN
  /\ TtyAt("resume")
  /\ SendStep(TTY, FS, Msg("RESUME_PROC", 0, tty[t].procnr, tty[t].trans))
  /\ tty' = [tty EXCEPT ![t] = NoReader]
  /\ ttypc' = After(t)
  /\ UNCHANGED <<kbvars, current, fspc, pc>>

TtyReceive ==
  /\ ttypc.at = "receive"
  /\ ReceiveStep(TTY, ANY)
  /\ ttypc' = [ttypc EXCEPT !.at = "got"]
  /\ UNCHANGED <<kbvars, current, tty, fspc, pc>>

Again == [at |-> "service", t |-> 0]

TtyInterrupt ==
  /\ TtyAt("got") /\ mem[TTY].type = HARD_INT
  /\ key_pressed' = 0
  /\ ttypc' = Again
  /\ UNCHANGED <<ipcvars, kb_in, current, tty, fspc, pc>>

Asked(op) == TtyAt("got") /\ mem[TTY].type # HARD_INT /\ mem[TTY].type.op = op

tty_do_read ==
  LET m == mem[TTY].type IN
  /\ Asked("DEV_READ")
  /\ tty' = [tty EXCEPT ![m.tty] = [procnr |-> m.who, left |-> m.cnt, trans |-> 0]]
  /\ SendStep(TTY, mem[TTY].source, Msg("SUSPEND_PROC", 0, NO_TASK, m.cnt))
  /\ ttypc' = Again
  /\ UNCHANGED <<kbvars, current, fspc, pc>>

\* Mutant of tty_do_write: no answer.
WriteUnanswered ==
  /\ Asked("DEV_WRITE")
  /\ ttypc' = Again
  /\ UNCHANGED <<ipcvars, kbvars, current, tty, fspc, pc>>

tty_do_write ==
  /\ Asked("DEV_WRITE")
  /\ SendStep(TTY, mem[TTY].source, Ret(mem[TTY].type.cnt))
  /\ ttypc' = Again
  /\ UNCHANGED <<kbvars, current, tty, fspc, pc>>

tty_open ==
  /\ Asked("DEV_OPEN")
  /\ SendStep(TTY, mem[TTY].source, Ret(0))
  /\ ttypc' = Again
  /\ UNCHANGED <<kbvars, current, tty, fspc, pc>>

-----------------------------------------------------------------------------
TtyTask == ServiceNothing \/ ServiceKey \/ Resume \/ TtyReceive \/ TtyInterrupt
             \/ tty_open \/ tty_do_read \/ tty_do_write
FsTask == FsReceive \/ FsForward \/ FsAwait \/ FsReply \/ FsSuspend \/ FsResume
UserRuns(u) == UserReceive(u) \/ UserReturn(u)

TtyNext ==
  \/ \E k \in Keys : keyboard_handler(k)
  \/ clock_handler
  \/ \E u \in User : UserRuns(u) \/ \E op \in OpsOf[u] : \E n \in LensOf(op) : UserSend(u, op, n)
  \/ FsTask
  \/ TtyTask

TtySpec == TtyInit /\ [][TtyNext]_allvars

\* Every runnable process runs again, and the clock ticks.
TtyFairSpec ==
  /\ TtySpec
  /\ WF_allvars(TtyTask) /\ WF_allvars(FsTask) /\ WF_allvars(clock_handler)
  /\ \A u \in User : WF_allvars(UserRuns(u))

-----------------------------------------------------------------------------
(* Properties.                                                             *)

TtyTypeOK ==
  /\ TypeOK
  /\ kb_in \in Seq(Key) /\ Len(kb_in) <= KB_IN_BYTES /\ key_pressed \in {0, 1}
  /\ current \in Console
  /\ \A t \in Console : tty[t].procnr \in User \cup {NO_TASK} /\ {tty[t].left, tty[t].trans} \subseteq Nat
  /\ ttypc.t \in Console

Reading(u) == pc[u].op = "READ"

\* A terminal only ever stores characters into the buffer of a process that
\* still waits for them, and within the length it asked for.
ReaderStillWaits ==
  \A t \in Console : tty[t].left > 0 =>
    LET u == tty[t].procnr IN
    /\ TtyOf[u] = t /\ Reading(u) /\ pc[u].at # "run"
    /\ ~(pc[u].at = "wait" /\ p_flags[u] = {})
    /\ tty[t].left + tty[t].trans = pc[u].len

InFlight(u) ==
  \/ Sending(u)
  \/ Requested /\ mem[FS].source = u
  \/ fspc.at \in {"sent", "back"} /\ fspc.src = u
  \/ \E t \in Console : tty[t].left > 0 /\ tty[t].procnr = u
  \/ ttypc.at = "resume" /\ tty[ttypc.t].procnr = u
  \/ Sending(TTY) /\ mem[TTY].type = Msg("RESUME_PROC", 0, u, mem[TTY].type.cnt)
  \/ FsGot("RESUME_PROC") /\ mem[FS].type.who = u
  \/ Sending(FS) /\ p_sendto[FS] = u

\* A process that sleeps in its call is not forgotten: its request or its
\* answer is with FS, with TTY or between them.
NobodyForgotten ==
  panic = "no" => \A u \in User : p_flags[u] # {} => InFlight(u)

\* Whoever waits at a terminal, TTY and FS know of him, with every variable of
\* its type.
ReadersKept == TtyTypeOK /\ ReaderStillWaits /\ NobodyForgotten

\* FS, waiting for TTY's answer to a request it has passed on, never takes the
\* resumption of another reader for it: do_rdwt()'s assertion that the count
\* comes back unchanged holds.
AnswerIsToRequest ==
  fspc.at = "back" /\ CanCall(FS) =>
    /\ mem[FS].type.op = IF pc[fspc.src].op = "READ" THEN "SUSPEND_PROC" ELSE "SYSCALL_RET"
    /\ mem[FS].type.cnt = fspc.len

\* The machine stops over a circle of senders only when TTY's resumption of a
\* reader crosses a request that FS passes on to TTY, which may be that of an
\* open(), too.
OnlyResumeDeadlocks ==
  panic # "no" =>
    /\ mem[TTY].type # HARD_INT /\ mem[TTY].type.op = "RESUME_PROC"
    /\ mem[FS].type.op \in {"DEV_OPEN", "DEV_READ", "DEV_WRITE"}
    /\ Sending(FS) \/ Sending(TTY)

\* A completed line reaches its reader, unless the machine stops so.
LinesArrive ==
  \A u \in User : (ttypc.at = "resume" /\ tty[ttypc.t].procnr = u)
                    ~> (panic # "no" \/ pc[u].at = "run")

\* Every write() and every open() returns once the keyboard rests, unless the
\* machine stops so.
WritesReturn ==
  <>[](key_pressed = 0) =>
    \A u \in User : \A op \in OpsOf[u] \ {"READ"} :
      (pc[u].op = op) ~> (panic # "no" \/ pc[u].at = "run")
=============================================================================
