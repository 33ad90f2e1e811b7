--------------------------------- MODULE Mm ---------------------------------
(***************************************************************************)
(* The memory manager MM (src/mm) and the life of processes: fork, exit,   *)
(* wait and exec as conversations of MM with its callers and with FS, over *)
(* the message passing of Ipc.  A request is what lib/misc.c makes of      *)
(* send_recv(BOTH): a SEND and then a RECEIVE, and the caller may be       *)
(* preempted in between.                                                   *)
(*                                                                         *)
(* MM alone changes p_parent, exit_status and the flags WAITING, HANGING   *)
(* and FREE_SLOT, so what it does between two messages is one step.        *)
(***************************************************************************)
EXTENDS Ipc, Integers, FiniteSets

CONSTANTS
  Slot,           \* the numbers of the entries that fork() may fill
  HasMemory,      \* the slots whose memory block lies below memory_size
  Op,             \* what user processes ask MM for
  Status,         \* the exit statuses they use
  InitForks       \* how many shells Init() starts before it waits

(* Process numbers of the tasks and of the first user process.             *)
TASK_TTY == 0
FS       == 3
MM       == 4
INIT     == 5

ASSUME MmAssumption ==
  /\ Proc = {FS, MM, INIT} \cup Slot
  /\ Slot \subseteq Nat /\ \A s \in Slot : s > INIT
  /\ 0 \notin Status /\ IrqTask = {}
  /\ Op \subseteq {"FORK", "EXIT", "WAIT", "EXEC"} /\ InitForks \in Nat

VARIABLES
  p_parent, exit_status,   \* of the process table entry
  pc,      \* where a user process is in its calls: its eip
  forks,   \* the forks Init() has asked for
  mm,      \* where MM is, and the variables of the handler it is in
  fs       \* where FS is in its message loop

mmvars == <<p_flags, p_recvfrom, p_sendto, p_msg, q_sending, has_int_msg, mem,
            panic, p_parent, exit_status, pc, forks, mm, fs>>

User == {INIT} \cup Slot

WAITING   == "WAITING"
HANGING   == "HANGING"
FREE_SLOT == "FREE_SLOT"

Request(op, st) == [op |-> op, pid |-> 0, val |-> st]
Ret(pid, val)   == [op |-> "SYSCALL_RET", pid |-> pid, val |-> val]

(* The messages of MM and its partners: the constant Type is this set.     *)
RequestType ==
  {Request(op, 0) : op \in {"FORK", "WAIT", "EXEC", "FILE", "READ"}}
    \cup {Request("EXIT", st) : st \in Status \cup {0}}
ReplyType ==
  {Ret(pid, val) : pid \in Slot \cup {0, NO_TASK}, val \in Status \cup {0, -1}}

MmAt == {"loop", "dispatch", "image", "forkfs", "forkwait", "birth", "exitfs",
         "exitwait", "exit", "cleanup", "free", "reparent", "statfs", "statwait",
         "openfs", "openwait", "readfs", "readwait", "load", "program", "reply"}

MmTypeOK ==
  /\ p_flags \in [Proc -> SUBSET {SENDING, RECEIVING, WAITING, HANGING, FREE_SLOT}]
  /\ p_parent \in [Proc -> User \cup {TASK_TTY, NO_TASK}]
  /\ exit_status \in [Proc -> Status \cup {0}]
  /\ pc \in [User -> [at : {"run", "sent", "wait", "spin"},
                      op : {"FORK", "EXIT", "WAIT", "EXEC", "none"}]]
  /\ forks \in 0..InitForks
  /\ mm \in [at : MmAt, src : User \cup {0}, who : Slot \cup {0},
             val : Status \cup {0, -1}]
  /\ fs \in {"loop", "serve"}
  /\ panic \in {"no", "DEADLOCK", "NOMEM", "TORN"}

Running == [at |-> "run", op |-> "none"]
MmIdle  == [at |-> "loop", src |-> 0, who |-> 0, val |-> 0]

(* kernel_main(): entries past the native processes are free and otherwise *)
(* zero; the native processes have no parent.                              *)
MmInit ==
  /\ p_flags = [p \in Proc |-> IF p \in Slot THEN {FREE_SLOT} ELSE {}]
  /\ p_recvfrom = [p \in Proc |-> NO_TASK]
  /\ p_sendto = [p \in Proc |-> NO_TASK]
  /\ p_msg = [p \in Proc |-> 0]
  /\ q_sending = [p \in Proc |-> << >>]
  /\ has_int_msg = [p \in Proc |-> 0]
  /\ mem = [p \in Proc |-> [source |-> NO_TASK, type |-> EMPTY]]
  /\ panic = "no"
  /\ p_parent = [p \in Proc |-> IF p \in Slot THEN TASK_TTY ELSE NO_TASK]
  /\ exit_status = [p \in Proc |-> 0]
  /\ pc = [p \in User |-> Running]
  /\ forks = 0
  /\ mm = MmIdle
  /\ fs = "loop"

-----------------------------------------------------------------------------
(* User processes: the library's fork(), exit(), wait() and exec().        *)

lifecycle == <<p_parent, exit_status>>

(* Init() forks InitForks shells and then waits for ever; every other      *)
(* process may ask for anything.                                           *)
MayAsk(p, op) ==
  IF p = INIT THEN op = (IF forks < InitForks THEN "FORK" ELSE "WAIT")
  ELSE op \in Op

UserSend(p, op, st) ==
  /\ pc[p].at = "run" /\ MayAsk(p, op)
  /\ st \in (IF op = "EXIT" THEN Status ELSE {0})
  /\ SendStep(p, MM, Request(op, st))
  /\ pc' = [pc EXCEPT ![p] = [at |-> "sent", op |-> op]]
  /\ forks' = IF p = INIT /\ op = "FORK" THEN forks + 1 ELSE forks
  /\ UNCHANGED <<lifecycle, mm, fs>>

(* MM, which the clock may interrupt, is copying p's table entry and image *)
(* (also the child's: runnable as soon as its entry is filled, it uses the *)
(* parent's memory until its own is ready) or writing a new program to it. *)
Copying(p) ==
  \/ mm.at = "image" /\ p \in {mm.src, mm.who}
  \/ mm.at = "program" /\ p = mm.src

UserReceive(p) ==
  /\ pc[p].at = "sent" /\ ~Copying(p)
  /\ ReceiveStep(p, MM)
  /\ pc' = [pc EXCEPT ![p].at = "wait"]
  /\ UNCHANGED <<lifecycle, forks, mm, fs>>

(* A process in front of its RECEIVE runs meanwhile: registers, flags and  *)
(* stack of the copy are of different moments, or two processes share one  *)
(* stack.  What becomes of them is not followed.                           *)
UserRunTorn(p) ==
  /\ pc[p].at = "sent" /\ Copying(p) /\ CanCall(p)
  /\ panic' = "TORN"
  /\ UNCHANGED <<p_flags, p_recvfrom, p_sendto, p_msg, q_sending, has_int_msg,
                 mem, lifecycle, pc, forks, mm, fs>>

(* The reply is there.  fork() asserts that it succeeded, and a failed     *)
(* assertion of a user process leaves it spinning (misc.c:34).             *)
UserReturn(p) ==
  /\ pc[p].at = "wait" /\ CanCall(p)
  /\ pc' = [pc EXCEPT ![p] =
              IF @.op = "FORK" /\ mem[p].type.val # 0
              THEN [at |-> "spin", op |-> "FORK"] ELSE Running]
  /\ UNCHANGED <<p_flags, p_recvfrom, p_sendto, p_msg, q_sending, has_int_msg,
                 mem, panic, lifecycle, forks, mm, fs>>

-----------------------------------------------------------------------------
(* FS, as far as MM needs it: one request is received, served and answered,*)
(* but for the READ of a terminal, whose reader TTY tells FS to suspend.   *)
(* Of a terminal's zero bytes (do_stat() says so) TTY never resumes it.    *)

FsReceive ==
  /\ fs = "loop"
  /\ ReceiveStep(FS, ANY)
  /\ fs' = "serve"
  /\ UNCHANGED <<lifecycle, pc, forks, mm>>

FsReply ==
  /\ fs = "serve" /\ CanCall(FS)
  /\ \E val \in (IF mem[FS].type.op = "FILE" THEN {0, -1} ELSE {0}) :
        SendStep(FS, mem[FS].source, Ret(0, val))
  /\ fs' = "loop"
  /\ UNCHANGED <<lifecycle, pc, forks, mm>>

FsSuspend ==
  /\ fs = "serve" /\ CanCall(FS) /\ mem[FS].type.op = "READ"
  /\ fs' = "loop"
  /\ UNCHANGED <<p_flags, p_recvfrom, p_sendto, p_msg, q_sending, has_int_msg,
                 mem, panic, lifecycle, pc, forks, mm>>

-----------------------------------------------------------------------------
(* MM's message loop.                                                      *)

OthersIdle == UNCHANGED <<pc, forks, fs>>
TableUnchanged == UNCHANGED <<p_flags, p_recvfrom, p_sendto, p_msg, q_sending,
                              has_int_msg, mem, panic>>

MmAtStep(s) == mm.at = s /\ CanCall(MM)

(* A SEND or RECEIVE of MM, after which it is at next.                     *)
MmSend(dest, m, next) ==
  /\ SendStep(MM, dest, m)
  /\ mm' = [mm EXCEPT !.at = next]
  /\ UNCHANGED lifecycle /\ OthersIdle
MmAwait(src, next) ==
  /\ ReceiveStep(MM, src)
  /\ mm' = [mm EXCEPT !.at = next]
  /\ UNCHANGED lifecycle /\ OthersIdle

MmReceive == mm.at = "loop" /\ MmAwait(ANY, "dispatch")

Asked(op) == MmAtStep("dispatch") /\ mem[MM].type.op = op
Caller == mem[MM].source

(* The reply of task_mm() to the requests that do_* does not answer itself.*)
MmReply == mm.at = "reply" /\ MmSend(mm.src, Ret(mm.who, mm.val), "loop")

-----------------------------------------------------------------------------
(* do_fork().                                                              *)

First(S) == CHOOSE c \in S : \A d \in S : c <= d

(* Mutant: zombies would count as free.                                    *)
FreeOrHanging == {s \in Slot : p_flags[s] \cap {FREE_SLOT, HANGING} # {}}
FreeSlots == {s \in Slot : p_flags[s] = {FREE_SLOT}}
LowestFree == First(FreeSlots)

ForkNoSlot ==
  /\ Asked("FORK") /\ FreeSlots = {}
  /\ mm' = [MmIdle EXCEPT !.at = "reply", !.src = Caller, !.val = -1]
  /\ TableUnchanged /\ UNCHANGED lifecycle /\ OthersIdle

(* alloc_mem() panics when the block would end beyond the memory.          *)
ForkNoMemory ==
  /\ Asked("FORK") /\ FreeSlots # {} /\ LowestFree \notin HasMemory
  /\ panic' = "NOMEM"
  /\ UNCHANGED <<p_flags, p_recvfrom, p_sendto, p_msg, q_sending, has_int_msg,
                 mem, lifecycle, pc, forks, mm, fs>>

(* The child's table entry is a copy of the caller's: it continues wherever*)
(* the caller is, blocked in its RECEIVE from MM or in front of it.        *)
ForkCopy ==
  /\ Asked("FORK") /\ FreeSlots # {} /\ LowestFree \in HasMemory
  /\ LET c == LowestFree  p == Caller IN
     /\ p_flags' = [p_flags EXCEPT ![c] = p_flags[p]]
     /\ p_recvfrom' = [p_recvfrom EXCEPT ![c] = p_recvfrom[p]]
     /\ p_sendto' = [p_sendto EXCEPT ![c] = p_sendto[p]]
     /\ p_msg' = [p_msg EXCEPT ![c] = p_msg[p]]
     /\ q_sending' = [q_sending EXCEPT ![c] = q_sending[p]]
     /\ has_int_msg' = [has_int_msg EXCEPT ![c] = has_int_msg[p]]
     /\ mem' = [mem EXCEPT ![c] = mem[p]]
     /\ exit_status' = [exit_status EXCEPT ![c] = exit_status[p]]
     /\ p_parent' = [p_parent EXCEPT ![c] = p]
     /\ pc' = [pc EXCEPT ![c] = pc[p]]
     /\ mm' = [MmIdle EXCEPT !.at = "image", !.src = p, !.who = c]
  /\ UNCHANGED <<panic, forks, fs>>

(* Its memory is a copy, and its own LDT points there.                     *)
ForkImage ==
  /\ MmAtStep("image")
  /\ mm' = [mm EXCEPT !.at = "forkfs"]
  /\ TableUnchanged /\ UNCHANGED lifecycle /\ OthersIdle

ForkTellFs == mm.at = "forkfs" /\ MmSend(FS, Request("FORK", 0), "forkwait")
ForkFsDone == mm.at = "forkwait" /\ MmAwait(FS, "birth")

(* Mutant: the parent would not be answered.                               *)
ForkBirthOnly == mm.at = "birth" /\ MmSend(mm.who, Ret(0, 0), "loop")

(* "birth of the child": it leaves fork() with 0.                          *)
ForkBirth == mm.at = "birth" /\ MmSend(mm.who, Ret(0, 0), "reply")

-----------------------------------------------------------------------------
(* do_exit() and cleanup().                                                *)

ExitBegin ==
  /\ Asked("EXIT")
  /\ mm' = [MmIdle EXCEPT !.at = "exitfs", !.src = Caller,
                           !.val = mem[MM].type.val]
  /\ TableUnchanged /\ UNCHANGED lifecycle /\ OthersIdle

ExitTellFs == mm.at = "exitfs" /\ MmSend(FS, Request("EXIT", 0), "exitwait")
ExitFsDone == mm.at = "exitwait" /\ MmAwait(FS, "exit")

(* Mutants: the parent would be told whether it waits or not; or it would  *)
(* keep its WAITING flag.                                                  *)
ExitMarkAlwaysTell ==
  /\ MmAtStep("exit")
  /\ LET p == mm.src  parent == p_parent[p] IN
     /\ exit_status' = [exit_status EXCEPT ![p] = mm.val]
     /\ p_flags' = [p_flags EXCEPT ![parent] = @ \ {WAITING}]
     /\ mm' = [mm EXCEPT !.at = "cleanup", !.who = p]
  /\ UNCHANGED <<p_recvfrom, p_sendto, p_msg, q_sending, has_int_msg, mem, panic,
                 p_parent, pc, forks, fs>>
ExitMarkKeepWaiting ==
  /\ MmAtStep("exit")
  /\ LET p == mm.src  parent == p_parent[p] IN
     /\ exit_status' = [exit_status EXCEPT ![p] = mm.val]
     /\ IF WAITING \in p_flags[parent]
        THEN mm' = [mm EXCEPT !.at = "cleanup", !.who = p] /\ UNCHANGED p_flags
        ELSE /\ p_flags' = [p_flags EXCEPT ![p] = @ \cup {HANGING}]
             /\ mm' = [mm EXCEPT !.at = "reparent"]
  /\ UNCHANGED <<p_recvfrom, p_sendto, p_msg, q_sending, has_int_msg, mem, panic,
                 p_parent, pc, forks, fs>>

(* A waiting parent is told at once, otherwise the process is left HANGING *)
(* for its parent's wait().                                                *)
ExitMark ==
  /\ MmAtStep("exit")
  /\ LET p == mm.src  parent == p_parent[p] IN
     /\ exit_status' = [exit_status EXCEPT ![p] = mm.val]
     /\ IF WAITING \in p_flags[parent]
        THEN /\ p_flags' = [p_flags EXCEPT ![parent] = @ \ {WAITING}]
             /\ mm' = [mm EXCEPT !.at = "cleanup", !.who = p]
        ELSE /\ p_flags' = [p_flags EXCEPT ![p] = @ \cup {HANGING}]
             /\ mm' = [mm EXCEPT !.at = "reparent"]
  /\ UNCHANGED <<p_recvfrom, p_sendto, p_msg, q_sending, has_int_msg, mem, panic,
                 p_parent, pc, forks, fs>>

Children(p) == {c \in Proc : p_parent[c] = p}
Hanging(S) == {c \in S : HANGING \in p_flags[c]}

(* Mutant: INIT would not be told of the zombies.                          *)
ExitAdoptOnly ==
  /\ MmAtStep("reparent")
  /\ p_parent' = [c \in Proc |-> IF p_parent[c] = mm.src THEN INIT ELSE p_parent[c]]
  /\ mm' = MmIdle
  /\ TableUnchanged /\ UNCHANGED exit_status /\ OthersIdle

(* INIT becomes the parent of the children.  If it waits it is told of the *)
(* first zombie among them; then it waits no more.                         *)
ExitReparent ==
  /\ MmAtStep("reparent")
  /\ LET kids == Children(mm.src)  dead == Hanging(kids) IN
     /\ p_parent' = [c \in Proc |-> IF c \in kids THEN INIT ELSE p_parent[c]]
     /\ IF WAITING \in p_flags[INIT] /\ dead # {}
        THEN /\ p_flags' = [p_flags EXCEPT ![INIT] = @ \ {WAITING}]
             /\ mm' = [MmIdle EXCEPT !.at = "cleanup", !.who = First(dead)]
        ELSE /\ mm' = MmIdle
             /\ UNCHANGED p_flags
  /\ UNCHANGED <<p_recvfrom, p_sendto, p_msg, q_sending, has_int_msg, mem, panic,
                 exit_status, pc, forks, fs>>

(* Mutant: the status would be the one of the latest exit().               *)
CleanupTellLatest ==
  /\ mm.at = "cleanup"
  /\ MmSend(p_parent[mm.who], Ret(mm.who, mm.val), "free")

CleanupTell ==
  /\ mm.at = "cleanup"
  /\ MmSend(p_parent[mm.who], Ret(mm.who, exit_status[mm.who]), "free")

(* When the parent has the message, the slot is free.  do_exit() goes on   *)
(* with the children of the process that has just been freed (mm.src).     *)
CleanupFree ==
  /\ MmAtStep("free")
  /\ p_flags' = [p_flags EXCEPT ![mm.who] = {FREE_SLOT}]
  /\ mm' = IF mm.src = mm.who THEN [mm EXCEPT !.at = "reparent"] ELSE MmIdle
  /\ UNCHANGED <<p_recvfrom, p_sendto, p_msg, q_sending, has_int_msg, mem, panic,
                 lifecycle, pc, forks, fs>>

-----------------------------------------------------------------------------
(* do_wait().  Every entry whose p_parent is the caller counts as a child. *)

WaitZombie ==
  /\ Asked("WAIT") /\ Hanging(Children(Caller)) # {}
  /\ mm' = [MmIdle EXCEPT !.at = "cleanup", !.who = First(Hanging(Children(Caller)))]
  /\ TableUnchanged /\ UNCHANGED lifecycle /\ OthersIdle

(* Mutant: the caller would wait though a child is a zombie already.       *)
WaitForAnyChild ==
  /\ Asked("WAIT") /\ Children(Caller) # {}
  /\ p_flags' = [p_flags EXCEPT ![Caller] = @ \cup {WAITING}]
  /\ mm' = MmIdle
  /\ UNCHANGED <<p_recvfrom, p_sendto, p_msg, q_sending, has_int_msg, mem, panic,
                 lifecycle, pc, forks, fs>>

WaitForChild ==
  /\ Asked("WAIT") /\ Hanging(Children(Caller)) = {} /\ Children(Caller) # {}
  /\ p_flags' = [p_flags EXCEPT ![Caller] = @ \cup {WAITING}]
  /\ mm' = MmIdle
  /\ UNCHANGED <<p_recvfrom, p_sendto, p_msg, q_sending, has_int_msg, mem, panic,
                 lifecycle, pc, forks, fs>>

WaitNoChild ==
  /\ Asked("WAIT") /\ Children(Caller) = {}
  /\ SendStep(MM, Caller, Ret(NO_TASK, 0))
  /\ mm' = MmIdle
  /\ UNCHANGED lifecycle /\ OthersIdle

-----------------------------------------------------------------------------
(* do_exec(): stat(), open() and read() of the program, each a conversation*)
(* with FS; close() always succeeds and counts as one with read().         *)

ExecBegin ==
  /\ Asked("EXEC")
  /\ mm' = [MmIdle EXCEPT !.at = "statfs", !.src = Caller]
  /\ TableUnchanged /\ UNCHANGED lifecycle /\ OthersIdle

ExecStat == mm.at = "statfs" /\ MmSend(FS, Request("FILE", 0), "statwait")
ExecStatDone == mm.at = "statwait" /\ MmAwait(FS, "openfs")

(* No such file: the caller is told.                                       *)
ExecFail ==
  /\ \/ MmAtStep("openfs") \/ MmAtStep("readfs")
  /\ mem[MM].type.val = -1
  /\ mm' = [mm EXCEPT !.at = "reply", !.val = -1]
  /\ TableUnchanged /\ UNCHANGED lifecycle /\ OthersIdle

ExecOpen ==
  /\ MmAtStep("openfs") /\ mem[MM].type.val = 0
  /\ MmSend(FS, Request("FILE", 0), "openwait")
ExecOpenDone == mm.at = "openwait" /\ MmAwait(FS, "readfs")

ExecRead ==
  /\ MmAtStep("readfs") /\ mem[MM].type.val = 0
  /\ MmSend(FS, Request("READ", 0), "readwait")
ExecReadDone == mm.at = "readwait" /\ MmAwait(FS, "load")

(* The program and its arguments are copied into the caller's memory ...   *)
ExecLoad ==
  /\ MmAtStep("load")
  /\ mm' = [mm EXCEPT !.at = "program"]
  /\ TableUnchanged /\ UNCHANGED lifecycle /\ OthersIdle

(* ... and its eip and esp are those of the new program, whether or not it *)
(* had come to the RECEIVE of its call.                                    *)
ExecEnter ==
  /\ MmAtStep("program")
  /\ pc' = [pc EXCEPT ![mm.src] = Running]
  /\ mm' = [mm EXCEPT !.at = "reply"]
  /\ TableUnchanged /\ UNCHANGED <<lifecycle, forks, fs>>

-----------------------------------------------------------------------------
UserStep(p) ==
  \/ \E op \in Op \cup {"FORK", "WAIT"}, st \in Status \cup {0} : UserSend(p, op, st)
  \/ UserReceive(p)
  \/ UserRunTorn(p)
  \/ UserReturn(p)

FsStep == FsReceive \/ FsReply \/ FsSuspend

ForkStep ==
  \/ ForkNoSlot \/ ForkNoMemory \/ ForkCopy \/ ForkImage
  \/ ForkTellFs \/ ForkFsDone \/ ForkBirth
ExitStep == ExitBegin \/ ExitTellFs \/ ExitFsDone \/ ExitMark \/ ExitReparent
CleanupStep == CleanupTell \/ CleanupFree
WaitStep == WaitZombie \/ WaitForChild \/ WaitNoChild
ExecStep ==
  \/ ExecBegin \/ ExecStat \/ ExecStatDone \/ ExecFail \/ ExecOpen \/ ExecOpenDone
  \/ ExecRead \/ ExecReadDone \/ ExecLoad \/ ExecEnter

MmStep == MmReceive \/ MmReply \/ ForkStep \/ ExitStep \/ CleanupStep \/ WaitStep \/ ExecStep

MmNext == MmStep \/ FsStep \/ \E p \in User : UserStep(p)

MmSpec == MmInit /\ [][MmNext]_mmvars

-----------------------------------------------------------------------------
(* Safety.                                                                 *)

Used(s) == FREE_SLOT \notin p_flags[s]
Living(p) == Used(p) /\ HANGING \notin p_flags[p]

(* Whenever MM is ready for the next request, every process, living or     *)
(* zombie, has a living parent: nobody dies without his children, and his  *)
(* zombies, being handed to INIT (step <5> of do_exit()).                  *)
LivingParents ==
  mm.at = "loop" => \A s \in Slot : Used(s) => p_parent[s] \in User /\ Living(p_parent[s])

(* Nor does anybody sleep in wait() then while a child of his is a zombie, *)
(* in whichever order child and parent came to exit() and wait().          *)
NoMissedExit ==
  mm.at = "loop" =>
    \A p \in User : WAITING \in p_flags[p] => Hanging(Children(p)) = {}

(* Families are in order, with every variable of its type.                 *)
FamilyInv == MmTypeOK /\ LivingParents /\ NoMissedExit

(* The machine panics over a circle of senders in one situation only: MM   *)
(* replies to an exec() whose caller was still in front of its RECEIVE     *)
(* when ExecEnter set its registers, so that it never receives, and the    *)
(* new program sends to MM itself, before or after.                        *)
OnlyExecDeadlocks ==
  panic = "DEADLOCK" =>
    /\ mm.at = "loop" /\ mm.who = 0 /\ mm.val = 0 /\ mm.src \in User
    /\ (Sending(MM) /\ p_sendto[MM] = mm.src) \/ (Sending(mm.src) /\ p_sendto[mm.src] = MM)

-----------------------------------------------------------------------------
(* Action properties.                                                      *)

(* What MM tells a process is true when the process gets it: fork() yields *)
(* a living child of the caller, and 0 in the child; wait() yields a dead  *)
(* child of the caller with its status, or no child if there is none; and  *)
(* exit() yields nothing, ever.                                            *)
Told(p) == mem'[p] # mem[p] /\ mem'[p].source = MM
ReplyTruthStep ==
  \A p \in User :
    Told(p) =>
      LET r == mem'[p].type IN
      /\ pc[p].op # "EXIT"
      /\ pc[p].op = "FORK" /\ r.val = 0 =>
           \/ r.pid = 0 /\ Living(p_parent[p]) /\ pc[p_parent[p]].op = "FORK"
           \/ r.pid \in Slot /\ p_parent[r.pid] = p /\ Living(r.pid)
      /\ pc[p].op = "WAIT" =>
           IF r.pid = NO_TASK THEN \A s \in Slot : p_parent[s] = p => ~Used(s)
           ELSE p_parent[r.pid] = p /\ mm.who = r.pid /\ exit_status[r.pid] = r.val
ReplyTruth == [][ReplyTruthStep]_mmvars

(* A process that gets a message is runnable: no other flag is left to     *)
(* hold it (assert(p_dest->p_flags == 0) in msg_send(), unblock()).        *)
RunnableStep ==
  \A p \in Proc :
    RECEIVING \in p_flags[p] /\ RECEIVING \notin p_flags'[p] =>
      p_flags'[p] \in {{}, {FREE_SLOT}}
MessageMakesRunnable == [][RunnableStep]_mmvars

-----------------------------------------------------------------------------
(* Liveness.  schedule() lets every runnable process run (clock.c gives    *)
(* each its ticks anew), so a process that has begun a call goes on with   *)
(* it, the servers serve, and Init() goes on forking and waiting.          *)

Fairness ==
  /\ WF_mmvars(MmStep) /\ WF_mmvars(FsStep)
  /\ \A p \in User : WF_mmvars(UserReceive(p)) /\ WF_mmvars(UserReturn(p))
  /\ WF_mmvars(\E op \in {"FORK", "WAIT"} : UserSend(INIT, op, 0))

MmFairSpec == MmSpec /\ Fairness

(* MM has read a terminal as if it were a program, and nobody answers.     *)
Suspended ==
  /\ mm.at = "load" /\ RECEIVING \in p_flags[MM]
  /\ fs = "loop" \/ RECEIVING \in p_flags[FS]

(* The machine is down, a copy is torn, MM is stuck with the reply to an   *)
(* exec() whose caller runs the new program and does not receive (see      *)
(* OnlyExecDeadlocks), or with a terminal for a program.                   *)
Stuck ==
  \/ panic # "no"
  \/ Sending(MM) /\ p_sendto[MM] \in User /\ pc[p_sendto[MM]].op = "none"
  \/ Suspended

(* Whoever asks MM to fork, and whoever is born of it, goes on with the    *)
(* program after fork(), however busy the others keep MM, unless MM has    *)
(* answered -1, with which fork() never returns (UserReturn).              *)
ForksAnswered ==
  \A p \in User :
    pc[p] \in {[at |-> "sent", op |-> "FORK"], [at |-> "wait", op |-> "FORK"]}
      ~> \/ Stuck \/ pc[p].op # "FORK"
         \/ pc[p].at = "spin" /\ mem[p].type = Ret(0, -1)

(* A zombie that INIT has adopted or begotten is reaped.                   *)
OrphansReaped ==
  \A s \in Slot :
    (HANGING \in p_flags[s] /\ p_parent[s] = INIT) ~> (Stuck \/ ~Used(s))

=============================================================================
