---------------------------- MODULE KernelProofs ----------------------------
(***************************************************************************)
(* Two parts of the kernel that share nothing but the processor.  The      *)
(* scheduler: p_proc_ready can run whenever schedule() is not choosing,    *)
(* for any process table.  The terminal: the consoles stay in their parts  *)
(* of video memory and the display shows the current one, for any number   *)
(* of consoles, any screen and any memory, whatever the keys, the writers  *)
(* and printx() do; and the keys arrive in order and as they were meant,   *)
(* for a ring kb_in of any length.                                         *)
(***************************************************************************)
EXTENDS Terminal, Sched, Induction, SequenceTheorems, TLAPS

-----------------------------------------------------------------------------
(* The scheduler.                                                          *)

SchedTypeOK ==
  /\ state \in [Proc -> {"ready", "blocked", "free"}]
  /\ ticks \in [Proc -> Nat]
  /\ p_proc_ready \in Proc
  /\ kernel \in {"user", "call", "leave", "scan", "take", "refill"}
  /\ byClock \in BOOLEAN
  /\ p \in Proc /\ greatest_ticks \in Nat

(* A scan that has found ticks has left p_proc_ready at a process that can *)
(* run, and the entry it is about to take can run, too: both were ready    *)
(* when they were looked at, and nobody blocks while schedule() runs.      *)
ScanInv ==
  /\ InSchedule /\ greatest_ticks # 0 => p_proc_ready \in Ready
  /\ kernel = "take" => p \in Ready

SchedIInv == SchedTypeOK /\ RunsReady /\ ScanInv

LEMMA Numbers ==
  /\ FIRST_PROC \in Proc \ User
  /\ \A q \in Proc : q # LAST_PROC => q + 1 \in Proc
  /\ MM \in Proc \ User /\ User \subseteq Proc
BY SchedAssumption DEF Proc, FIRST_PROC, LAST_PROC

(* At the start everybody but the free entries is ready.                   *)
LEMMA SchedInitIInv == SchedInit => SchedIInv
<1> SUFFICES ASSUME SchedInit PROVE SchedIInv
  OBVIOUS
<1>1. ticks \in [Proc -> Nat]
  <2>1. priority \in [Proc -> Nat \ {0}]
    BY SchedAssumption
  <2>2. QED
    BY <2>1 DEF SchedInit
<1>2. state \in [Proc -> {"ready", "blocked", "free"}] /\ state[FIRST_PROC] = "ready"
  BY Numbers DEF SchedInit
<1>3. QED
  BY <1>1, <1>2, Numbers DEF SchedInit, SchedIInv, SchedTypeOK, RunsReady, ScanInv, InSchedule, Ready

(* The loops over the table stay inside it, and schedule() ends with the   *)
(* process that was taken.                                                 *)
LEMMA AdvanceKeeps ==
  ASSUME SchedTypeOK, NEW g \in Nat, Advance(g)
  PROVE  /\ p' \in Proc
         /\ kernel' \in {"scan", "refill", "leave"}
         /\ kernel' = "leave" => g # 0
BY Numbers DEF Advance, SchedTypeOK

(* The steps of schedule().                                                *)
LEMMA ScheduleKeeps ==
  ASSUME SchedIInv, Schedule
  PROVE  SchedIInv'
<1>1. CASE Skip
  <2>1. /\ p' \in Proc /\ kernel' \in {"scan", "refill", "leave"}
        /\ kernel' = "leave" => greatest_ticks # 0
    BY <1>1, AdvanceKeeps DEF Skip, SchedIInv, SchedTypeOK
  <2>2. QED
    BY <1>1, <2>1 DEF Skip, SchedIInv, SchedTypeOK, RunsReady, ScanInv, InSchedule, Ready
<1>2. CASE Better
  BY <1>2 DEF Better, Compare, SchedIInv, SchedTypeOK, RunsReady, ScanInv, InSchedule, Ready
<1>3. CASE Take
  <2>1. ticks[p] \in Nat
    BY DEF SchedIInv, SchedTypeOK
  <2>2. p' \in Proc /\ kernel' \in {"scan", "refill", "leave"}
    BY <1>3, <2>1, AdvanceKeeps DEF Take, SchedIInv
  <2>3. p \in Ready
    BY <1>3 DEF Take, SchedIInv, ScanInv
  <2>4. QED
    BY <1>3, <2>1, <2>2, <2>3 DEF Take, SchedIInv, SchedTypeOK, RunsReady, ScanInv, InSchedule, Ready
<1>4. CASE Refill
  BY <1>4, Numbers, SchedAssumption
  DEF Refill, SchedIInv, SchedTypeOK, RunsReady, ScanInv, InSchedule, Ready
<1>5. QED
  BY <1>1, <1>2, <1>3, <1>4 DEF Schedule

(* System calls.  A caller that blocks is given up at once.                *)
LEMMA CallsKeep ==
  ASSUME SchedIInv, Call \/ Block \/ Unblock \/ Restart
  PROVE  SchedIInv'
<1> USE DEF SchedIInv, SchedTypeOK, RunsReady, ScanInv, InSchedule, Ready, sched
<1>1. CASE Call
  BY <1>1 DEF Call
<1>2. CASE Block
  BY <1>2, Numbers DEF Block, BeginSchedule
<1>3. CASE Unblock
  BY <1>3 DEF Unblock
<1>4. CASE Restart
  BY <1>4, Numbers DEF Restart
<1>5. QED
  BY <1>1, <1>2, <1>3, <1>4

(* MM runs while it edits the table, and edits no task's entry.            *)
LEMMA EditsKeep ==
  ASSUME SchedIInv, Fork \/ Flag \/ Exit
  PROVE  SchedIInv'
<1> USE DEF SchedIInv, SchedTypeOK, RunsReady, ScanInv, InSchedule, Ready, sched
<1>1. CASE Fork
  BY <1>1, Numbers DEF Fork, MmEdits
<1>2. CASE Flag
  BY <1>2, Numbers DEF Flag, MmEdits
<1>3. CASE Exit
  BY <1>3, Numbers DEF Exit, MmEdits
<1>4. QED
  BY <1>1, <1>2, <1>3

(* An interrupt makes processes ready and none blocked.                    *)
LEMMA WakesKeeps ==
  ASSUME SchedTypeOK, NEW q, Wakes(q)
  PROVE  /\ state' \in [Proc -> {"ready", "blocked", "free"}]
         /\ Ready \subseteq Ready'
BY DEF SchedTypeOK, Wakes, Ready

LEMMA ChargedType ==
  ASSUME SchedTypeOK
  PROVE  Charged \in [Proc -> Nat]
BY DEF SchedTypeOK, Charged

LEMMA InterruptsKeep ==
  ASSUME SchedIInv, DiskInterrupt \/ Clock \/ NestedClock
  PROVE  SchedIInv'
<1>1. CASE DiskInterrupt
  <2>1. state' \in [Proc -> {"ready", "blocked", "free"}] /\ Ready \subseteq Ready'
    BY <1>1, WakesKeeps DEF DiskInterrupt, SchedIInv
  <2>2. QED
    BY <1>1, <2>1 DEF DiskInterrupt, sched, SchedIInv, SchedTypeOK, RunsReady, ScanInv, InSchedule
<1>2. CASE Clock \/ NestedClock
  <2>1. state' \in [Proc -> {"ready", "blocked", "free"}] /\ Ready \subseteq Ready'
    <3>1. CASE Wakes(TASK_TTY)
      BY <3>1, WakesKeeps DEF SchedIInv
    <3>2. CASE UNCHANGED state
      BY <3>2 DEF SchedIInv, SchedTypeOK, Ready
    <3>3. QED
      BY <1>2, <3>1, <3>2 DEF Clock, NestedClock, InformTty
  <2>2. ticks' \in [Proc -> Nat]
    BY <1>2, ChargedType DEF Clock, NestedClock, SchedIInv
  <2>3. CASE Clock
    <3>1. kernel = "user" /\ p_proc_ready' = p_proc_ready
      BY <2>3 DEF Clock
    <3>2. p_proc_ready \in Ready'
      BY <2>1, <3>1 DEF SchedIInv, RunsReady, InSchedule
    <3>3. CASE UNCHANGED <<kernel, sched>>
      BY <2>1, <2>2, <3>1, <3>2, <3>3
      DEF sched, SchedIInv, SchedTypeOK, RunsReady, ScanInv, InSchedule
    <3>4. CASE BeginSchedule(TRUE)
      BY <2>1, <2>2, <3>1, <3>2, <3>4, Numbers
      DEF BeginSchedule, SchedIInv, SchedTypeOK, RunsReady, ScanInv, InSchedule
    <3>5. QED
      BY <2>3, <3>3, <3>4 DEF Clock
  <2>4. CASE NestedClock
    BY <2>1, <2>2, <2>4 DEF NestedClock, sched, SchedIInv, SchedTypeOK, RunsReady, ScanInv, InSchedule
  <2>5. QED
    BY <1>2, <2>3, <2>4
<1>3. QED
  BY <1>1, <1>2

LEMMA SchedNextIInv == SchedIInv /\ [SchedNext]_schedvars => SchedIInv'
<1> SUFFICES ASSUME SchedIInv, [SchedNext]_schedvars PROVE SchedIInv'
  OBVIOUS
<1>1. CASE SchedNext
  BY <1>1, ScheduleKeeps, CallsKeep, EditsKeep, InterruptsKeep DEF SchedNext
<1>2. CASE UNCHANGED schedvars
  BY <1>2 DEF schedvars, SchedIInv, SchedTypeOK, RunsReady, ScanInv, InSchedule, Ready
<1>3. QED
  BY <1>1, <1>2

(* Whoever runs, in user mode or in a system call, and whoever the kernel  *)
(* is about to return to, can run: nested interrupts, wake-ups in the      *)
(* middle of schedule() and MM's edits of the table never leave            *)
(* p_proc_ready at a blocked or free entry.                                *)
THEOREM RunnerIsReady == SchedSpec => []RunsReady
<1>1. SchedIInv => RunsReady
  BY DEF SchedIInv
<1>2. QED
  BY SchedInitIInv, SchedNextIInv, <1>1, PTL DEF SchedSpec

-----------------------------------------------------------------------------
(* The terminal: lines of the screen.                                      *)

(* A position begins a line if it is so many lines behind the first one.   *)
LEMMA Quotient ==
  ASSUME NEW w \in Nat \ {0}, NEW a \in Nat, a % w = 0
  PROVE  \E q \in Nat : a = w * q
  OBVIOUS

LEMMA WholeLines ==
  ASSUME NEW w \in Nat \ {0}, NEW q \in Nat
  PROVE  (w * q) % w = 0
  OBVIOUS
LEMMA NextLine ==
  ASSUME NEW w \in Nat \ {0}, NEW a \in Nat
  PROVE  /\ w * (a \div w + 1) \in Nat
         /\ w * (a \div w + 1) > a
         /\ w * (a \div w + 1) <= a + w
  OBVIOUS

(* The rest of it.                                                         *)
LEMMA LinesAway ==
  ASSUME NEW w \in Nat \ {0}, NEW a \in Nat, a % w = 0
  PROVE  /\ \A k \in Nat : a + k * w \in Nat /\ (a + k * w) % w = 0
         /\ a > 0 => a - w \in Nat /\ (a - w) % w = 0
<1>1. PICK q \in Nat : a = w * q
  BY Quotient
<1>2. ASSUME NEW k \in Nat PROVE a + k * w \in Nat /\ (a + k * w) % w = 0
  <2>1. q + k \in Nat /\ a + k * w = w * (q + k)
    BY <1>1
  <2>2. w * (q + k) \in Nat
    OBVIOUS
  <2> QED
    BY <2>1, <2>2, WholeLines
<1>3. ASSUME a > 0 PROVE a - w \in Nat /\ (a - w) % w = 0
  <2>1. q - 1 \in Nat /\ a - w = w * (q - 1)
    BY <1>1, <1>3
  <2>2. w * (q - 1) \in Nat
    BY <2>1
  <2> QED
    BY <2>1, <2>2, WholeLines
<1> QED
  BY <1>2, <1>3

-----------------------------------------------------------------------------
(* The inductive invariant.                                                *)

Places ==
  {"idle", "switch", "load", "store", "loop", "up", "down", "up2", "down2", "move",
   "flush", "setcursor", "setstart"}

(* Whose turn it is, and on which console.                                 *)
PlacesOK ==
  /\ use \in Scenarios /\ DOMAIN pc = {"at", "t", "ch"} /\ pc.t \in Consoles
  /\ nr_current_console \in Consoles /\ raced \in BOOLEAN
  /\ DOMAIN out = {"at", "con", "ch", "vmem", "val", "after"}
  /\ out.at \in Places /\ out.con \in Consoles /\ out.after \in {"end", "loop", "key"}

(* A screen that begins at s begins with a line, and in memory.            *)
Screen(s) == s \in Nat /\ s % SCREEN_WIDTH = 0 /\ s + SCREEN_SIZE < v_mem_limit + SCREEN_WIDTH

ConsoleOK(k) == k \in [cursor : 0..(v_mem_limit - 1), start : Nat] /\ Screen(k.start)

(* What TTY has read is so when it uses it: nobody else moves the cursor   *)
(* or the screen of the console that it draws on.                          *)
DrawingInv ==
  /\ out.at \in {"switch", "load", "store"} => out.after = "end" /\ out.vmem = cursor
  /\ out.at \in {"load", "store"} => MayDraw(out.ch, cursor)
  /\ out.at = "store" => out.val = cursor
  /\ out.at = "up2" => start > 0
  /\ out.at = "down2" => MoreBelow
  /\ out.at = "move" => Screen(out.val)
  /\ out.at \in {"up", "down", "up2", "down2", "move"} => out.after # "end"
  /\ out.after = "end" /\ out.at \in {"flush", "setcursor", "setstart"} => ~BelowScreen

(* The display shows the current console, or TTY has yet to tell it where  *)
(* that has come to.                                                       *)
Showing(c) == [con |-> c, cursor |-> console[c].cursor, start |-> console[c].start]
DisplayInv ==
  /\ crtc \in [con : Consoles, cursor : Nat, start : Nat]
  /\ out.at = "idle" \/ out.con # nr_current_console => crtc = Showing(nr_current_console)
  /\ out.at \in {"setcursor", "setstart"} => out.con = nr_current_console
  /\ out.at = "setstart" => crtc.con = out.con /\ crtc.cursor = cursor

Undisturbed ==
  /\ DOMAIN console = Consoles /\ \A c \in Consoles : ConsoleOK(console[c])
  /\ DrawingInv /\ DisplayInv

TInv == PlacesOK /\ (~raced => Undisturbed)

(* Memory is longer than the screen, the screen not shorter than a line.   *)
LEMMA Sizes ==
  /\ SCREEN_WIDTH \in Nat \ {0} /\ SCREEN_SIZE \in Nat \ {0} /\ v_mem_limit \in Nat
  /\ SCREEN_WIDTH <= SCREEN_SIZE /\ SCREEN_SIZE < v_mem_limit
  /\ Consoles \subseteq Nat /\ 0 \in Consoles
<1>1. /\ SCREEN_WIDTH \in Nat \ {0} /\ SCREEN_SIZE \in Nat \ {0} /\ NR_CONSOLES \in Nat \ {0}
      /\ SCREEN_SIZE % SCREEN_WIDTH = 0 /\ v_mem_limit \in Nat /\ SCREEN_SIZE < v_mem_limit
  BY ConsoleAssumption
<1>2. SCREEN_WIDTH <= SCREEN_SIZE
  <2>1. SCREEN_SIZE - SCREEN_WIDTH \in Nat
    BY <1>1, LinesAway
  <2> QED
    BY <2>1, <1>1
<1> QED
  BY <1>1, <1>2 DEF Consoles

LEMMA InitTInv == Init => TInv
<1> SUFFICES ASSUME Init PROVE TInv
  OBVIOUS
<1> USE Sizes DEF Init, ConInit, LoopTop, Idle
<1>1. PlacesOK
  BY DEF PlacesOK, Places
<1>2. \A c \in Consoles : ConsoleOK(console[c])
  BY WholeLines DEF ConsoleOK, Screen
<1>3. DrawingInv
  BY DEF DrawingInv
<1>4. DisplayInv
  BY DEF DisplayInv, Showing
<1> QED
  BY <1>1, <1>2, <1>3, <1>4 DEF TInv, Undisturbed

-----------------------------------------------------------------------------
(* Steps that draw nothing, and those that begin to draw.                  *)

LEMMA NothingDrawn ==
  ASSUME TInv, UNCHANGED <<conVars, use>>, DOMAIN pc' = {"at", "t", "ch"}, pc.t' \in Consoles
  PROVE  TInv'
BY DEF TInv, PlacesOK, Undisturbed, ConsoleOK, Screen, DrawingInv, DisplayInv, Showing, conVars,
       cursor, start, MoreBelow, BelowScreen

(* TTY's place, wherever it goes.                                          *)
PlacesKept ==
  /\ UNCHANGED use /\ DOMAIN pc' = {"at", "t", "ch"} /\ pc.t' \in Consoles

LEMMA out_charBegins ==
  ASSUME TInv, PlacesKept, NEW c \in Consoles, NEW ch, out.at = "idle", out_char(c, ch)
  PROVE  TInv'
<1> USE DEF out_char, OnlyOut, Idle
<1>1. PlacesOK'
  BY DEF TInv, PlacesOK, PlacesKept, Places
<1>2. ASSUME ~raced' PROVE Undisturbed'
  <2>1. ~raced /\ Undisturbed
    BY <1>2 DEF TInv
  <2>2. DrawingInv'
    BY <2>1 DEF DrawingInv, cursor
  <2>3. DisplayInv'
    <3>1. out.at' = "switch" /\ out.con' = c
      OBVIOUS
    <3>2. /\ crtc \in [con : Consoles, cursor : Nat, start : Nat]
          /\ crtc = Showing(nr_current_console)
      BY <2>1 DEF Undisturbed, DisplayInv
    <3> HIDE DEF Idle
    <3> QED
      BY <3>1, <3>2 DEF DisplayInv, Showing
  <2> QED
    BY <2>1, <2>2, <2>3 DEF Undisturbed
<1> QED
  BY <1>1, <1>2 DEF TInv

LEMMA scroll_screenBegins ==
  ASSUME TInv, PlacesKept, NEW c \in Consoles, NEW at \in {"up", "down"}, out.at = "idle",
         scroll_screen(c, at)
  PROVE  TInv'
<1> USE DEF scroll_screen, OnlyOut, Idle
<1>1. PlacesOK'
  BY DEF TInv, PlacesOK, PlacesKept, Places
<1>2. ASSUME ~raced' PROVE Undisturbed'
  <2>1. ~raced /\ Undisturbed
    BY <1>2 DEF TInv
  <2>2. DrawingInv'
    BY <2>1 DEF DrawingInv
  <2>3. DisplayInv'
    <3>1. out.at' \in {"up", "down"} /\ out.con' = c
      OBVIOUS
    <3>2. /\ crtc \in [con : Consoles, cursor : Nat, start : Nat]
          /\ crtc = Showing(nr_current_console)
      BY <2>1 DEF Undisturbed, DisplayInv
    <3> HIDE DEF Idle
    <3> QED
      BY <3>1, <3>2 DEF DisplayInv, Showing
  <2> QED
    BY <2>1, <2>2, <2>3 DEF Undisturbed
<1> QED
  BY <1>1, <1>2 DEF TInv

LEMMA select_consoleBegins ==
  ASSUME TInv, PlacesKept, NEW c \in Consoles, out.at = "idle", select_console(c)
  PROVE  TInv'
<1> USE DEF select_console, Idle
<1>1. PlacesOK'
  BY DEF TInv, PlacesOK, PlacesKept, Places
<1>2. ASSUME ~raced' PROVE Undisturbed'
  <2>1. ~raced /\ Undisturbed
    BY <1>2 DEF TInv
  <2>2. DrawingInv'
    BY <2>1 DEF DrawingInv
  <2>3. DisplayInv'
    <3>1. out.at' = "flush" /\ out.con' = c
      OBVIOUS
    <3>2. /\ crtc \in [con : Consoles, cursor : Nat, start : Nat]
          /\ crtc = Showing(nr_current_console)
      BY <2>1 DEF Undisturbed, DisplayInv
    <3> HIDE DEF Idle
    <3> QED
      BY <3>1, <3>2 DEF DisplayInv, Showing
  <2> QED
    BY <2>1, <2>2, <2>3 DEF Undisturbed
<1> QED
  BY <1>1, <1>2 DEF TInv

-----------------------------------------------------------------------------
(* Drawing.                                                                *)

(* A step of TTY that only goes on to another place.                       *)
LEMMA Going ==
  ASSUME TInv, UNCHANGED <<ttyvars, console, nr_current_console, raced>>,
         DOMAIN out' = {"at", "con", "ch", "vmem", "val", "after"}, out.con' = out.con,
         out.at' \in Places, out.after' \in {"end", "loop", "key"},
         Undisturbed => DrawingInv' /\ DisplayInv'
  PROVE  TInv'
<1>1. PlacesOK'
  BY DEF TInv, PlacesOK, ttyvars
<1>2. Undisturbed => Undisturbed'
  BY DEF Undisturbed, ConsoleOK, Screen
<1> QED
  BY <1>1, <1>2 DEF TInv

LEMMA SwitchKeeps == TInv /\ Switch /\ UNCHANGED ttyvars => TInv'
<1> SUFFICES ASSUME TInv, Switch, UNCHANGED ttyvars PROVE TInv'
  OBVIOUS
<1> USE DEF Switch, Goto, OnlyOut
<1>1. /\ DOMAIN out' = {"at", "con", "ch", "vmem", "val", "after"} /\ out.con' = out.con
      /\ out.ch' = out.ch /\ out.vmem' = out.vmem /\ out.after' = out.after
      /\ out.at' = (IF MayDraw(out.ch, cursor) THEN "load" ELSE "loop")
  BY DEF TInv, PlacesOK
<1>2. Undisturbed => DrawingInv' /\ DisplayInv'
  BY <1>1 DEF Undisturbed, DrawingInv, DisplayInv, Showing, cursor, start, BelowScreen, MayDraw
<1> QED
  BY <1>1, <1>2, Going DEF TInv, PlacesOK, Places

LEMMA LoadKeeps == TInv /\ Load /\ UNCHANGED ttyvars => TInv'
<1> SUFFICES ASSUME TInv, Load, UNCHANGED ttyvars PROVE TInv'
  OBVIOUS
<1> USE DEF Load, OnlyOut
<1>1. /\ DOMAIN out' = {"at", "con", "ch", "vmem", "val", "after"} /\ out.con' = out.con
      /\ out.ch' = out.ch /\ out.vmem' = out.vmem /\ out.after' = out.after
      /\ out.at' = "store" /\ out.val' = cursor
  BY DEF TInv, PlacesOK
<1>2. Undisturbed => DrawingInv' /\ DisplayInv'
  BY <1>1 DEF Undisturbed, DrawingInv, DisplayInv, Showing, cursor, start, BelowScreen, MayDraw
<1> QED
  BY <1>1, <1>2, Going DEF TInv, PlacesOK, Places

LEMMA LoopKeeps == TInv /\ Loop /\ UNCHANGED ttyvars => TInv'
<1> SUFFICES ASSUME TInv, Loop, UNCHANGED ttyvars PROVE TInv'
  OBVIOUS
<1> USE DEF Loop, OnlyOut
<1>1. /\ DOMAIN out' = {"at", "con", "ch", "vmem", "val", "after"} /\ out.con' = out.con
      /\ \/ BelowScreen /\ out.at' = "down" /\ out.after' = "loop"
         \/ ~BelowScreen /\ out.at' = "flush" /\ out.after' = "end"
  BY DEF TInv, PlacesOK
<1>2. Undisturbed => DrawingInv' /\ DisplayInv'
  BY <1>1 DEF Undisturbed, DrawingInv, DisplayInv, Showing, cursor, start, BelowScreen
<1> QED
  BY <1>1, <1>2, Going DEF TInv, PlacesOK, Places

LEMMA ScrollTestKeeps == TInv /\ ScrollTest /\ UNCHANGED ttyvars => TInv'
<1> SUFFICES ASSUME TInv, ScrollTest, UNCHANGED ttyvars PROVE TInv'
  OBVIOUS
<1> USE DEF ScrollTest, Goto, OnlyOut
<1>1. /\ DOMAIN out' = {"at", "con", "ch", "vmem", "val", "after"} /\ out.con' = out.con
      /\ out.after' = out.after /\ out.at \in {"up", "down"}
      /\ \/ out.at' = "up2" /\ start > 0
         \/ out.at' = "down2" /\ MoreBelow
         \/ out.at' = "flush"
  BY DEF TInv, PlacesOK
<1>2. Undisturbed => DrawingInv' /\ DisplayInv'
  BY <1>1 DEF Undisturbed, DrawingInv, DisplayInv, Showing, cursor, start, MoreBelow
<1> QED
  BY <1>1, <1>2, Going DEF TInv, PlacesOK, Places

LEMMA ScrollLoadKeeps == TInv /\ ScrollLoad /\ UNCHANGED ttyvars => TInv'
<1> SUFFICES ASSUME TInv, ScrollLoad, UNCHANGED ttyvars PROVE TInv'
  OBVIOUS
<1> USE DEF ScrollLoad, OnlyOut
<1>1. /\ DOMAIN out' = {"at", "con", "ch", "vmem", "val", "after"} /\ out.con' = out.con
      /\ out.after' = out.after /\ out.at' = "move"
      /\ \/ out.at = "up2" /\ out.val' = start - SCREEN_WIDTH
         \/ out.at = "down2" /\ out.val' = start + SCREEN_WIDTH
  BY DEF TInv, PlacesOK
<1>2. ASSUME Undisturbed PROVE Screen(out.val')
  <2>1. Screen(start) /\ start \in Nat
    BY <1>2 DEF Undisturbed, ConsoleOK, start, TInv, PlacesOK
  <2>2. CASE out.at = "up2"
    <3>1. start > 0
      BY <1>2, <2>2 DEF Undisturbed, DrawingInv
    <3> QED
      BY <1>1, <2>1, <2>2, <3>1, Sizes, LinesAway DEF Screen
  <2>3. CASE out.at = "down2"
    <3>1. MoreBelow
      BY <1>2, <2>3 DEF Undisturbed, DrawingInv
    <3>2. start + 1 * SCREEN_WIDTH \in Nat /\ (start + 1 * SCREEN_WIDTH) % SCREEN_WIDTH = 0
      BY <2>1, Sizes, LinesAway DEF Screen
    <3>3. start + 1 * SCREEN_WIDTH = start + SCREEN_WIDTH
      BY <2>1, Sizes
    <3> QED
      BY <1>1, <2>1, <2>3, <3>1, <3>2, <3>3, Sizes DEF Screen, MoreBelow
  <2> QED
    BY <1>1, <2>2, <2>3
<1>3. Undisturbed => DrawingInv' /\ DisplayInv'
  BY <1>1, <1>2 DEF Undisturbed, DrawingInv, DisplayInv, Showing, cursor, start, Screen
<1> QED
  BY <1>1, <1>3, Going DEF TInv, PlacesOK, Places

(* The cursor stays in memory: a line more, where there is another.        *)
LEMMA MovedHolds ==
  ASSUME NEW ch, NEW cur \in 0..(v_mem_limit - 1), MayDraw(ch, cur)
  PROVE  Moved(ch, cur) \in 0..(v_mem_limit - 1)
<1> USE Sizes DEF MayDraw, Moved
<1>1. CASE ch = "newline"
  <2>1. cur \in Nat /\ cur < v_mem_limit - SCREEN_WIDTH
    BY <1>1
  <2> QED
    BY <1>1, <2>1, NextLine
<1>2. CASE ch = "back"
  BY <1>2
<1>3. CASE ch # "newline" /\ ch # "back"
  BY <1>3
<1> QED
  BY <1>1, <1>2, <1>3

LEMMA StoreKeeps == TInv /\ Store /\ UNCHANGED ttyvars => TInv'
<1> SUFFICES ASSUME TInv, Store, UNCHANGED ttyvars PROVE TInv'
  OBVIOUS
<1> USE DEF Store, Goto
<1>1. /\ DOMAIN out' = {"at", "con", "ch", "vmem", "val", "after"} /\ out.con' = out.con
      /\ out.after' = out.after /\ out.at' = "loop"
  BY DEF TInv, PlacesOK
<1>2. PlacesOK'
  BY <1>1 DEF TInv, PlacesOK, ttyvars, Places
<1>3. ASSUME ~raced' PROVE Undisturbed'
  <2>1. ~raced /\ Undisturbed /\ out.con \in Consoles
    BY <1>3 DEF TInv, PlacesOK
  <2>2. out.val = cursor /\ MayDraw(out.ch, cursor) /\ cursor \in 0..(v_mem_limit - 1)
    BY <2>1 DEF Undisturbed, DrawingInv, ConsoleOK, cursor
  <2>3. Moved(out.ch, out.val) \in 0..(v_mem_limit - 1)
    BY <2>2, MovedHolds
  <2>4. /\ DOMAIN console' = Consoles
        /\ \A c \in Consoles : c # out.con => console'[c] = console[c]
        /\ console'[out.con] = [console[out.con] EXCEPT !.cursor = Moved(out.ch, out.val)]
    BY <2>1 DEF Undisturbed
  <2>5. \A c \in Consoles : ConsoleOK(console[c])'
    BY <2>1, <2>3, <2>4 DEF Undisturbed, ConsoleOK, Screen
  <2>6. DrawingInv' /\ DisplayInv'
    <3>1. out.con = nr_current_console \/ Showing(nr_current_console)' = Showing(nr_current_console)
      BY <2>1, <2>4 DEF Showing, TInv, PlacesOK
    <3> QED
      BY <1>1, <2>1, <3>1 DEF Undisturbed, DrawingInv, DisplayInv
  <2> QED
    BY <2>4, <2>5, <2>6 DEF Undisturbed
<1> QED
  BY <1>2, <1>3 DEF TInv

LEMMA ScrollMoveKeeps == TInv /\ ScrollMove /\ UNCHANGED ttyvars => TInv'
<1> SUFFICES ASSUME TInv, ScrollMove, UNCHANGED ttyvars PROVE TInv'
  OBVIOUS
<1> USE DEF ScrollMove, Goto
<1>1. /\ DOMAIN out' = {"at", "con", "ch", "vmem", "val", "after"} /\ out.con' = out.con
      /\ out.after' = out.after /\ out.at' = "flush"
  BY DEF TInv, PlacesOK
<1>2. PlacesOK'
  BY <1>1 DEF TInv, PlacesOK, ttyvars, Places
<1>3. ASSUME ~raced' PROVE Undisturbed'
  <2>1. ~raced /\ Undisturbed /\ out.con \in Consoles
    BY <1>3 DEF TInv, PlacesOK
  <2>2. Screen(out.val) /\ out.after # "end"
    BY <2>1 DEF Undisturbed, DrawingInv
  <2>3. /\ DOMAIN console' = Consoles
        /\ \A c \in Consoles : c # out.con => console'[c] = console[c]
        /\ console'[out.con] = [console[out.con] EXCEPT !.start = out.val]
    BY <2>1 DEF Undisturbed
  <2>4. \A c \in Consoles : ConsoleOK(console[c])'
    BY <2>1, <2>2, <2>3 DEF Undisturbed, ConsoleOK, Screen
  <2>5. DrawingInv' /\ DisplayInv'
    <3>1. out.con = nr_current_console \/ Showing(nr_current_console)' = Showing(nr_current_console)
      BY <2>1, <2>3 DEF Showing, TInv, PlacesOK
    <3> QED
      BY <1>1, <2>1, <2>2, <3>1 DEF Undisturbed, DrawingInv, DisplayInv
  <2> QED
    BY <2>3, <2>4, <2>5 DEF Undisturbed
<1> QED
  BY <1>2, <1>3 DEF TInv

(* flush() returns to out_char(), or TTY has finished.                     *)
LEMMA DoneGoes ==
  ASSUME TInv, Done
  PROVE  /\ DOMAIN out' = {"at", "con", "ch", "vmem", "val", "after"}
         /\ out.con' \in Consoles /\ out.after' \in {"end", "loop", "key"}
         /\ \/ out.at' = "loop" /\ out.con' = out.con
            \/ out.at' = "idle"
BY Sizes DEF TInv, PlacesOK, Done, Idle

LEMMA FlushKeeps == TInv /\ Flush /\ UNCHANGED ttyvars => TInv'
<1> SUFFICES ASSUME TInv, Flush, UNCHANGED ttyvars PROVE TInv'
  OBVIOUS
<1>1. CASE out.con = nr_current_console
  <2>1. /\ DOMAIN out' = {"at", "con", "ch", "vmem", "val", "after"} /\ out.con' = out.con
        /\ out.after' = out.after /\ out.at' = "setcursor"
    BY <1>1 DEF Flush, Goto, TInv, PlacesOK
  <2>2. Undisturbed => DrawingInv' /\ DisplayInv'
    BY <1>1, <2>1 DEF Undisturbed, DrawingInv, DisplayInv, Showing, Flush, OnlyOut,
                      BelowScreen, cursor, start
  <2> QED
    BY <2>1, <2>2, Going DEF TInv, PlacesOK, Places, Flush, OnlyOut
<1>2. CASE out.con # nr_current_console
  <2>1. Done /\ OnlyOut
    BY <1>2 DEF Flush
  <2>2. PlacesOK'
    BY <2>1, DoneGoes DEF TInv, PlacesOK, Places, ttyvars, OnlyOut
  <2>3. ASSUME Undisturbed PROVE Undisturbed'
    <3>1. DrawingInv'
      BY <2>1, DoneGoes DEF DrawingInv
    <3>2. DisplayInv'
      BY <1>2, <2>1, <2>3, DoneGoes DEF Undisturbed, DisplayInv, Showing, OnlyOut
    <3> QED
      BY <2>1, <2>3, <3>1, <3>2 DEF Undisturbed, OnlyOut, ConsoleOK, Screen
  <2> QED
    BY <2>1, <2>2, <2>3 DEF TInv, OnlyOut
<1> QED
  BY <1>1, <1>2

LEMMA SetCursorKeeps == TInv /\ SetCursor /\ UNCHANGED ttyvars => TInv'
<1> SUFFICES ASSUME TInv, SetCursor, UNCHANGED ttyvars PROVE TInv'
  OBVIOUS
<1> USE DEF SetCursor, Goto
<1>1. /\ DOMAIN out' = {"at", "con", "ch", "vmem", "val", "after"} /\ out.con' = out.con
      /\ out.after' = out.after /\ out.at' = "setstart"
  BY DEF TInv, PlacesOK
<1>2. ASSUME Undisturbed PROVE DrawingInv' /\ DisplayInv'
  <2>1. cursor \in Nat /\ out.con = nr_current_console /\ out.con \in Consoles
    BY <1>2, Sizes DEF Undisturbed, DisplayInv, ConsoleOK, cursor, TInv, PlacesOK
  <2>2. /\ crtc' \in [con : Consoles, cursor : Nat, start : Nat]
        /\ crtc'.con = out.con /\ crtc'.cursor = cursor
    BY <1>2, <2>1 DEF Undisturbed, DisplayInv
  <2> QED
    BY <1>1, <1>2, <2>1, <2>2 DEF Undisturbed, DrawingInv, DisplayInv, BelowScreen, cursor, start
<1> QED
  BY <1>1, <1>2, Going DEF TInv, PlacesOK, Places

LEMMA SetStartKeeps == TInv /\ SetStart /\ UNCHANGED ttyvars => TInv'
<1> SUFFICES ASSUME TInv, SetStart, UNCHANGED ttyvars PROVE TInv'
  OBVIOUS
<1>1. Done /\ UNCHANGED <<console, nr_current_console, raced>>
  BY DEF SetStart
<1>2. PlacesOK'
  BY <1>1, DoneGoes DEF TInv, PlacesOK, Places, ttyvars
<1>3. ASSUME Undisturbed PROVE Undisturbed'
  <2>1. DrawingInv'
    BY <1>1, DoneGoes DEF DrawingInv
  <2>2. /\ start \in Nat /\ out.con = nr_current_console
        /\ crtc.con = out.con /\ crtc.cursor = cursor
        /\ crtc \in [con : Consoles, cursor : Nat, start : Nat]
    BY <1>3 DEF Undisturbed, DisplayInv, ConsoleOK, start, TInv, PlacesOK, SetStart
  <2>3. crtc' = Showing(nr_current_console)
    BY <2>2 DEF SetStart, Showing, cursor, start
  <2>4. crtc' \in [con : Consoles, cursor : Nat, start : Nat]
    BY <2>2 DEF SetStart
  <2>5. DisplayInv'
    BY <1>1, <2>2, <2>3, <2>4, DoneGoes DEF DisplayInv, Showing
  <2> QED
    BY <1>1, <1>3, <2>1, <2>5 DEF Undisturbed, ConsoleOK, Screen
<1> QED
  BY <1>1, <1>2, <1>3 DEF TInv

-----------------------------------------------------------------------------
(* printx().                                                               *)

(* Some number of lines brings a position onto the screen, and the fewest  *)
(* that do leave the screen in memory.                                     *)
LEMMA LinesNeeded ==
  ASSUME NEW cur \in 0..(v_mem_limit - 1), NEW s \in Nat
  PROVE  \E k \in 0..v_mem_limit :
           /\ cur < s + k * SCREEN_WIDTH + SCREEN_SIZE
           /\ k = 0 \/ cur >= s + (k - 1) * SCREEN_WIDTH + SCREEN_SIZE
<1> DEFINE T == {k \in Nat : cur < s + k * SCREEN_WIDTH + SCREEN_SIZE}
<1>1. v_mem_limit \in T
  <2>1. v_mem_limit * SCREEN_WIDTH >= v_mem_limit /\ v_mem_limit * SCREEN_WIDTH \in Nat
    BY Sizes
  <2> QED
    BY <2>1, Sizes
<1>2. PICK k \in T : \A y \in T : k <= y
  <2>1. T \in SUBSET Nat
    OBVIOUS
  <2> HIDE DEF T
  <2> QED
    BY <1>1, <2>1, LeastNat
<1>3. k \in Nat /\ k <= v_mem_limit
  BY <1>1, <1>2, Sizes
<1>4. ASSUME k # 0 PROVE cur >= s + (k - 1) * SCREEN_WIDTH + SCREEN_SIZE
  <2>1. k - 1 \in Nat /\ ~(k <= k - 1)
    BY <1>3, <1>4
  <2>2. k - 1 \notin T
    BY <1>2, <2>1
  <2>3. (k - 1) * SCREEN_WIDTH \in Nat
    BY <2>1, Sizes
  <2> QED
    BY <2>1, <2>2, <2>3, Sizes
<1> QED
  BY <1>2, <1>3, <1>4, Sizes

LEMMA ScrolledInMemory ==
  ASSUME NEW cur \in 0..(v_mem_limit - 1), Screen(console[0].start)
  PROVE  Screen(ScrolledTo(cur)) /\ cur < ScrolledTo(cur) + SCREEN_SIZE
<1> DEFINE s == console[0].start
           Fits(k) == /\ cur < s + k * SCREEN_WIDTH + SCREEN_SIZE
                      /\ k = 0 \/ cur >= s + (k - 1) * SCREEN_WIDTH + SCREEN_SIZE
           K == CHOOSE k \in 0..v_mem_limit : Fits(k)
<1>1. s \in Nat /\ s % SCREEN_WIDTH = 0 /\ s + SCREEN_SIZE < v_mem_limit + SCREEN_WIDTH
  BY DEF Screen
<1>2. \E k \in 0..v_mem_limit : Fits(k)
  BY <1>1, LinesNeeded
<1>3. ScrolledTo(cur) = s + K * SCREEN_WIDTH
  BY DEF ScrolledTo
<1>4. K \in 0..v_mem_limit /\ Fits(K)
  BY <1>2
<1> HIDE DEF K
<1>5. s + K * SCREEN_WIDTH \in Nat /\ (s + K * SCREEN_WIDTH) % SCREEN_WIDTH = 0
  <2>1. \A k \in Nat : s + k * SCREEN_WIDTH \in Nat /\ (s + k * SCREEN_WIDTH) % SCREEN_WIDTH = 0
    BY <1>1, Sizes, LinesAway
  <2>2. K \in Nat
    BY <1>4, Sizes
  <2> HIDE DEF s
  <2> QED
    BY <2>1, <2>2
<1>6. s + K * SCREEN_WIDTH + SCREEN_SIZE < v_mem_limit + SCREEN_WIDTH
  <2>1. CASE K = 0
    BY <1>1, <2>1, Sizes
  <2>2. CASE K # 0
    <3>1. cur >= s + (K - 1) * SCREEN_WIDTH + SCREEN_SIZE
      BY <1>4, <2>2
    <3>2. (K - 1) * SCREEN_WIDTH = K * SCREEN_WIDTH - SCREEN_WIDTH /\ K * SCREEN_WIDTH \in Nat
      BY <1>4, Sizes
    <3> QED
      BY <1>1, <3>1, <3>2, Sizes
  <2> QED
    BY <2>1, <2>2
<1> QED
  BY <1>3, <1>4, <1>5, <1>6 DEF Screen

LEMMA sys_printxKeeps ==
  ASSUME TInv, NEW ch, sys_printx(ch), UNCHANGED ttyvars
  PROVE  TInv'
<1> DEFINE cur == Printed(ch)
           s == ScrolledTo(cur)
<1>1. PlacesOK'
  BY DEF TInv, PlacesOK, sys_printx, ttyvars
<1>2. ASSUME ~raced' PROVE Undisturbed'
  <2>1. Undisturbed /\ (out.at = "idle" \/ out.con # 0)
    BY <1>2 DEF TInv, sys_printx
  <2>2. ConsoleOK(console[0])
    BY <2>1, Sizes DEF Undisturbed
  <2>3. cur \in 0..(v_mem_limit - 1)
    BY <2>2, MovedHolds DEF Printed, ConsoleOK
  <2>4. Screen(s)
    BY <2>2, <2>3, ScrolledInMemory DEF ConsoleOK
  <2> HIDE DEF cur, s
  <2>5. /\ console' = [console EXCEPT ![0] = [cursor |-> cur, start |-> s]]
        /\ crtc' = (IF nr_current_console = 0 THEN [con |-> 0, cursor |-> cur, start |-> s] ELSE crtc)
        /\ UNCHANGED <<nr_current_console, out>>
    BY DEF sys_printx, cur, s
  <2>6. /\ DOMAIN console' = Consoles
        /\ \A c \in Consoles : c # 0 => console'[c] = console[c]
        /\ console'[0] = [cursor |-> cur, start |-> s]
    BY <2>1, <2>5, Sizes DEF Undisturbed
  <2>7. \A c \in Consoles : ConsoleOK(console[c])'
    BY <2>1, <2>3, <2>4, <2>6 DEF Undisturbed, ConsoleOK, Screen
  <2>8. DrawingInv'
    <3>1. CASE out.at = "idle"
      BY <2>5, <3>1 DEF DrawingInv
    <3>2. CASE out.con # 0
      BY <2>1, <2>5, <2>6, <3>2
         DEF Undisturbed, DrawingInv, cursor, start, MoreBelow, BelowScreen, Screen, TInv, PlacesOK
    <3> QED
      BY <2>1, <3>1, <3>2
  <2>9. DisplayInv'
    <3>1. crtc' \in [con : Consoles, cursor : Nat, start : Nat]
      BY <2>1, <2>3, <2>4, <2>5, Sizes DEF Undisturbed, DisplayInv, Screen
    <3>2. out.at = "idle" \/ out.con # nr_current_console => crtc' = Showing(nr_current_console)'
      BY <2>1, <2>5, <2>6 DEF Undisturbed, DisplayInv, Showing, TInv, PlacesOK
    <3>3. out.at \in {"setcursor", "setstart"} =>
            out.con = nr_current_console /\ crtc' = crtc /\ cursor' = cursor
      BY <2>1, <2>5, <2>6 DEF Undisturbed, DisplayInv, cursor, TInv, PlacesOK
    <3> QED
      BY <2>1, <2>5, <3>1, <3>2, <3>3 DEF Undisturbed, DisplayInv
  <2> QED
    BY <2>6, <2>7, <2>8, <2>9 DEF Undisturbed
<1> QED
  BY <1>1, <1>2 DEF TInv

-----------------------------------------------------------------------------
(* TASK_TTY and the rest of the machine.                                   *)

LEMMA AtIsIdle ==
  ASSUME TInv
  PROVE  /\ \A where : At(where) => out.at = "idle"
         /\ LoopTop.t \in Consoles /\ DOMAIN LoopTop = {"at", "t", "ch"}
         /\ DOMAIN pc = {"at", "t", "ch"} /\ pc.t \in Consoles
BY Sizes DEF At, LoopTop, TInv, PlacesOK

LEMMA NextTerminalGoes ==
  ASSUME TInv, NextTerminal
  PROVE  DOMAIN pc' = {"at", "t", "ch"} /\ pc'.t \in Consoles
BY Sizes DEF NextTerminal, LoopTop

LEMMA DecodeKeeps == TInv /\ Decode => TInv'
<1> SUFFICES ASSUME TInv, Decode PROVE TInv'
  OBVIOUS
<1>1. out.at = "idle" /\ UNCHANGED use
  BY AtIsIdle DEF Decode
<1>2. CASE pc' = [pc EXCEPT !.at = "done"] /\ UNCHANGED conVars
  BY <1>1, <1>2, AtIsIdle, NothingDrawn
<1>3. CASE in_process(Delivered)
  <2>1. CASE (\E c \in Character(Delivered.key) : pc' = [pc EXCEPT !.at = "typed", !.ch = c])
             /\ UNCHANGED conVars
    BY <1>1, <2>1, AtIsIdle, NothingDrawn
  <2>2. CASE /\ scroll_screen(pc.t, IF Delivered.key = "UP" THEN "down" ELSE "up")
             /\ pc' = [pc EXCEPT !.at = "done"]
    BY <1>1, <2>2, AtIsIdle, scroll_screenBegins DEF PlacesKept
  <2>3. CASE /\ \E c \in Selects(Delivered) \cap Consoles : select_console(c)
             /\ pc' = [pc EXCEPT !.at = "done"]
    BY <1>1, <2>3, AtIsIdle, select_consoleBegins DEF PlacesKept
  <2> QED
    BY <1>3, <2>1, <2>2, <2>3 DEF in_process
<1> QED
  BY <1>2, <1>3 DEF Decode

LEMMA WritesKeep == TInv /\ (Echo \/ EndOfLine \/ tty_do_write) => TInv'
<1> SUFFICES ASSUME TInv, Echo \/ EndOfLine \/ tty_do_write PROVE TInv'
  OBVIOUS
<1>1. out.at = "idle" /\ UNCHANGED use
  BY AtIsIdle DEF Echo, EndOfLine, tty_do_write
<1>2. CASE Echo
  <2>1. CASE out_char(pc.t, pc.ch) /\ pc' = [pc EXCEPT !.at = "echoed"]
    BY <1>1, <2>1, AtIsIdle, out_charBegins DEF PlacesKept
  <2>2. CASE UNCHANGED conVars /\ \E at : pc' = [pc EXCEPT !.at = at]
    BY <1>1, <2>2, AtIsIdle, NothingDrawn
  <2> QED
    BY <1>2, <2>1, <2>2 DEF Echo
<1>3. CASE EndOfLine
  BY <1>1, <1>3, AtIsIdle, out_charBegins DEF EndOfLine, PlacesKept
<1>4. CASE tty_do_write
  <2>1. \E t \in Consoles, ch \in {"x", "newline", "back"} : out_char(t, ch)
    BY <1>4, TerminalAssumption DEF tty_do_write, TInv, PlacesOK
  <2> QED
    BY <1>1, <1>4, <2>1, AtIsIdle, out_charBegins DEF tty_do_write, PlacesKept
<1> QED
  BY <1>2, <1>3, <1>4

LEMMA OthersKeep ==
  ASSUME TInv,
         \/ ReadNothing \/ ReadCode \/ Echoed \/ TerminalDone \/ Interrupted \/ HardInt
         \/ tty_do_read \/ Type \/ KeyInterrupt \/ ClockInterrupt \/ UNCHANGED vars
  PROVE  TInv'
<1>1. UNCHANGED <<conVars, use>>
  BY DEF ReadNothing, ReadCode, Echoed, TerminalDone, Interrupted, HardInt, tty_do_read, Type,
         KeyInterrupt, ClockInterrupt, vars, ttyvars
<1>2. DOMAIN pc' = {"at", "t", "ch"} /\ pc'.t \in Consoles
  <2>1. CASE ReadNothing \/ TerminalDone
    BY <2>1, NextTerminalGoes DEF ReadNothing, TerminalDone
  <2>2. CASE HardInt \/ tty_do_read
    BY <2>2, AtIsIdle DEF HardInt, tty_do_read
  <2>3. CASE ReadCode \/ Echoed \/ Interrupted
    BY <2>3, AtIsIdle DEF ReadCode, Echoed, Interrupted
  <2>4. CASE Type \/ KeyInterrupt \/ ClockInterrupt \/ UNCHANGED vars
    BY <2>4, AtIsIdle DEF Type, KeyInterrupt, ClockInterrupt, vars, ttyvars
  <2> QED
    BY <2>1, <2>2, <2>3, <2>4
<1> QED
  BY <1>1, <1>2, NothingDrawn

LEMMA NextTInv == TInv /\ [Next]_vars => TInv'
<1> SUFFICES ASSUME TInv, [Next]_vars PROVE TInv'
  OBVIOUS
<1>1. CASE Draw
  BY <1>1, SwitchKeeps, LoadKeeps, StoreKeeps, LoopKeeps, ScrollTestKeeps, ScrollLoadKeeps,
     ScrollMoveKeeps, FlushKeeps, SetCursorKeeps, SetStartKeeps DEF Draw, DrawStep
<1>2. CASE PrintDebug
  BY <1>2, sys_printxKeeps DEF PrintDebug
<1> QED
  BY <1>1, <1>2, DecodeKeeps, WritesKeep, OthersKeep DEF Next, TtyTask, TtyBusy

(* TTY draws with what it has read, unless printx() interferes.            *)
THEOREM TerminalInvariance == Spec => []TInv
<1> QED
  BY InitTInv, NextTInv, PTL DEF Spec

(* Unless printx() interferes, cursors and screens stay in the consoles'   *)
(* memory, nothing is written outside of it, and what has been drawn is on *)
(* the screen.                                                             *)
THEOREM ScreensHold == Spec => []ScreenHolds
<1>1. TInv => ScreenHolds
  <2> SUFFICES ASSUME TInv, ~raced PROVE ScreenHolds
    BY DEF ScreenHolds
  <2>1. Undisturbed /\ \A c \in Consoles : ConsoleOK(console[c])
    BY DEF TInv, Undisturbed
  <2>2. \A c \in Consoles :
          /\ console[c].cursor \in 0..(v_mem_limit - 1)
          /\ console[c].start % SCREEN_WIDTH = 0
          /\ console[c].start + SCREEN_SIZE < v_mem_limit + SCREEN_WIDTH
    BY <2>1 DEF ConsoleOK, Screen
  <2>3. out.at = "store" => Written \subseteq 0..(v_mem_limit - 1)
    <3>1. cursor \in 0..(v_mem_limit - 1)
      BY <2>1 DEF ConsoleOK, cursor, TInv, PlacesOK
    <3> QED
      BY <2>1, <3>1, Sizes DEF Undisturbed, DrawingInv, Written, MayDraw
  <2> QED
    BY <2>1, <2>2, <2>3 DEF ScreenHolds, Undisturbed, DrawingInv
<1> QED
  BY <1>1, TerminalInvariance, PTL

(* Unless printx() interferes, the display shows the current console       *)
(* whenever TTY is not drawing.                                            *)
THEOREM CurrentShown == Spec => []Shown
<1>1. TInv => Shown
  BY DEF TInv, Undisturbed, DisplayInv, Showing, Shown
<1> QED
  BY <1>1, TerminalInvariance, PTL

-----------------------------------------------------------------------------
(* The keyboard: what each key says.                                       *)

Modifiers == {"SHIFT_L", "SHIFT_R", "CTRL_L", "CTRL_R", "ALT", "CAPS_LOCK", "NUM_LOCK"}
Bytes == 0..255
Locks == {"CAPS_LOCK", "NUM_LOCK"}
Silent == {"pause", "printscreen", "ack"}
Source == Keys \cup {"ack"}

(* The codes of a key that goes down or up, or of an acknowledgement.      *)
Said(k, make) == IF k = "ack" THEN <<KB_ACK>> ELSE Codes(k, make)

(* What the modifiers m become by it.                                      *)
Shifted(m, k, make) ==
  LET Set(x) == IF make THEN m \cup {x} ELSE m \ {x} IN
  CASE k \in {"lshift", "rshift", "lctrl", "rctrl"} -> Set(Top[k])
    [] k \in {"lalt", "ralt"} -> Set("ALT")
    [] k \in {"caps", "num"} -> IF make THEN Toggle(m, Top[k]) ELSE m
    [] OTHER -> m

(* The key that it means with the modifiers m.                             *)
KeyOf(m, k) ==
  LET shifted == {"SHIFT_L", "SHIFT_R"} \cap m # {} IN
  CASE k = "a"     -> IF shifted # ("CAPS_LOCK" \in m) THEN "A" ELSE "a"
    [] k = "slash" -> IF shifted THEN "?" ELSE "/"
    [] k = "pad8"  -> IF shifted \/ "NUM_LOCK" \in m THEN "8" ELSE "UP"
    [] OTHER       -> Top[k]
Meant(m, k) == [key |-> KeyOf(m, k), flags |-> Shifted(m, k, TRUE) \ Locks]
MeantBy(m, k, make) == IF make /\ k \notin Silent THEN <<Meant(m, k)>> ELSE <<>>

Meanings == {Meant(m, k) : m \in SUBSET Modifiers, k \in Source}

(* The modifiers as the keys that are held and the locks have them.        *)
HeldOf(h, a, l) ==
  {x \in Modifiers :
     \/ \E k \in {"lshift", "rshift", "lctrl", "rctrl"} \cap h : x = Top[k]
     \/ x = "ALT" /\ a
     \/ \E k \in {"caps", "num"} \cap l : x = Top[k]}
Held == HeldOf(held, altOn, locks)

-----------------------------------------------------------------------------
(* Codes that say keys: from the modifiers x.from, the codes x.codes mean  *)
(* the keys x.keys and leave the modifiers x.to.  It is the least such     *)
(* relation.                                                               *)

Sayings == [codes : Seq(Bytes), keys : Seq(Meanings), from : SUBSET Modifiers, to : SUBSET Modifiers]
Saying(s, t, m, n) == [codes |-> s, keys |-> t, from |-> m, to |-> n]

ClosedSayings(R) ==
  /\ \A m \in SUBSET Modifiers : Saying(<<>>, <<>>, m, m) \in R
  /\ \A k \in Source, make \in BOOLEAN, x \in R, m \in SUBSET Modifiers :
       Said(k, make) # <<>> /\ x.from = Shifted(m, k, make) =>
         Saying(Said(k, make) \o x.codes, MeantBy(m, k, make) \o x.keys, m, x.to) \in R
Says == {x \in Sayings : \A R \in SUBSET Sayings : ClosedSayings(R) => x \in R}

(* Codes are seven bits, and those that may follow 0xE0 are not those of   *)
(* Print Screen.                                                           *)
LEMMA CodeIs ==
  /\ DOMAIN Code = {"a", "slash", "enter", "backspace", "lshift", "rshift", "lctrl", "rctrl",
                    "lalt", "ralt", "caps", "num", "pad8", "up", "down", "f1", "f2"}
  /\ \A k \in DOMAIN Code : Code[k] \in 0..\h5F
  /\ \A k \in Extended : k \in DOMAIN Code /\ Code[k] \notin {\h2A, \h37}
<1>1. DOMAIN Code = {"a", "slash", "enter", "backspace", "lshift", "rshift", "lctrl", "rctrl",
                     "lalt", "ralt", "caps", "num", "pad8", "up", "down", "f1", "f2"}
  BY DEF Code
<1>2. ASSUME NEW k \in {"a", "slash", "enter", "backspace", "lshift", "rshift", "lctrl", "rctrl",
                       "lalt", "ralt", "caps", "num", "pad8", "up", "down", "f1", "f2"}
      PROVE  Code[k] \in 0..\h5F
  BY DEF Code
<1>3. ASSUME NEW k \in {"rctrl", "ralt", "up", "down"} PROVE Code[k] \notin {\h2A, \h37}
  BY DEF Code
<1> QED
  BY <1>1, <1>2, <1>3 DEF Extended

(* Codes are bytes, and keys change the modifiers to modifiers.            *)
LEMMA KeyTypes ==
  ASSUME NEW m \in SUBSET Modifiers, NEW k \in Source, NEW make \in BOOLEAN
  PROVE  /\ Said(k, make) \in Seq(Bytes)
         /\ Shifted(m, k, make) \in SUBSET Modifiers
         /\ MeantBy(m, k, make) \in Seq(Meanings)
<1>1. Keys = {"a", "slash", "enter", "backspace", "lshift", "rshift", "lctrl", "rctrl", "lalt",
              "ralt", "caps", "num", "pad8", "up", "down", "f1", "f2", "pause", "printscreen"}
  BY DEF Keys, Code
<1>2. Said(k, make) \in Seq(Bytes)
  <2>1. CASE k = "ack"
    BY <2>1 DEF Said, KB_ACK, Bytes
  <2>2. CASE k \in {"pause", "printscreen"}
    <3>1. \hE0 \in Bytes /\ \hE1 \in Bytes /\ \h1D \in Bytes /\ \h45 \in Bytes /\ \h9D \in Bytes
          /\ \hC5 \in Bytes /\ \h2A \in Bytes /\ \h37 \in Bytes /\ \hB7 \in Bytes /\ \hAA \in Bytes
      BY DEF Bytes
    <3>2. /\ pausebrk_scode \in Seq(Bytes) /\ printscreen_make \in Seq(Bytes)
          /\ printscreen_break \in Seq(Bytes)
      BY <3>1 DEF pausebrk_scode, printscreen_make, printscreen_break
    <3>3. Said(k, make) \in {pausebrk_scode, <<>>, printscreen_make, printscreen_break}
      BY <2>2 DEF Said, Codes
    <3> QED
      BY <3>2, <3>3, EmptySeq
  <2>3. CASE k \in Keys \ {"pause", "printscreen"}
    <3>1. Code[k] \in 0..127
      BY <2>3, <1>1 DEF Code
    <3> DEFINE c == Code[k] + (IF make THEN 0 ELSE FLAG_BREAK)
    <3>2. c \in Bytes /\ \hE0 \in Bytes
      BY <3>1 DEF FLAG_BREAK, Bytes
    <3>3. Said(k, make) = (IF k \in Extended THEN <<\hE0>> ELSE <<>>) \o <<c>>
      BY <2>3, <1>1 DEF Said, Codes
    <3> HIDE DEF c
    <3> QED
      BY <3>2, <3>3
  <2> QED
    BY <2>1, <2>2, <2>3 DEF Source
<1>3. ASSUME NEW b \in BOOLEAN PROVE Shifted(m, k, b) \in SUBSET Modifiers
  <2>1. CASE k \in {"lshift", "rshift", "lctrl", "rctrl"}
    <3>1. Top[k] \in Modifiers
      BY <2>1 DEF Top, Modifiers
    <3> QED
      BY <2>1, <3>1 DEF Shifted
  <2>2. CASE k \in {"lalt", "ralt"}
    BY <2>2 DEF Shifted, Modifiers
  <2>3. CASE k \in {"caps", "num"}
    <3>1. Top[k] \in Modifiers
      BY <2>3 DEF Top, Modifiers
    <3> QED
      BY <2>3, <3>1 DEF Shifted, Toggle
  <2>4. CASE k \notin {"lshift", "rshift", "lctrl", "rctrl", "lalt", "ralt", "caps", "num"}
    BY <2>4 DEF Shifted
  <2> QED
    BY <2>1, <2>2, <2>3, <2>4
<1>4. Meant(m, k) \in Meanings
  BY DEF Meanings
<1> QED
  BY <1>2, <1>3, <1>4 DEF MeantBy

(* The fields of a saying.                                                 *)
LEMMA SayingHas ==
  ASSUME NEW s, NEW t, NEW m, NEW n
  PROVE  /\ Saying(s, t, m, n).codes = s /\ Saying(s, t, m, n).keys = t
         /\ Saying(s, t, m, n).from = m /\ Saying(s, t, m, n).to = n
BY DEF Saying

(* What is said follows itself, and so does the next key: Says is closed.  *)
LEMMA SaysCloses ==
  /\ \A m \in SUBSET Modifiers : Saying(<<>>, <<>>, m, m) \in Says
  /\ \A k \in Source, make \in BOOLEAN, x \in Says, m \in SUBSET Modifiers :
       Said(k, make) # <<>> /\ x.from = Shifted(m, k, make) =>
         Saying(Said(k, make) \o x.codes, MeantBy(m, k, make) \o x.keys, m, x.to) \in Says
<1>1. ASSUME NEW m \in SUBSET Modifiers PROVE Saying(<<>>, <<>>, m, m) \in Says
  <2>1. Saying(<<>>, <<>>, m, m) \in Sayings
    BY DEF Saying, Sayings
  <2> QED
    BY <2>1 DEF Says, ClosedSayings
<1>2. ASSUME NEW k \in Source, NEW make \in BOOLEAN, NEW x \in Says, NEW m \in SUBSET Modifiers,
             Said(k, make) # <<>>, x.from = Shifted(m, k, make)
      PROVE  Saying(Said(k, make) \o x.codes, MeantBy(m, k, make) \o x.keys, m, x.to) \in Says
  <2> DEFINE y == Saying(Said(k, make) \o x.codes, MeantBy(m, k, make) \o x.keys, m, x.to)
  <2>1. x \in Sayings /\ x.codes \in Seq(Bytes) /\ x.keys \in Seq(Meanings)
        /\ x.to \in SUBSET Modifiers
    BY DEF Says, Sayings
  <2>2. /\ Said(k, make) \o x.codes \in Seq(Bytes)
        /\ MeantBy(m, k, make) \o x.keys \in Seq(Meanings)
    BY <2>1, KeyTypes, ConcatProperties
  <2>3. y \in Sayings
    BY <2>1, <2>2 DEF Saying, Sayings
  <2>4. ASSUME NEW R \in SUBSET Sayings, ClosedSayings(R) PROVE y \in R
    <3>1. x \in R
      BY <2>4 DEF Says
    <3> QED
      BY <1>2, <2>4, <3>1 DEF ClosedSayings
  <2> QED
    BY <2>3, <2>4 DEF Says
<1> QED
  BY <1>1, <1>2

(* What is said is nothing, or begins with what one key says.              *)
LEMMA SaysBegins ==
  ASSUME NEW x \in Says
  PROVE  \/ x.codes = <<>> /\ x.keys = <<>> /\ x.from = x.to
         \/ \E k \in Source, make \in BOOLEAN, y \in Says :
              /\ Said(k, make) # <<>>
              /\ x.codes = Said(k, make) \o y.codes
              /\ x.keys = MeantBy(x.from, k, make) \o y.keys
              /\ y.from = Shifted(x.from, k, make) /\ y.to = x.to
<1> DEFINE Begins(z, k, make, y) ==
             /\ Said(k, make) # <<>>
             /\ z.codes = Said(k, make) \o y.codes
             /\ z.keys = MeantBy(z.from, k, make) \o y.keys
             /\ y.from = Shifted(z.from, k, make) /\ y.to = z.to
           R == {z \in Says : \/ z.codes = <<>> /\ z.keys = <<>> /\ z.from = z.to
                             \/ \E k \in Source, make \in BOOLEAN, y \in Says : Begins(z, k, make, y)}
<1>1. R \in SUBSET Sayings
  BY DEF Says
<1>2. ASSUME NEW m \in SUBSET Modifiers PROVE Saying(<<>>, <<>>, m, m) \in R
  BY SaysCloses DEF Saying
<1>3. ASSUME NEW k \in Source, NEW make \in BOOLEAN, NEW y \in R, NEW m \in SUBSET Modifiers,
             Said(k, make) # <<>>, y.from = Shifted(m, k, make)
      PROVE  Saying(Said(k, make) \o y.codes, MeantBy(m, k, make) \o y.keys, m, y.to) \in R
  <2> DEFINE z == Saying(Said(k, make) \o y.codes, MeantBy(m, k, make) \o y.keys, m, y.to)
  <2>1. z \in Says /\ y \in Says
    BY <1>3, SaysCloses
  <2>2. Begins(z, k, make, y)
    BY <1>3 DEF Saying
  <2> HIDE DEF Begins, z
  <2> QED
    BY <2>1, <2>2 DEF z
<1>4. ClosedSayings(R)
  <2> HIDE DEF R
  <2> QED
    BY <1>2, <1>3 DEF ClosedSayings
<1>5. x \in R
  <2> HIDE DEF R
  <2> QED
    BY <1>1, <1>4 DEF Says
<1> QED
  BY <1>5

(* A saying x, preceded by A for the keys X and followed by C for Y.       *)
LEMMA Between ==
  ASSUME NEW s \in Seq(Bytes), NEW t \in Seq(Meanings), NEW A \in Seq(Bytes), NEW C \in Seq(Bytes),
         NEW X \in Seq(Meanings), NEW Y \in Seq(Meanings), NEW m, NEW n
  PROVE  Saying((A \o s) \o C, (X \o t) \o Y, m, n) = Saying(A \o (s \o C), X \o (t \o Y), m, n)
<1>1. (A \o s) \o C = A \o (s \o C)
  BY ConcatAssociative, SMTT(20)
<1>2. (X \o t) \o Y = X \o (t \o Y)
  BY ConcatAssociative, SMTT(20)
<1> QED
  BY <1>1, <1>2

(* A key that is pressed or released adds its codes at the end.            *)
LEMMA SaysMore ==
  ASSUME NEW x \in Says, NEW k \in Source, NEW make \in BOOLEAN
  PROVE  Saying(x.codes \o Said(k, make), x.keys \o MeantBy(x.to, k, make),
                x.from, Shifted(x.to, k, make)) \in Says \/ Said(k, make) = <<>>
<1> SUFFICES ASSUME Said(k, make) # <<>>
             PROVE  Saying(x.codes \o Said(k, make), x.keys \o MeantBy(x.to, k, make),
                           x.from, Shifted(x.to, k, make)) \in Says
  OBVIOUS
<1> DEFINE More1(z) == Saying(z.codes \o Said(k, make), z.keys \o MeantBy(z.to, k, make),
                              z.from, Shifted(z.to, k, make))
           R == {z \in Says : More1(z) \in Says}
<1>1. \A z \in Says : z \in Sayings
  BY DEF Says
<1>2. ASSUME NEW m \in SUBSET Modifiers PROVE Saying(<<>>, <<>>, m, m) \in R
  <2> DEFINE z == Saying(<<>>, <<>>, m, m)
             n == Shifted(m, k, make)
             e == Saying(<<>>, <<>>, n, n)
  <2>1. n \in SUBSET Modifiers /\ Said(k, make) \in Seq(Bytes) /\ MeantBy(m, k, make) \in Seq(Meanings)
    BY KeyTypes
  <2>2. z \in Says /\ e \in Says
    BY <2>1, SaysCloses
  <2>3. e.from = n /\ e.codes = <<>> /\ e.keys = <<>> /\ e.to = n
    BY DEF Saying
  <2>4. Saying(Said(k, make) \o <<>>, MeantBy(m, k, make) \o <<>>, m, n) \in Says
    BY <2>2, <2>3, SaysCloses
  <2>5. More1(z) = Saying(Said(k, make) \o <<>>, MeantBy(m, k, make) \o <<>>, m, n)
    <3>1. z.codes = <<>> /\ z.keys = <<>> /\ z.from = m /\ z.to = m
      BY DEF Saying
    <3>2. <<>> \o Said(k, make) = Said(k, make) \o <<>>
          /\ <<>> \o MeantBy(m, k, make) = MeantBy(m, k, make) \o <<>>
      BY <2>1, ConcatEmptySeq
    <3> QED
      BY <3>1, <3>2
  <2> QED
    BY <2>2, <2>4, <2>5
<1>3. ASSUME NEW j \in Source, NEW b \in BOOLEAN, NEW y \in Says, More1(y) \in Says,
             NEW m \in SUBSET Modifiers, Said(j, b) # <<>>, y.from = Shifted(m, j, b)
      PROVE  Saying(Said(j, b) \o y.codes, MeantBy(m, j, b) \o y.keys, m, y.to) \in R
  <2> DEFINE s == y.codes   A == Said(j, b)       C == Said(k, make)
             t == y.keys    X == MeantBy(m, j, b) Y == MeantBy(y.to, k, make)
             f == y.from    g == y.to             n == Shifted(y.to, k, make)
             z == Saying(A \o s, X \o t, m, g)
  <2>1. y \in Says /\ Saying(s \o C, t \o Y, f, n) \in Says /\ z \in Says
    BY <1>3, SaysCloses
  <2>2. s \in Seq(Bytes) /\ t \in Seq(Meanings) /\ f = Shifted(m, j, b) /\ g \in SUBSET Modifiers
    BY <1>1, <1>3, <2>1 DEF Sayings
  <2>3. A \in Seq(Bytes) /\ C \in Seq(Bytes) /\ X \in Seq(Meanings) /\ Y \in Seq(Meanings) /\ A # <<>>
    BY <1>3, <2>2, KeyTypes
  <2>4. \A v \in Says : v.from = f => Saying(A \o v.codes, X \o v.keys, m, v.to) \in Says
    BY <1>3, SaysCloses
  <2>5. More1(z) = Saying((A \o s) \o C, (X \o t) \o Y, m, n)
    BY SayingHas
  <2> HIDE DEF s, t, A, C, X, Y, f, g, n
  <2>6. Saying(A \o (s \o C), X \o (t \o Y), m, n) \in Says
    <3> DEFINE u == s \o C   w == t \o Y
    <3>1. Saying(u, w, f, n) \in Says
      BY <2>1
    <3> HIDE DEF u, w
    <3>2. Saying(A \o u, X \o w, m, n) \in Says
      BY <2>4, <3>1, SayingHas
    <3> QED
      BY <3>2 DEF u, w
  <2>7. More1(z) \in Says
    <3> HIDE DEF More1
    <3> QED
      BY <2>2, <2>3, <2>5, <2>6, Between
  <2> QED
    BY <2>1, <2>7 DEF s, t, A, X, g
<1>4. ClosedSayings(R) /\ R \in SUBSET Sayings
  <2>1. R \in SUBSET Sayings
    BY <1>1
  <2>2. \A y \in R : y \in Says /\ More1(y) \in Says
    OBVIOUS
  <2> HIDE DEF R, More1
  <2> QED
    BY <1>2, <1>3, <2>1, <2>2 DEF ClosedSayings
<1>5. x \in R
  <2> HIDE DEF R
  <2> QED
    BY <1>4 DEF Says
<1> QED
  BY <1>5

-----------------------------------------------------------------------------
(* keyboard_read() takes the codes of one key, no more and no less.        *)

(* Some long sequence goes on after g; and all of g but the last byte begins*)
(* one, so that keyboard_read() has gone on to take that byte.             *)
StartsLong(g) == \E s \in LongCodes : Len(g) < Len(s) /\ \A i \in 1..Len(g) : g[i] = s[i]
Taken(g) == \E s \in LongCodes : Len(g) <= Len(s) /\ \A i \in 1..(Len(g) - 1) : g[i] = s[i]

(* The long sequences: Pause after 0xE1, Print Screen after 0xE0.          *)
LEMMA LongCodesAre ==
  /\ \A s \in LongCodes :
       /\ s \in Seq(Bytes) /\ s[1] \in {\hE0, \hE1} /\ Len(s) # 2
       /\ s[1] = \hE0 => Len(s) = 4 /\ s[2] \in {\h2A, \hB7}
       /\ s[1] = \hE1 => Len(s) = 6
  /\ \E s \in LongCodes : s[1] = \hE0
<1>1. /\ \hE0 \in Bytes /\ \hE1 \in Bytes /\ \h1D \in Bytes /\ \h45 \in Bytes /\ \h9D \in Bytes
      /\ \hC5 \in Bytes /\ \h2A \in Bytes /\ \h37 \in Bytes /\ \hB7 \in Bytes /\ \hAA \in Bytes
  BY DEF Bytes
<1>2. /\ pausebrk_scode \in Seq(Bytes) /\ printscreen_make \in Seq(Bytes)
      /\ printscreen_break \in Seq(Bytes)
  BY <1>1 DEF pausebrk_scode, printscreen_make, printscreen_break
<1>3. /\ Len(pausebrk_scode) = 6 /\ pausebrk_scode[1] = \hE1
      /\ Len(printscreen_make) = 4 /\ printscreen_make[1] = \hE0 /\ printscreen_make[2] = \h2A
      /\ Len(printscreen_break) = 4 /\ printscreen_break[1] = \hE0 /\ printscreen_break[2] = \hB7
  BY DEF pausebrk_scode, printscreen_make, printscreen_break
<1>4. ASSUME NEW s \in LongCodes
      PROVE  /\ s \in Seq(Bytes) /\ s[1] \in {\hE0, \hE1} /\ Len(s) # 2
             /\ s[1] = \hE0 => Len(s) = 4 /\ s[2] \in {\h2A, \hB7}
             /\ s[1] = \hE1 => Len(s) = 6
  <2>1. CASE s = pausebrk_scode
    <3>1. s \in Seq(Bytes) /\ Len(s) = 6 /\ s[1] = \hE1
      BY <1>2, <1>3, <2>1, Zenon
    <3> QED
      BY <3>1
  <2>2. CASE s = printscreen_make
    BY <1>2, <1>3, <2>2
  <2>3. CASE s = printscreen_break
    BY <1>2, <1>3, <2>3
  <2> QED
    BY <2>1, <2>2, <2>3 DEF LongCodes
<1>5. printscreen_make \in LongCodes
  BY DEF LongCodes
<1> QED
  BY <1>3, <1>4, <1>5

(* keyboard_read() takes another byte while a long sequence may go on.     *)
LEMMA MoreIs ==
  ASSUME got \in Seq(Bytes)
  PROVE  More <=> StartsLong(got)
<1>1. ASSUME NEW s \in LongCodes
      PROVE  IsStrictPrefix(got, s) <=> Len(got) < Len(s) /\ \A i \in 1..Len(got) : got[i] = s[i]
  <2>1. s \in Seq(Bytes) /\ Len(s) \in Nat /\ Len(got) \in Nat
    BY LongCodesAre
  <2>2. ASSUME IsStrictPrefix(got, s) PROVE Len(got) < Len(s) /\ \A i \in 1..Len(got) : got[i] = s[i]
    <3>1. Len(got) <= Len(s) /\ SubSeq(got, 1, Len(got)) = SubSeq(s, 1, Len(got)) /\ got # s
      BY <2>2 DEF IsStrictPrefix, IsPrefix
    <3>2. ASSUME NEW i \in 1..Len(got) PROVE got[i] = s[i]
      <4>1. SubSeq(got, 1, Len(got))[i] = got[i] /\ SubSeq(s, 1, Len(got))[i] = s[i]
        BY <2>1, <3>1
      <4> QED
        BY <3>1, <4>1
    <3>3. Len(got) # Len(s)
      BY <2>1, <3>1, <3>2, SeqEqual
    <3> QED
      BY <2>1, <3>1, <3>2, <3>3
  <2>3. ASSUME Len(got) < Len(s), \A i \in 1..Len(got) : got[i] = s[i] PROVE IsStrictPrefix(got, s)
    <3>1. SubSeq(got, 1, Len(got)) = SubSeq(s, 1, Len(got))
      BY <2>1, <2>3
    <3> QED
      BY <2>1, <2>3, <3>1 DEF IsStrictPrefix, IsPrefix
  <2> QED
    BY <2>2, <2>3
<1> QED
  BY <1>1 DEF More, StartsLong

(* What the keyboard says: a code, 0xE0 and a code, or a long sequence;    *)
(* the first two cannot be taken for the beginning of the third.           *)
LEMMA SaidIs ==
  ASSUME NEW k \in Source, NEW make \in BOOLEAN, Said(k, make) # <<>>
  PROVE  \/ Said(k, make) \in LongCodes
         \/ Len(Said(k, make)) = 1 /\ Said(k, make)[1] \notin {\hE0, \hE1}
         \/ /\ Len(Said(k, make)) = 2 /\ Said(k, make)[1] = \hE0
            /\ Said(k, make)[2] \notin {\h2A, \hB7}
<1>1. CASE k = "ack"
  BY <1>1 DEF Said, KB_ACK
<1>2. CASE k \in {"pause", "printscreen"}
  BY <1>2 DEF Said, Codes, LongCodes
<1>3. CASE k \in DOMAIN Code
  <2> DEFINE n == Code[k]   c == n + (IF make THEN 0 ELSE FLAG_BREAK)
  <2>1. k \notin {"ack", "pause", "printscreen"}
    BY <1>3, CodeIs
  <2>7. n \in 0..\h5F /\ (k \in Extended => n \notin {\h2A, \h37})
    BY <1>3, CodeIs
  <2>8. c = n \/ c = n + 128
    <3> HIDE DEF n
    <3>1. CASE make
      BY <2>7, <3>1
    <3>2. CASE ~make
      BY <2>7, <3>2 DEF FLAG_BREAK
    <3> QED
      BY <3>1, <3>2
  <2>2. c \notin {\hE0, \hE1}
    <3> HIDE DEF n, c
    <3> QED
      BY <2>7, <2>8
  <2>6. k \in Extended => c \notin {\h2A, \hB7}
    <3> HIDE DEF n, c
    <3> QED
      BY <2>7, <2>8
  <2>3. Said(k, make) = (IF k \in Extended THEN <<\hE0>> ELSE <<>>) \o <<c>>
    BY <2>1 DEF Said, Codes
  <2> HIDE DEF c
  <2>4. CASE k \in Extended
    BY <2>3, <2>4, <2>6
  <2>5. CASE k \notin Extended
    BY <2>2, <2>3, <2>5
  <2> QED
    BY <2>4, <2>5
<1> QED
  BY <1>1, <1>2, <1>3 DEF Source, Keys

(* A beginning g of what is said, c, is all of it when no long sequence    *)
(* begins with g.                                                          *)
Agree(g, c) == \A i \in 1..Len(g) : i <= Len(c) => g[i] = c[i]

(* Print Screen and Pause are taken to the end.                            *)
LEMMA WholeLong ==
  ASSUME NEW g \in Seq(Bytes), NEW c \in LongCodes, Len(g) >= 1, Taken(g), ~StartsLong(g), Agree(g, c)
  PROVE  Len(g) = Len(c)
<1>1. c \in Seq(Bytes) /\ Len(g) \in Nat /\ Len(c) \in Nat
  BY LongCodesAre
<1>2. PICK l \in LongCodes : Len(g) <= Len(l) /\ \A i \in 1..(Len(g) - 1) : g[i] = l[i]
  BY DEF Taken
<1>3. ~(Len(g) < Len(c))
  BY <1>1 DEF StartsLong, Agree
<1>4. ASSUME Len(g) > Len(c) PROVE FALSE
  <2>1. Len(c) >= 4
    <3>1. Len(c) = 4 \/ Len(c) = 6
      BY LongCodesAre
    <3>2. \A n \in Nat : n = 4 \/ n = 6 => n >= 4
      OBVIOUS
    <3> QED
      BY <1>1, <3>1, <3>2
  <2>2. g[1] = l[1] /\ g[1] = c[1]
    BY <1>1, <1>2, <1>4, <2>1 DEF Agree
  <2>3. Len(l) = Len(c)
    <3>1. l[1] = c[1]
      BY <2>2
    <3>2. CASE c[1] = \hE0
      BY <3>1, <3>2, LongCodesAre
    <3>3. CASE c[1] = \hE1
      BY <3>1, <3>3, LongCodesAre
    <3> QED
      BY <3>2, <3>3, LongCodesAre
  <2>4. Len(g) <= Len(c)
    BY <1>2, <2>3
  <2> QED
    BY <1>1, <1>4, <2>4
<1> QED
  BY <1>1, <1>3, <1>4

(* Of the others no byte too many is taken.                                *)
LEMMA WholeShort ==
  ASSUME NEW g \in Seq(Bytes), NEW c \in Seq(Bytes), Len(g) >= 1, Taken(g), Agree(g, c)
  PROVE  /\ Len(c) = 1 /\ c[1] \notin {\hE0, \hE1} => Len(g) = 1
         /\ Len(c) = 2 /\ c[1] = \hE0 /\ c[2] \notin {\h2A, \hB7} => Len(g) \in {1, 2} /\ g[1] = \hE0
<1>1. Len(g) \in Nat
  OBVIOUS
<1>2. PICK l \in LongCodes : Len(g) <= Len(l) /\ \A i \in 1..(Len(g) - 1) : g[i] = l[i]
  BY DEF Taken
<1>3. ASSUME Len(c) = 1, c[1] \notin {\hE0, \hE1} PROVE Len(g) = 1
  <2>1. ASSUME Len(g) >= 2 PROVE FALSE
    <3>1. g[1] = c[1] /\ g[1] = l[1]
      BY <1>1, <1>2, <1>3, <2>1 DEF Agree
    <3> QED
      BY <1>3, <3>1, LongCodesAre
  <2> QED
    BY <1>1, <2>1
<1>4. ASSUME Len(c) = 2, c[1] = \hE0, c[2] \notin {\h2A, \hB7} PROVE Len(g) \in {1, 2} /\ g[1] = \hE0
  <2>1. g[1] = c[1]
    BY <1>1, <1>4 DEF Agree
  <2>2. ASSUME Len(g) >= 3 PROVE FALSE
    <3>1. g[1] = l[1] /\ g[2] = c[2] /\ g[2] = l[2]
      BY <1>1, <1>2, <1>4, <2>2 DEF Agree
    <3> QED
      BY <1>4, <2>1, <3>1, LongCodesAre
  <2>3. \A n \in Nat : n >= 1 /\ ~(n >= 3) => n \in {1, 2}
    OBVIOUS
  <2>4. Len(g) \in {1, 2}
    BY <1>1, <2>2, <2>3
  <2> QED
    BY <1>4, <2>1, <2>4
<1> QED
  BY <1>3, <1>4

(* Behind 0xE0 there is always another byte to take.                       *)
LEMMA E0Begins ==
  ASSUME NEW g \in Seq(Bytes), Len(g) = 1, g[1] = \hE0
  PROVE  StartsLong(g)
<1>1. PICK e \in LongCodes : e[1] = \hE0
  BY LongCodesAre
<1>2. Len(e) = 4
  BY <1>1, LongCodesAre
<1>3. Len(g) < Len(e) /\ \A i \in 1..Len(g) : g[i] = e[i]
  BY <1>1, <1>2
<1> QED
  BY <1>3 DEF StartsLong

(* The bytes a and r are those of the key and s.                           *)
SameAs(a, r, k, make, s) == a \o r = Said(k, make) \o s

(* keyboard_read() takes the codes of one key, all of them and no more: no *)
(* key's codes begin another's.                                            *)
LEMMA WholeKey ==
  ASSUME NEW g \in Seq(Bytes), g # <<>>, Taken(g), ~StartsLong(g), NEW rest \in Seq(Bytes),
         NEW k \in Source, NEW make \in BOOLEAN, Said(k, make) # <<>>, NEW s \in Seq(Bytes),
         SameAs(g, rest, k, make, s)
  PROVE  g = Said(k, make) /\ rest = s
<1> DEFINE c == Said(k, make)
<1>1. c \in Seq(Bytes) /\ c # <<>>
  BY KeyTypes, Modifiers \in SUBSET Modifiers
<1>2. \/ c \in LongCodes
      \/ Len(c) = 1 /\ c[1] \notin {\hE0, \hE1}
      \/ Len(c) = 2 /\ c[1] = \hE0 /\ c[2] \notin {\h2A, \hB7}
  BY SaidIs
<1>3. g \o rest = c \o s
  BY DEF SameAs
<1> HIDE DEF c
<1>4. /\ Len(g) \in Nat /\ Len(c) \in Nat /\ Len(g) >= 1 /\ Len(c) >= 1
      /\ Len(rest) \in Nat /\ Len(s) \in Nat /\ Len(g) + Len(rest) = Len(c) + Len(s)
  BY <1>1, <1>3, ConcatProperties, EmptySeq
<1>5. ASSUME NEW i \in 1..Len(g), i <= Len(c) PROVE g[i] = c[i]
  <2>1. (g \o rest)[i] = g[i] /\ (c \o s)[i] = c[i]
    BY <1>1, <1>4, <1>5, ConcatProperties
  <2> QED
    BY <1>3, <2>1
<1>7. Len(g) = Len(c)
  <2>1. Agree(g, c)
    BY <1>5 DEF Agree
  <2>2. CASE c \in LongCodes
    BY <1>4, <2>1, <2>2, WholeLong
  <2>3. CASE Len(c) = 1 /\ c[1] \notin {\hE0, \hE1}
    BY <1>1, <1>4, <2>1, <2>3, WholeShort
  <2>4. CASE Len(c) = 2 /\ c[1] = \hE0 /\ c[2] \notin {\h2A, \hB7}
    <3>1. Len(g) \in {1, 2} /\ g[1] = \hE0
      BY <1>1, <1>4, <2>1, <2>4, WholeShort
    <3> QED
      BY <2>4, <3>1, E0Begins
  <2> QED
    BY <1>2, <2>2, <2>3, <2>4
<1>8. g = c
  BY <1>1, <1>4, <1>5, <1>7, SeqEqual
<1>9. rest = s
  <2>1. ASSUME NEW i \in 1..Len(rest) PROVE rest[i] = s[i]
    <3>1. Len(g) + i \in 1..(Len(g) + Len(rest)) /\ ~(Len(g) + i <= Len(g))
      BY <1>4
    <3>2. (g \o rest)[Len(g) + i] = rest[(Len(g) + i) - Len(g)]
      BY <3>1, ConcatProperties
    <3>3. (c \o s)[Len(g) + i] = s[(Len(g) + i) - Len(g)]
      BY <1>1, <1>4, <1>7, <3>1, ConcatProperties
    <3>4. (Len(g) + i) - Len(g) = i
      BY <1>4
    <3> QED
      BY <1>3, <3>2, <3>3, <3>4
  <2> QED
    BY <1>4, <1>7, <2>1, SeqEqual
<1> QED
  BY <1>8, <1>9 DEF c

(* What keyboard_read() makes of the codes of a key.                       *)
LEMMA ScanIs ==
  ASSUME NEW k \in DOMAIN Code, NEW make \in BOOLEAN, got = Said(k, make)
  PROVE  /\ ~Swallowed /\ (Make <=> make)
         /\ keyrow = keymap(Code[k])
         /\ got[1] = \hE0 <=> k \in Extended
<1> DEFINE n == Code[k]   c == n + (IF make THEN 0 ELSE FLAG_BREAK)
<1>1. k \notin {"ack", "pause", "printscreen"} /\ n \in 0..\h5F
  BY CodeIs
<1>2. got = (IF k \in Extended THEN <<\hE0>> ELSE <<>>) \o <<c>>
  BY <1>1 DEF Said, Codes
<1> HIDE DEF n
<1>3. /\ c \in Nat /\ c % FLAG_BREAK = n /\ c # \hE0 /\ (c < FLAG_BREAK <=> make)
  <2>1. CASE make
    BY <1>1, <2>1 DEF FLAG_BREAK
  <2>2. CASE ~make
    BY <1>1, <2>2 DEF FLAG_BREAK
  <2> QED
    BY <2>1, <2>2
<1> HIDE DEF c
<1>4. CASE k \in Extended
  <2>1. Len(got) = 2 /\ got[1] = \hE0 /\ got[2] = c
    BY <1>2, <1>4
  <2>2. scan_code = c
    BY <2>1 DEF scan_code
  <2>3. got \notin LongCodes
    BY <2>1, LongCodesAre
  <2> QED
    BY <1>3, <1>4, <2>1, <2>2, <2>3 DEF Swallowed, Make, keyrow, n
<1>5. CASE k \notin Extended
  <2>1. Len(got) = 1 /\ got[1] = c
    BY <1>2, <1>5
  <2>2. scan_code = c
    BY <1>3, <2>1 DEF scan_code
  <2>3. got \notin LongCodes
    BY <2>1, LongCodesAre
  <2> QED
    BY <1>3, <1>5, <2>1, <2>2, <2>3 DEF Swallowed, Make, keyrow, n
<1> QED
  BY <1>4, <1>5

(* Rows of keymap[] with the same key in both columns.                     *)
LEMMA SameRows ==
  ASSUME NEW k \in {"lshift", "rshift", "lctrl", "lalt", "caps", "num", "f1", "f2", "enter", "backspace"}
  PROVE  keymap(Code[k])[1] = Top[k] /\ keymap(Code[k])[2] = Top[k]
<1>1. CASE k \in {"lshift", "rshift", "lctrl", "lalt"}
  BY <1>1 DEF keymap, Code, Top
<1>2. CASE k \in {"caps", "num", "f1"}
  BY <1>2 DEF keymap, Code, Top
<1>3. CASE k \in {"f2", "enter", "backspace"}
  BY <1>3 DEF keymap, Code, Top
<1> QED
  BY <1>1, <1>2, <1>3

(* Most keys have one meaning, whatever the column.                        *)
LEMMA OneMeaning ==
  ASSUME NEW k \in DOMAIN Top, NEW make \in BOOLEAN, got = Said(k, make)
  PROVE  Mapped = Top[k]
<1>1. k \in DOMAIN Code
  BY CodeIs DEF Top
<1>2. keyrow = keymap(Code[k]) /\ (got[1] = \hE0 <=> k \in Extended)
  BY <1>1, ScanIs
<1>3. column \in {1, 2, 3} /\ (column = 3 <=> k \in Extended)
  BY <1>2 DEF column
<1>4. CASE k \in {"rctrl", "ralt", "up", "down"}
  <2>1. keymap(Code[k])[3] = Top[k]
    BY <1>4 DEF keymap, Code, Top
  <2> QED
    BY <1>2, <1>3, <1>4, <2>1 DEF Mapped, Extended
<1>5. CASE k \in {"lshift", "rshift", "lctrl", "lalt", "caps", "num", "f1", "f2", "enter", "backspace"}
  <2>1. keymap(Code[k])[1] = Top[k] /\ keymap(Code[k])[2] = Top[k]
    BY <1>5, SameRows
  <2>2. column \in {1, 2}
    BY <1>3, <1>5 DEF Extended
  <2> QED
    BY <1>2, <2>1, <2>2 DEF Mapped
<1> QED
  BY <1>4, <1>5 DEF Top

(* The others depend on Shift, and one of them on Caps Lock or Num Lock.   *)
LEMMA PlainKey ==
  ASSUME NEW k \in {"a", "slash", "pad8"}, NEW make \in BOOLEAN, got = Said(k, make)
  PROVE  /\ Mapped \notin {"SHIFT_L", "SHIFT_R", "CTRL_L", "CTRL_R", "ALT_L", "ALT_R", "ALT", "CAPS_LOCK",
                          "NUM_LOCK"}
         /\ Padded = KeyOf(mods, k)
<1> DEFINE shift == {"SHIFT_L", "SHIFT_R"} \cap mods # {}
           caps == "CAPS_LOCK" \in mods
<1>1. k \in DOMAIN Code /\ k \notin Extended
  BY CodeIs DEF Extended
<1>2. keyrow = keymap(Code[k]) /\ got[1] # \hE0
  BY <1>1, ScanIs
<1>3. CASE k = "a"
  <2>1. keyrow = <<"a", "A", "0">>
    BY <1>2, <1>3 DEF keymap, Code
  <2>2. Mapped = IF shift # caps THEN "A" ELSE "a"
    BY <1>2, <2>1 DEF Mapped, column
  <2> QED
    BY <1>3, <2>2 DEF Padded, KeyOf
<1>4. CASE k = "slash"
  <2>1. keyrow = <<"/", "?", "PAD_SLASH">>
    BY <1>2, <1>4 DEF keymap, Code
  <2>2. Mapped = IF shift THEN "?" ELSE "/"
    BY <1>2, <2>1 DEF Mapped, column
  <2> QED
    BY <1>4, <2>2 DEF Padded, KeyOf
<1>5. CASE k = "pad8"
  <2>1. keyrow = <<"PAD_UP", "8", "UP">>
    BY <1>2, <1>5 DEF keymap, Code
  <2>2. Mapped = IF shift THEN "8" ELSE "PAD_UP"
    BY <1>2, <2>1 DEF Mapped, column
  <2> QED
    BY <1>5, <2>2 DEF Padded, KeyOf
<1> QED
  BY <1>3, <1>4, <1>5

(* keyboard_read() of a key does to the modifiers what the key does, and   *)
(* delivers what it means.                                                 *)
LEMMA KeyRead ==
  ASSUME NEW k \in Source, NEW make \in BOOLEAN, got = Said(k, make), got # <<>>
  PROVE  /\ (IF Swallowed THEN mods ELSE NewMods) = Shifted(mods, k, make)
         /\ MeantBy(mods, k, make) = IF Delivers THEN <<Delivered>> ELSE <<>>
<1>1. CASE k = "ack"
  <2>1. Len(got) = 1 /\ got[1] = \hFA
    BY <1>1 DEF Said, KB_ACK
  <2>2. ~Swallowed /\ scan_code = \hFA
    BY <2>1, LongCodesAre DEF Swallowed, scan_code
  <2>3. ~Make /\ keyrow = <<"0", "0", "0">>
    BY <2>2 DEF Make, FLAG_BREAK, keyrow, keymap
  <2>4. Mapped = "0"
    BY <2>3 DEF Mapped, column
  <2>5. NewMods = mods
    BY <2>4 DEF NewMods, IsLock
  <2> QED
    BY <1>1, <2>2, <2>3, <2>5 DEF Shifted, MeantBy, Silent, Delivers
<1>2. CASE k \in {"pause", "printscreen"}
  <2>1. Swallowed
    BY <1>2 DEF Said, Codes, Swallowed, LongCodes
  <2> QED
    BY <1>2, <2>1 DEF Shifted, MeantBy, Silent, Delivers
<1>3. CASE k \in DOMAIN Code
  <2>1. /\ ~Swallowed /\ (Make <=> make)
        /\ k \notin Silent
    BY <1>3, ScanIs, CodeIs DEF Silent
  <2>2. k \in DOMAIN Top \/ k \in {"a", "slash", "pad8"}
    BY <1>3, CodeIs DEF Top
  <2>3. NewMods = Shifted(mods, k, make) /\ Padded = KeyOf(mods, k)
    <3>1. CASE k \in {"a", "slash", "pad8"}
      <4>1. NewMods = mods
        BY <3>1, PlainKey DEF NewMods, IsLock
      <4>2. Shifted(mods, k, make) = mods
        BY <3>1 DEF Shifted
      <4> QED
        BY <3>1, <4>1, <4>2, PlainKey
    <3>2. CASE k \in {"lshift", "rshift", "lctrl", "rctrl"}
      <4>1. Mapped = Top[k] /\ Top[k] \in {"SHIFT_L", "SHIFT_R", "CTRL_L", "CTRL_R"}
        BY <3>2, OneMeaning DEF Top
      <4>2. NewMods = IF make THEN mods \cup {Top[k]} ELSE mods \ {Top[k]}
        <5>1. NewMods = IF Make THEN mods \cup {Mapped} ELSE mods \ {Mapped}
          BY <4>1 DEF NewMods, IsLock
        <5> QED
          BY <2>1, <4>1, <5>1
      <4>3. Padded = Top[k]
        BY <4>1 DEF Padded
      <4> QED
        BY <3>2, <4>2, <4>3 DEF Shifted, KeyOf
    <3>3. CASE k \in {"lalt", "ralt"}
      <4>1. Mapped = Top[k] /\ Top[k] \in {"ALT_L", "ALT_R"}
        BY <3>3, OneMeaning DEF Top
      <4>2. NewMods = IF make THEN mods \cup {"ALT"} ELSE mods \ {"ALT"}
        <5>1. NewMods = IF Make THEN mods \cup {"ALT"} ELSE mods \ {"ALT"}
          BY <4>1 DEF NewMods, IsLock
        <5> QED
          BY <2>1, <5>1
      <4>3. Padded = Top[k]
        BY <4>1 DEF Padded
      <4> QED
        BY <3>3, <4>2, <4>3 DEF Shifted, KeyOf
    <3>4. CASE k \in {"caps", "num"}
      <4>1. Mapped = Top[k] /\ Top[k] \in {"CAPS_LOCK", "NUM_LOCK"}
        BY <3>4, OneMeaning DEF Top
      <4>2. NewMods = IF make THEN Toggle(mods, Top[k]) ELSE mods
        BY <2>1, <4>1 DEF NewMods, IsLock
      <4>3. Padded = Top[k]
        BY <4>1 DEF Padded
      <4> QED
        BY <3>4, <4>2, <4>3 DEF Shifted, KeyOf
    <3>5. CASE k \in {"up", "down", "f1", "f2", "enter", "backspace"}
      <4>1. Mapped = Top[k] /\ Top[k] \in {"UP", "DOWN", "F1", "F2", "ENTER", "BACKSPACE"}
        BY <3>5, OneMeaning DEF Top
      <4>2. NewMods = mods
        BY <4>1 DEF NewMods, IsLock
      <4>3. Padded = Top[k]
        BY <4>1 DEF Padded
      <4> QED
        BY <3>5, <4>2, <4>3 DEF Shifted, KeyOf
    <3> QED
      BY <2>2, <3>1, <3>2, <3>3, <3>4, <3>5 DEF Top
  <2>4. Delivers <=> make
    BY <2>1 DEF Delivers
  <2>5. make => Delivered = Meant(mods, k)
    BY <2>3 DEF Delivered, Meant, Locks
  <2> QED
    BY <2>1, <2>3, <2>4, <2>5 DEF MeantBy
<1> QED
  BY <1>1, <1>2, <1>3 DEF Source, Keys

-----------------------------------------------------------------------------
(* The keyboard tells what it holds down.                                  *)

LEMMA HeldIs ==
  ASSUME NEW h, NEW a \in BOOLEAN, NEW l
  PROVE  /\ HeldOf(h, a, l) \in SUBSET Modifiers
         /\ "SHIFT_L" \in HeldOf(h, a, l) <=> "lshift" \in h
         /\ "SHIFT_R" \in HeldOf(h, a, l) <=> "rshift" \in h
         /\ "CTRL_L" \in HeldOf(h, a, l) <=> "lctrl" \in h
         /\ "CTRL_R" \in HeldOf(h, a, l) <=> "rctrl" \in h
         /\ "ALT" \in HeldOf(h, a, l) <=> a
         /\ "CAPS_LOCK" \in HeldOf(h, a, l) <=> "caps" \in l
         /\ "NUM_LOCK" \in HeldOf(h, a, l) <=> "num" \in l
<1>1. /\ Top["lshift"] = "SHIFT_L" /\ Top["rshift"] = "SHIFT_R" /\ Top["lctrl"] = "CTRL_L"
      /\ Top["rctrl"] = "CTRL_R" /\ Top["caps"] = "CAPS_LOCK" /\ Top["num"] = "NUM_LOCK"
  BY DEF Top
<1>2. ASSUME NEW x \in Modifiers
      PROVE  x \in HeldOf(h, a, l) <=>
               \/ x = "SHIFT_L" /\ "lshift" \in h
               \/ x = "SHIFT_R" /\ "rshift" \in h
               \/ x = "CTRL_L" /\ "lctrl" \in h
               \/ x = "CTRL_R" /\ "rctrl" \in h
               \/ x = "ALT" /\ a
               \/ x = "CAPS_LOCK" /\ "caps" \in l
               \/ x = "NUM_LOCK" /\ "num" \in l
  BY <1>1 DEF HeldOf
<1>3. HeldOf(h, a, l) \in SUBSET Modifiers
  BY DEF HeldOf
<1> QED
  BY <1>2, <1>3 DEF Modifiers

(* Two sets of modifiers are equal if they agree on each.                  *)
LEMMA SameModifiers ==
  ASSUME NEW m \in SUBSET Modifiers, NEW n \in SUBSET Modifiers,
         "SHIFT_L" \in m <=> "SHIFT_L" \in n, "SHIFT_R" \in m <=> "SHIFT_R" \in n,
         "CTRL_L" \in m <=> "CTRL_L" \in n, "CTRL_R" \in m <=> "CTRL_R" \in n,
         "ALT" \in m <=> "ALT" \in n,
         "CAPS_LOCK" \in m <=> "CAPS_LOCK" \in n, "NUM_LOCK" \in m <=> "NUM_LOCK" \in n
  PROVE  m = n
<1>1. \A x \in Modifiers : x \in m <=> x \in n
  BY DEF Modifiers
<1> QED
  BY <1>1

(* How a key that goes down or up changes what is held and locked.         *)
HeldAfter(h, k, make) == IF make THEN h \cup {k} ELSE h \ {k}
AltAfter(a, k, make) == IF k \in {"lalt", "ralt"} THEN make ELSE a
LocksAfter(l, k, make) == IF make /\ k \in {"caps", "num"} THEN Toggle(l, k) ELSE l

(* A key changes the modifiers as it changes what is held and locked.      *)
LEMMA ShiftedIs ==
  ASSUME NEW h, NEW a \in BOOLEAN, NEW l, NEW k \in Keys, NEW make \in BOOLEAN
  PROVE  HeldOf(HeldAfter(h, k, make), AltAfter(a, k, make), LocksAfter(l, k, make))
           = Shifted(HeldOf(h, a, l), k, make)
<1> DEFINE m == HeldOf(h, a, l)
           g == HeldAfter(h, k, make)
           b == AltAfter(a, k, make)
           j == LocksAfter(l, k, make)
           n == HeldOf(g, b, j)
           s == Shifted(m, k, make)
<1>1. b \in BOOLEAN
  BY DEF AltAfter
<1>2. m \in SUBSET Modifiers /\ n \in SUBSET Modifiers /\ s \in SUBSET Modifiers
  BY <1>1, HeldIs, KeyTypes DEF Source
<1>3. /\ "SHIFT_L" \in n <=> "lshift" \in g
      /\ "SHIFT_R" \in n <=> "rshift" \in g
      /\ "CTRL_L" \in n <=> "lctrl" \in g
      /\ "CTRL_R" \in n <=> "rctrl" \in g
      /\ "ALT" \in n <=> b
      /\ "CAPS_LOCK" \in n <=> "caps" \in j
      /\ "NUM_LOCK" \in n <=> "num" \in j
  BY <1>1, HeldIs
<1>4. /\ "SHIFT_L" \in m <=> "lshift" \in h
      /\ "SHIFT_R" \in m <=> "rshift" \in h
      /\ "CTRL_L" \in m <=> "lctrl" \in h
      /\ "CTRL_R" \in m <=> "rctrl" \in h
      /\ "ALT" \in m <=> a
      /\ "CAPS_LOCK" \in m <=> "caps" \in l
      /\ "NUM_LOCK" \in m <=> "num" \in l
  BY HeldIs
<1>5. /\ Top["lshift"] = "SHIFT_L" /\ Top["rshift"] = "SHIFT_R" /\ Top["lctrl"] = "CTRL_L"
      /\ Top["rctrl"] = "CTRL_R" /\ Top["caps"] = "CAPS_LOCK" /\ Top["num"] = "NUM_LOCK"
  BY DEF Top
<1> HIDE DEF m
<1>6. /\ "SHIFT_L" \in s <=> "lshift" \in g
      /\ "SHIFT_R" \in s <=> "rshift" \in g
      /\ "CTRL_L" \in s <=> "lctrl" \in g
      /\ "CTRL_R" \in s <=> "rctrl" \in g
      /\ "ALT" \in s <=> b
      /\ "CAPS_LOCK" \in s <=> "caps" \in j
      /\ "NUM_LOCK" \in s <=> "num" \in j
  <2>1. CASE k \in {"lshift", "rshift"}
    BY <1>4, <1>5, <2>1 DEF Shifted, HeldAfter, AltAfter, LocksAfter
  <2>2. CASE k \in {"lctrl", "rctrl"}
    BY <1>4, <1>5, <2>2 DEF Shifted, HeldAfter, AltAfter, LocksAfter
  <2>3. CASE k \in {"lalt", "ralt"}
    BY <1>4, <2>3 DEF Shifted, HeldAfter, AltAfter, LocksAfter
  <2>4. CASE k \in {"caps", "num"}
    <3>1. CASE make
      BY <1>4, <1>5, <2>4, <3>1 DEF Shifted, HeldAfter, AltAfter, LocksAfter, Toggle
    <3>2. CASE ~make
      BY <1>4, <1>5, <2>4, <3>2 DEF Shifted, HeldAfter, AltAfter, LocksAfter, Toggle
    <3> QED
      BY <3>1, <3>2
  <2>5. CASE k \notin {"lshift", "rshift", "lctrl", "rctrl", "lalt", "ralt", "caps", "num"}
    BY <1>4, <2>5 DEF Shifted, HeldAfter, AltAfter, LocksAfter
  <2> QED
    BY <2>1, <2>2, <2>3, <2>4, <2>5
<1> HIDE DEF n, s, g, b, j
<1>7. n = s
  BY <1>2, <1>3, <1>6, SameModifiers
<1> QED
  BY <1>7 DEF n, s, m, g, b, j

(* The meaning of a key is what its codes mean with the modifiers held.    *)
LEMMA MeaningIs ==
  ASSUME NEW k \in Keys \ Silent, altOn \in BOOLEAN
  PROVE  Meaning(k) = Meant(Held, k)
<1> DEFINE M == {"lshift", "rshift", "lctrl", "rctrl"}
           flags == {Top[x] : x \in M \cap (held \cup {k})}
           alt == IF k \in {"lalt", "ralt"} \/ altOn THEN {"ALT"} ELSE {}
           n == HeldOf(HeldAfter(held, k, TRUE), AltAfter(altOn, k, TRUE), LocksAfter(locks, k, TRUE))
<1>1. n = Shifted(Held, k, TRUE)
  BY ShiftedIs DEF Held
<1>2. flags \cup alt = n \ Locks
  <2>2. \A x \in {"caps", "num"} : Top[x] \in Locks
    BY DEF Top, Locks
  <2>3. "ALT" \in Modifiers \ Locks
    BY DEF Modifiers, Locks
  <2>4. \A x \in Modifiers \ Locks : x \in n <=> x \in flags \cup alt
    BY <2>2 DEF HeldOf, HeldAfter, AltAfter
  <2>5. n \subseteq Modifiers /\ flags \cup alt \subseteq Modifiers \ Locks
    <3>1. n \subseteq Modifiers
      BY DEF HeldOf
    <3>2. \A x \in M : Top[x] \in Modifiers \ Locks
      BY DEF Top, Modifiers, Locks
    <3> HIDE DEF M
    <3>3. flags \cup alt \subseteq Modifiers \ Locks
      BY <2>3, <3>2
    <3> QED
      BY <3>1, <3>3
  <2> HIDE DEF n, flags, alt
  <2> QED
    BY <2>4, <2>5
<1>3. /\ "SHIFT_L" \in Held <=> "lshift" \in held
      /\ "SHIFT_R" \in Held <=> "rshift" \in held
      /\ "CAPS_LOCK" \in Held <=> "caps" \in locks
      /\ "NUM_LOCK" \in Held <=> "num" \in locks
  BY HeldIs DEF Held
<1>4. {"SHIFT_L", "SHIFT_R"} \cap Held # {} <=> {"lshift", "rshift"} \cap held # {}
  BY <1>3
<1> HIDE DEF n, flags, alt
<1>5. Meaning(k) = [key |-> KeyOf(Held, k), flags |-> flags \cup alt]
  <2>1. CASE k = "a"
    BY <1>3, <1>4, <2>1 DEF Meaning, KeyOf, flags, alt
  <2>2. CASE k = "slash"
    BY <1>3, <1>4, <2>2 DEF Meaning, KeyOf, flags, alt
  <2>3. CASE k = "pad8"
    BY <1>3, <1>4, <2>3 DEF Meaning, KeyOf, flags, alt
  <2>4. CASE k \notin {"a", "slash", "pad8"}
    BY <2>4 DEF Meaning, KeyOf, flags, alt
  <2> QED
    BY <2>1, <2>2, <2>3, <2>4
<1> QED
  BY <1>1, <1>2, <1>5 DEF Meant

(* Only Pause says nothing, when it is released.                           *)
LEMMA SaidNot ==
  ASSUME NEW k \in Source, NEW make \in BOOLEAN, k # "pause", k # "printscreen", k # "ack"
  PROVE  Said(k, make) # <<>>
<1> DEFINE c == Code[k] + (IF make THEN 0 ELSE FLAG_BREAK)
<1>1. Said(k, make) = (IF k \in Extended THEN <<\hE0>> ELSE <<>>) \o <<c>>
  BY DEF Said, Codes
<1> HIDE DEF c
<1> QED
  BY <1>1

(* A key that goes down says what it means with the modifiers held.        *)
LEMMA PressTells ==
  ASSUME NEW k \in Keys, altOn \in BOOLEAN, Press(k), ~dropped, typed \in Seq(Meanings)
  PROVE  /\ altOn' \in BOOLEAN
         /\ Held' = Shifted(Held, k, TRUE)
         /\ line' = Said(k, TRUE)
         /\ typed' = typed \o MeantBy(Held, k, TRUE)
<1>1. altOn' = AltAfter(altOn, k, TRUE) /\ altOn' \in BOOLEAN
  BY DEF Press, AltAfter
<1>2. held' = HeldAfter(held, k, TRUE) /\ locks' = LocksAfter(locks, k, TRUE)
  BY DEF Press, HeldAfter, LocksAfter
<1>3. Held' = Shifted(Held, k, TRUE)
  <2> DEFINE n == HeldOf(HeldAfter(held, k, TRUE), AltAfter(altOn, k, TRUE), LocksAfter(locks, k, TRUE))
  <2>1. n = Shifted(HeldOf(held, altOn, locks), k, TRUE)
    BY ShiftedIs
  <2>2. HeldOf(held', altOn', locks') = n
    BY <1>1, <1>2, Zenon
  <2> HIDE DEF n
  <2> QED
    BY <2>1, <2>2 DEF Held
<1>4. k # "ack"
  BY CodeIs DEF Keys
<1>5. line' = Said(k, TRUE)
  BY <1>4 DEF Press, Said
<1>6. CASE k \in {"pause", "printscreen"}
  <2>1. MeantBy(Held, k, TRUE) = <<>> /\ typed' = typed
    BY <1>6 DEF MeantBy, Silent, Press
  <2> QED
    BY <1>1, <1>3, <1>5, <2>1, ConcatEmptySeq
<1>7. CASE k \notin {"pause", "printscreen"}
  <2>1. typed' = Append(typed, Meaning(k)) /\ k \in Keys \ Silent
    BY <1>4, <1>7 DEF Press, Silent
  <2>2. Meaning(k) = Meant(Held, k) /\ MeantBy(Held, k, TRUE) = <<Meant(Held, k)>>
    BY <2>1, MeaningIs DEF MeantBy
  <2>3. Meant(Held, k) \in Meanings
    <3>1. Held \in SUBSET Modifiers
      BY HeldIs DEF Held
    <3> QED
      BY <3>1 DEF Meanings, Source
  <2>4. typed' = typed \o <<Meant(Held, k)>>
    BY <2>1, <2>2, <2>3, AppendIsConcat
  <2> QED
    BY <1>1, <1>3, <1>5, <2>2, <2>4
<1> QED
  BY <1>6, <1>7

(* A key that goes up says so, and means nothing.                          *)
LEMMA ReleaseTells ==
  ASSUME NEW k \in Keys, altOn \in BOOLEAN, Release(k), typed \in Seq(Meanings)
  PROVE  /\ altOn' \in BOOLEAN
         /\ Held' = Shifted(Held, k, FALSE)
         /\ line' = Said(k, FALSE)
         /\ typed' = typed \o MeantBy(Held, k, FALSE)
<1>1. altOn' = AltAfter(altOn, k, FALSE) /\ altOn' \in BOOLEAN
  BY DEF Release, AltAfter
<1>2. held' = HeldAfter(held, k, FALSE) /\ locks' = LocksAfter(locks, k, FALSE)
  BY DEF Release, HeldAfter, LocksAfter
<1>3. Held' = Shifted(Held, k, FALSE)
  <2> DEFINE n == HeldOf(HeldAfter(held, k, FALSE), AltAfter(altOn, k, FALSE), LocksAfter(locks, k, FALSE))
  <2>1. n = Shifted(HeldOf(held, altOn, locks), k, FALSE)
    BY ShiftedIs
  <2>2. HeldOf(held', altOn', locks') = n
    BY <1>1, <1>2, Zenon
  <2> HIDE DEF n
  <2> QED
    BY <2>1, <2>2 DEF Held
<1>4. k # "ack"
  BY CodeIs DEF Keys
<1>5. line' = Said(k, FALSE)
  BY <1>4 DEF Release, Said
<1>6. MeantBy(Held, k, FALSE) = <<>> /\ typed' = typed
  BY DEF MeantBy, Release
<1> QED
  BY <1>1, <1>3, <1>5, <1>6, ConcatEmptySeq

-----------------------------------------------------------------------------
(* The codes on the way say what has been typed: read with the modifiers   *)
(* that TTY knows they mean the keys not yet delivered and lead to the     *)
(* modifiers that are held.                                                *)

CodesOK ==
  /\ got \in Seq(Bytes) /\ kb_in \in Seq(Bytes) /\ line \in Seq(Bytes)
  /\ altOn \in BOOLEAN
  /\ pc.at = "codes" <=> got # <<>>
Told ==
  /\ got # <<>> => Taken(got)
  /\ Saying(got \o (kb_in \o line), typed, mods, Held) \in Says
KeyInv == CodesOK /\ (~dropped => Told)

(* What is told is of the right types.                                     *)
LEMMA ToldTypes ==
  ASSUME Told
  PROVE  typed \in Seq(Meanings) /\ mods \in SUBSET Modifiers /\ Held \in SUBSET Modifiers
<1>1. Saying(got \o (kb_in \o line), typed, mods, Held) \in Sayings
  BY DEF Told, Says
<1> QED
  BY <1>1, SayingHas DEF Sayings

(* An acknowledgement on the way means nothing.                            *)
LEMMA SaysAck ==
  ASSUME NEW s \in Seq(Bytes), NEW t \in Seq(Meanings), NEW m \in SUBSET Modifiers,
         NEW n \in SUBSET Modifiers, Saying(s, t, m, n) \in Says
  PROVE  Saying(s \o <<KB_ACK>>, t, m, n) \in Says
<1> DEFINE x == Saying(s, t, m, n)
<1>1. x.codes = s /\ x.keys = t /\ x.from = m /\ x.to = n
  BY SayingHas
<1>2. Said("ack", FALSE) = <<KB_ACK>> /\ Shifted(n, "ack", FALSE) = n
      /\ MeantBy(n, "ack", FALSE) = <<>> /\ "ack" \in Source
  BY DEF Said, Shifted, MeantBy, Source
<1>3. <<KB_ACK>> # <<>>
  OBVIOUS
<1>4. x \in Says
  OBVIOUS
<1> HIDE DEF x
<1>5. Saying(x.codes \o Said("ack", FALSE), x.keys \o MeantBy(x.to, "ack", FALSE),
             x.from, Shifted(x.to, "ack", FALSE)) \in Says
  BY <1>2, <1>3, <1>4, SaysMore
<1>6. t \o <<>> = t
  BY ConcatEmptySeq
<1> QED
  BY <1>1, <1>2, <1>5, <1>6

(* What keyboard_read() has taken is what one key says, and it makes of it *)
(* what the key means.                                                     *)
LEMMA Decoded ==
  ASSUME CodesOK, Told, got # <<>>, ~More
  PROVE  \E y \in Says :
           /\ y = Saying(kb_in \o line, y.keys, IF Swallowed THEN mods ELSE NewMods, Held)
           /\ y.keys \in Seq(Meanings)
           /\ Delivers => /\ typed # <<>> /\ Head(typed) = Delivered
                          /\ y.keys = Tail(typed)
           /\ ~Delivers => y.keys = typed
<1> DEFINE rest == kb_in \o line
<1>1. /\ got \in Seq(Bytes) /\ rest \in Seq(Bytes)
      /\ typed \in Seq(Meanings) /\ mods \in SUBSET Modifiers
  BY ToldTypes, ConcatProperties DEF CodesOK
<1>2. PICK x \in Says : x.codes = got \o rest /\ x.keys = typed /\ x.from = mods /\ x.to = Held
  <2> DEFINE s == got \o rest
             x == Saying(s, typed, mods, Held)
  <2>1. x \in Says
    BY DEF Told
  <2> HIDE DEF s
  <2>2. x.codes = s /\ x.keys = typed /\ x.from = mods /\ x.to = Held
    BY SayingHas
  <2> QED
    BY <2>1, <2>2 DEF s
<1> HIDE DEF rest
<1>3. x.codes # <<>>
  BY <1>1, <1>2, ConcatEmptySeq
<1>4. PICK k \in Source, make \in BOOLEAN, y \in Says :
        /\ Said(k, make) # <<>>
        /\ x.codes = Said(k, make) \o y.codes
        /\ x.keys = MeantBy(x.from, k, make) \o y.keys
        /\ y.from = Shifted(x.from, k, make) /\ y.to = x.to
  BY <1>2, <1>3, SaysBegins
<1>5. y \in Sayings /\ y.codes \in Seq(Bytes) /\ y.keys \in Seq(Meanings)
  BY DEF Says, Sayings
<1>6. got = Said(k, make) /\ rest = y.codes
  <2>1. Taken(got) /\ ~StartsLong(got)
    BY MoreIs DEF Told, CodesOK
  <2>2. SameAs(got, rest, k, make, y.codes)
    BY <1>2, <1>4 DEF SameAs
  <2> QED
    BY <1>1, <1>4, <1>5, <2>1, <2>2, WholeKey
<1>7. /\ y.from = (IF Swallowed THEN mods ELSE NewMods)
      /\ MeantBy(mods, k, make) = IF Delivers THEN <<Delivered>> ELSE <<>>
  BY <1>2, <1>4, <1>6, KeyRead
<1>8. y = Saying(rest, y.keys, IF Swallowed THEN mods ELSE NewMods, Held)
  <2>1. y = Saying(y.codes, y.keys, y.from, y.to)
    BY <1>5 DEF Sayings, Saying
  <2> QED
    BY <1>2, <1>4, <1>6, <1>7, <2>1
<1>9. typed = MeantBy(mods, k, make) \o y.keys /\ MeantBy(mods, k, make) \in Seq(Meanings)
  BY <1>1, <1>2, <1>4, KeyTypes
<1>10. ASSUME Delivers PROVE typed # <<>> /\ Head(typed) = Delivered /\ y.keys = Tail(typed)
  <2>1. typed = <<Delivered>> \o y.keys /\ <<Delivered>> \in Seq(Meanings)
    BY <1>7, <1>9, <1>10
  <2>2. Delivered \in Meanings
    BY <2>1
  <2>3. \A d \in Meanings, t \in Seq(Meanings) :
          <<d>> \o t # <<>> /\ Head(<<d>> \o t) = d /\ Tail(<<d>> \o t) = t
    <3> SUFFICES ASSUME NEW d \in Meanings, NEW t \in Seq(Meanings)
                 PROVE  <<d>> \o t # <<>> /\ Head(<<d>> \o t) = d /\ Tail(<<d>> \o t) = t
      OBVIOUS
    <3> QED
      BY SMT
  <2> QED
    BY <1>5, <2>1, <2>2, <2>3
<1>11. ASSUME ~Delivers PROVE y.keys = typed
  BY <1>5, <1>7, <1>9, <1>11, ConcatEmptySeq
<1> QED
  BY <1>5, <1>8, <1>10, <1>11 DEF rest

(* At the start nothing is on the way and Num Lock is on for both.         *)
LEMMA InitKeyInv == Init => KeyInv
<1> SUFFICES ASSUME Init PROVE KeyInv
  OBVIOUS
<1>1. CodesOK
  BY EmptySeq DEF CodesOK, Init, KbInit, LoopTop
<1>2. Held = {"NUM_LOCK"}
  <2>1. Held = HeldOf({}, altOn, {"num"}) /\ altOn \in BOOLEAN /\ ~altOn
    BY DEF Init, KbInit, Held
  <2> DEFINE m == {"NUM_LOCK"}   n == HeldOf({}, altOn, {"num"})
  <2>2. n \in SUBSET Modifiers /\ m \in SUBSET Modifiers
    BY DEF Modifiers, HeldOf
  <2>3. /\ "SHIFT_L" \in n <=> "lshift" \in {}
        /\ "SHIFT_R" \in n <=> "rshift" \in {}
        /\ "CTRL_L" \in n <=> "lctrl" \in {}
        /\ "CTRL_R" \in n <=> "rctrl" \in {}
        /\ "ALT" \in n <=> altOn
        /\ "CAPS_LOCK" \in n <=> "caps" \in {"num"}
        /\ "NUM_LOCK" \in n <=> "num" \in {"num"}
    BY <2>1, HeldIs
  <2>4. /\ "SHIFT_L" \notin m /\ "SHIFT_R" \notin m /\ "CTRL_L" \notin m /\ "CTRL_R" \notin m
        /\ "ALT" \notin m /\ "CAPS_LOCK" \notin m /\ "NUM_LOCK" \in m
    OBVIOUS
  <2> HIDE DEF m, n
  <2>5. n = m
    BY <2>1, <2>2, <2>3, <2>4, SameModifiers
  <2> QED
    BY <2>1, <2>5 DEF m, n
<1>3. /\ got \o (kb_in \o line) = <<>> /\ typed = <<>> /\ mods = {"NUM_LOCK"} /\ got = <<>>
  BY EmptySeq, ConcatEmptySeq DEF Init, KbInit
<1>4. {"NUM_LOCK"} \in SUBSET Modifiers
  BY DEF Modifiers
<1> QED
  BY <1>1, <1>2, <1>3, <1>4, SaysCloses DEF KeyInv, Told

(* Steps that neither type nor read.                                       *)
LEMMA KeysStand ==
  ASSUME KeyInv, UNCHANGED <<held, altOn, locks, line, kb_in, got, mods, typed, dropped>>,
         pc'.at = "codes" <=> pc.at = "codes"
  PROVE  KeyInv'
<1>1. CodesOK'
  BY DEF KeyInv, CodesOK
<1>2. Held' = Held
  BY DEF Held
<1>3. Told => Told'
  BY <1>2 DEF Told
<1> QED
  BY <1>1, <1>3 DEF KeyInv

(* A key that goes down or up.                                             *)
LEMMA TypeTells == KeyInv /\ TInv /\ Type => KeyInv'
<1> SUFFICES ASSUME KeyInv, TInv, Type PROVE KeyInv'
  OBVIOUS
<1>1. PICK k \in Keys : Press(k) \/ Release(k)
  BY TerminalAssumption DEF Type, TInv, PlacesOK
<1>2. /\ ~dropped /\ ~dropped' /\ line = <<>> /\ UNCHANGED <<kb_in, got, mods, pc>>
      /\ CodesOK /\ Told
  <2>1. ~dropped /\ UNCHANGED pc
    BY DEF Type, ttyvars
  <2>2. line = <<>> /\ UNCHANGED <<kb_in, got, mods, dropped>>
    BY <1>1 DEF Press, Release
  <2> QED
    BY <2>1, <2>2 DEF KeyInv
<1>3. typed \in Seq(Meanings) /\ mods \in SUBSET Modifiers /\ Held \in SUBSET Modifiers
  BY <1>2, ToldTypes
<1>4. PICK make \in BOOLEAN :
        /\ altOn' \in BOOLEAN
        /\ Held' = Shifted(Held, k, make)
        /\ line' = Said(k, make)
        /\ typed' = typed \o MeantBy(Held, k, make)
  BY <1>1, <1>2, <1>3, PressTells, ReleaseTells DEF CodesOK
<1>5. k \in Source /\ Said(k, make) \in Seq(Bytes)
  BY <1>3, KeyTypes DEF Source
<1>6. CodesOK'
  BY <1>2, <1>4, <1>5 DEF CodesOK
<1> DEFINE s == got \o kb_in
<1>7. s \in Seq(Bytes) /\ got \o (kb_in \o line) = s
  BY <1>2, ConcatProperties, ConcatEmptySeq DEF CodesOK
<1>8. got \o (kb_in \o Said(k, make)) = s \o Said(k, make)
  BY <1>2, <1>5, ConcatAssociative DEF CodesOK
<1>9. Saying(s, typed, mods, Held) \in Says
  BY <1>2, <1>7 DEF Told
<1> HIDE DEF s
<1>10. Saying(s \o Said(k, make), typed', mods, Held') \in Says
  <2> DEFINE x == Saying(s, typed, mods, Held)
  <2>1. x.codes = s /\ x.keys = typed /\ x.from = mods /\ x.to = Held
    BY SayingHas
  <2>2. x \in Says
    BY <1>9
  <2> HIDE DEF x
  <2>3. CASE Said(k, make) # <<>>
    BY <1>4, <1>5, <2>1, <2>2, <2>3, SaysMore
  <2>4. CASE Said(k, make) = <<>>
    <3>1. k = "pause" /\ ~make
      <4>1. k # "pause" /\ k # "printscreen" /\ k # "ack" => Said(k, make) # <<>>
        BY <1>5, SaidNot
      <4>2. k = "printscreen" => Said(k, make) # <<>>
        BY DEF Said, Codes, printscreen_make, printscreen_break
      <4>3. k = "pause" /\ make => Said(k, make) # <<>>
        BY DEF Said, Codes, pausebrk_scode
      <4>4. k # "ack"
        BY <1>1, CodeIs DEF Keys
      <4> QED
        BY <2>4, <4>1, <4>2, <4>3, <4>4
    <3>2. Held' = Held /\ MeantBy(Held, k, make) = <<>>
      BY <1>4, <3>1 DEF Shifted, MeantBy
    <3>3. typed' = typed /\ s \o <<>> = s
      BY <1>3, <1>4, <1>7, <3>2, ConcatEmptySeq
    <3> QED
      BY <1>9, <2>4, <3>2, <3>3
  <2> QED
    BY <2>3, <2>4
<1>11. Told'
  BY <1>2, <1>4, <1>8, <1>10 DEF Told
<1> QED
  BY <1>6, <1>11 DEF KeyInv

(* The interrupt handler moves a code on, or drops it.                     *)
LEMMA KeyInterruptTells == KeyInv /\ KeyInterrupt => KeyInv'
<1> SUFFICES ASSUME KeyInv, KeyInterrupt PROVE KeyInv'
  OBVIOUS
<1>1. /\ CodesOK /\ line # <<>> /\ line' = Tail(line) /\ UNCHANGED <<got, mods, altOn, pc>>
      /\ Held' = Held
  BY DEF KeyInterrupt, keyboard_handler, KeyInv, Held, ttyvars
<1>2. line' \in Seq(Bytes) /\ Head(line) \in Bytes /\ line = <<Head(line)>> \o line'
  BY <1>1, HeadTailProperties DEF CodesOK
<1>3. CASE Len(kb_in) < KB_IN_BYTES
  <2>1. kb_in' = Append(kb_in, Head(line)) /\ UNCHANGED <<typed, dropped>>
    BY <1>3 DEF KeyInterrupt, keyboard_handler
  <2>2. kb_in' = kb_in \o <<Head(line)>> /\ kb_in' \in Seq(Bytes)
    BY <1>1, <1>2, <2>1, AppendIsConcat, AppendProperties DEF CodesOK
  <2>3. kb_in' \o line' = kb_in \o line
    <3> DEFINE b == <<Head(line)>>
    <3>1. b \in Seq(Bytes) /\ kb_in \in Seq(Bytes)
      BY <1>1, <1>2 DEF CodesOK
    <3>2. kb_in' = kb_in \o b /\ line = b \o line'
      BY <1>2, <2>2
    <3> HIDE DEF b
    <3>3. (kb_in \o b) \o line' = kb_in \o (b \o line')
      BY <1>2, <3>1, ConcatAssociative
    <3> QED
      BY <1>1, <3>2, <3>3
  <2>4. CodesOK'
    BY <1>1, <1>2, <2>2 DEF CodesOK
  <2>5. Told => Told'
    BY <1>1, <2>1, <2>3 DEF Told
  <2> QED
    BY <2>1, <2>4, <2>5 DEF KeyInv
<1>4. CASE ~(Len(kb_in) < KB_IN_BYTES)
  <2>1. dropped' = TRUE /\ UNCHANGED kb_in
    BY <1>4 DEF KeyInterrupt, keyboard_handler
  <2>2. CodesOK'
    BY <1>1, <1>2, <2>1 DEF CodesOK
  <2>3. ~dropped' => Told'
    BY <2>1
  <2> QED
    BY <2>2, <2>3 DEF KeyInv
<1> QED
  BY <1>3, <1>4

(* keyboard_read() takes a code: it is the first, or belongs to a longer   *)
(* sequence that those before begin.                                       *)
LEMMA ReadCodeTells == KeyInv /\ TInv /\ ReadCode => KeyInv' /\ got' # <<>>
<1> SUFFICES ASSUME KeyInv, TInv, ReadCode PROVE KeyInv' /\ got' # <<>>
  OBVIOUS
<1> DEFINE b == Head(kb_in)
<1>1. /\ CodesOK /\ kb_in # <<>> /\ got' = Append(got, b) /\ kb_in' = Tail(kb_in)
      /\ UNCHANGED <<altOn, line, mods, typed, dropped>> /\ Held' = Held
  BY DEF ReadCode, get_byte_from_kbuf, KeyInv, Held
<1>2. kb_in' \in Seq(Bytes) /\ b \in Bytes /\ kb_in = <<b>> \o kb_in'
  BY <1>1, HeadTailProperties DEF CodesOK
<1> HIDE DEF b
<1>3. got' = got \o <<b>> /\ got' \in Seq(Bytes) /\ got' # <<>>
  BY <1>1, <1>2, AppendIsConcat, AppendProperties DEF CodesOK
<1>4. pc'.at = "codes"
  BY AtIsIdle DEF ReadCode
<1>5. CodesOK'
  BY <1>1, <1>2, <1>3, <1>4 DEF CodesOK
<1>6. got' \o (kb_in' \o line') = got \o (kb_in \o line)
  <2>1. /\ got \in Seq(Bytes) /\ <<b>> \in Seq(Bytes) /\ line \in Seq(Bytes)
        /\ kb_in' \o line \in Seq(Bytes)
    BY <1>1, <1>2, ConcatProperties DEF CodesOK
  <2> DEFINE c == <<b>>   r == kb_in'
  <2>2. /\ got' = got \o c /\ kb_in = c \o r /\ c \in Seq(Bytes) /\ r \in Seq(Bytes)
        /\ r \o line \in Seq(Bytes)
    BY <1>2, <1>3, <2>1
  <2>3. r = kb_in'
    OBVIOUS
  <2> HIDE DEF c, r
  <2>4. (got \o c) \o (r \o line) = got \o ((c \o r) \o line)
    <3>1. got \in Seq(Bytes) /\ line \in Seq(Bytes)
      BY <2>1
    <3>2. c \in Seq(Bytes) /\ r \in Seq(Bytes)
      BY <2>2
    <3> DEFINE u == r \o line
    <3>3. u \in Seq(Bytes)
      BY <2>2
    <3>4. (c \o r) \o line = c \o u
      BY <3>1, <3>2, ConcatAssociative
    <3> HIDE DEF u
    <3>5. (got \o c) \o u = got \o (c \o u)
      BY <3>1, <3>2, <3>3, ConcatAssociative
    <3> QED
      BY <3>4, <3>5 DEF u
  <2> QED
    BY <1>1, <2>2, <2>3, <2>4
<1>7. Taken(got')
  <2>1. /\ Len(got') = Len(got) + 1 /\ \A i \in 1..Len(got) : got'[i] = got[i]
        /\ Len(got) \in Nat
    BY <1>1, <1>2, AppendProperties DEF CodesOK
  <2>2. CASE got = <<>>
    <3>1. printscreen_make \in LongCodes /\ Len(printscreen_make) = 4
      BY DEF LongCodes, printscreen_make
    <3>2. Len(got') = 1
      BY <2>1, <2>2
    <3> QED
      BY <3>1, <3>2 DEF Taken
  <2>3. CASE got # <<>>
    <3>1. More
      BY <1>1, <2>3 DEF ReadCode, CodesOK, At
    <3>2. PICK s \in LongCodes : Len(got) < Len(s) /\ \A i \in 1..Len(got) : got[i] = s[i]
      BY <1>1, <3>1, MoreIs DEF StartsLong, CodesOK
    <3>3. Len(s) \in Nat
      BY LongCodesAre
    <3>4. Len(got') <= Len(s) /\ Len(got') - 1 = Len(got)
      BY <2>1, <3>2, <3>3
    <3> QED
      BY <2>1, <3>2, <3>4 DEF Taken
  <2> QED
    BY <2>2, <2>3
<1>8. Told => Told'
  BY <1>1, <1>6, <1>7 DEF Told
<1> QED
  BY <1>1, <1>3, <1>5, <1>8 DEF KeyInv

(* keyboard_read() has the codes of a key.  The acknowledgements of        *)
(* set_leds() come behind all that is on the way.                          *)
LEMMA DecodeTells == KeyInv /\ TInv /\ Decode => KeyInv' /\ NextIsTyped
<1> SUFFICES ASSUME KeyInv, TInv, Decode PROVE KeyInv' /\ NextIsTyped
  OBVIOUS
<1>1. /\ CodesOK /\ got # <<>> /\ ~More /\ got' = <<>>
      /\ mods' = (IF Swallowed THEN mods ELSE NewMods)
      /\ typed' = (IF Delivers /\ typed # <<>> THEN Tail(typed) ELSE typed)
      /\ UNCHANGED <<altOn, kb_in, dropped>> /\ Held' = Held
  BY DEF Decode, keyboard_read, KeyInv, CodesOK, At, Held
<1>2. PICK n \in 0..2 : line' = line \o Acks(n)
  <2>1. UNCHANGED line \/ \E n \in 0..2 : line' = line \o Acks(n)
    BY DEF Decode, keyboard_read
  <2>2. Acks(0) = <<>>
    BY DEF Acks
  <2>3. line \o <<>> = line
    BY <1>1, ConcatEmptySeq DEF CodesOK
  <2>4. ASSUME UNCHANGED line PROVE line' = line \o Acks(0)
    BY <2>2, <2>3, <2>4
  <2>5. 0 \in 0..2
    OBVIOUS
  <2> QED
    BY <2>1, <2>4, <2>5
<1>3. pc'.at # "codes"
  <2>1. CASE pc' = [pc EXCEPT !.at = "done"]
    BY <2>1, AtIsIdle
  <2>2. CASE in_process(Delivered)
    BY <2>2, AtIsIdle DEF in_process
  <2> QED
    BY <2>1, <2>2 DEF Decode
<1> DEFINE a == <<KB_ACK>>
<1>4. a \in Seq(Bytes)
  BY DEF KB_ACK, Bytes
<1>5. line' = line \/ line' = line \o a \/ line' = (line \o a) \o a
  <2>1. Acks(0) = <<>> /\ Acks(1) = a /\ Acks(2) = <<KB_ACK, KB_ACK>>
    BY DEF Acks
  <2>2. \A e \in Bytes : <<e>> \o <<e>> = <<e, e>>
    <3> SUFFICES ASSUME NEW e \in Bytes PROVE <<e>> \o <<e>> = <<e, e>>
      OBVIOUS
    <3> DEFINE d == <<e>>   f == <<e, e>>
    <3>1. d \in Seq(Bytes) /\ f \in Seq(Bytes) /\ Len(d) = 1 /\ Len(f) = 2
          /\ d[1] = e /\ f[1] = e /\ f[2] = e
      OBVIOUS
    <3> HIDE DEF d, f
    <3>2. /\ d \o d \in Seq(Bytes) /\ Len(d \o d) = 2
          /\ (d \o d)[1] = e /\ (d \o d)[2] = e
      BY <3>1, ConcatProperties
    <3>3. \A i \in 1..2 : i = 1 \/ i = 2
      OBVIOUS
    <3>4. d \o d = f
      BY <3>1, <3>2, <3>3, SeqEqual
    <3> QED
      BY <3>4 DEF d, f
  <2>6. a \o a = <<KB_ACK, KB_ACK>>
    BY <2>2 DEF KB_ACK, Bytes
  <2> HIDE DEF a
  <2>3. (line \o a) \o a = line \o (a \o a)
    BY <1>1, <1>4, ConcatAssociative DEF CodesOK
  <2>4. line \o <<>> = line
    BY <1>1, ConcatEmptySeq DEF CodesOK
  <2>5. n = 0 \/ n = 1 \/ n = 2
    OBVIOUS
  <2> QED
    <3>1. CASE n = 0
      BY <1>2, <2>1, <2>4, <3>1
    <3>2. CASE n = 1
      BY <1>2, <2>1, <3>2
    <3>3. CASE n = 2
      BY <1>2, <2>1, <2>3, <2>6, <3>3
    <3> QED
      BY <2>5, <3>1, <3>2, <3>3
<1> HIDE DEF a
<1>6. line \o a \in Seq(Bytes) /\ line' \in Seq(Bytes)
  <2>1. line \in Seq(Bytes) /\ line \o a \in Seq(Bytes)
    BY <1>1, <1>4, ConcatProperties DEF CodesOK
  <2>2. (line \o a) \o a \in Seq(Bytes)
    BY <1>4, <2>1, ConcatProperties
  <2> QED
    BY <1>5, <2>1, <2>2
<1>7. CodesOK'
  <2>1. got' \in Seq(Bytes) /\ ~(pc'.at = "codes") /\ ~(got' # <<>>)
    BY <1>1, <1>3, EmptySeq
  <2>2. kb_in' \in Seq(Bytes) /\ altOn' \in BOOLEAN
    BY <1>1 DEF CodesOK
  <2> QED
    BY <1>6, <2>1, <2>2 DEF CodesOK
<1>8. ASSUME Told PROVE Told' /\ (Delivers => typed # <<>> /\ Delivered = Head(typed))
  <2> DEFINE rest == kb_in \o line
  <2>1. PICK y \in Says :
          /\ y = Saying(rest, y.keys, mods', Held)
          /\ y.keys \in Seq(Meanings)
          /\ Delivers => /\ typed # <<>> /\ Head(typed) = Delivered
                         /\ y.keys = Tail(typed)
          /\ ~Delivers => y.keys = typed
    BY <1>1, <1>8, Decoded
  <2>2. rest \in Seq(Bytes) /\ kb_in \in Seq(Bytes) /\ line \in Seq(Bytes)
    BY <1>1, ConcatProperties DEF CodesOK
  <2>3. /\ (rest \o a) = kb_in \o (line \o a) /\ rest \o a \in Seq(Bytes)
        /\ (rest \o a) \o a = kb_in \o ((line \o a) \o a)
    <3>1. rest \o a = kb_in \o (line \o a) /\ rest \o a \in Seq(Bytes)
      BY <1>4, <2>2, ConcatAssociative, ConcatProperties
    <3>2. (kb_in \o (line \o a)) \o a = kb_in \o ((line \o a) \o a)
      BY <1>4, <1>6, <2>2, ConcatAssociative, SMTT(20)
    <3> QED
      BY <3>1, <3>2
  <2> HIDE DEF rest
  <2>4. typed' = y.keys
    BY <1>1, <2>1
  <2>5. mods' \in SUBSET Modifiers /\ Held \in SUBSET Modifiers
    <3>1. y \in Sayings
      BY DEF Says
    <3>2. y.from = mods' /\ y.to = Held
      BY <2>1, SayingHas
    <3> QED
      BY <3>1, <3>2 DEF Sayings
  <2>6. /\ Saying(rest, y.keys, mods', Held) \in Says
        /\ Saying(rest \o a, y.keys, mods', Held) \in Says
        /\ Saying((rest \o a) \o a, y.keys, mods', Held) \in Says
    <3>1. Saying(rest, y.keys, mods', Held) \in Says
      BY <2>1
    <3>2. Saying(rest \o a, y.keys, mods', Held) \in Says
      BY <2>1, <2>2, <2>5, <3>1, SaysAck DEF a
    <3>3. Saying((rest \o a) \o a, y.keys, mods', Held) \in Says
      BY <2>1, <2>3, <2>5, <3>2, SaysAck DEF a
    <3> QED
      BY <3>1, <3>2, <3>3
  <2>7. kb_in \o line' \in {rest, rest \o a, (rest \o a) \o a}
    BY <1>5, <2>3 DEF rest
  <2>8. got' \o (kb_in' \o line') = kb_in \o line'
    <3>1. kb_in \o line' \in Seq(Bytes)
      BY <1>6, <2>2, ConcatProperties
    <3> QED
      BY <1>1, <3>1, ConcatEmptySeq
  <2>9. Told'
    BY <1>1, <2>4, <2>6, <2>7, <2>8 DEF Told
  <2> QED
    BY <2>1, <2>9
<1>9. KeyInv'
  BY <1>1, <1>7, <1>8 DEF KeyInv
<1>10. NextIsTyped
  BY <1>1, <1>8 DEF KeyInv, NextIsTyped
<1> QED
  BY <1>9, <1>10

(* The rest of the machine: nobody but keyboard_read() empties got.        *)
LEMMA NotReading ==
  ASSUME TInv,
         \/ ReadNothing \/ Echo \/ Echoed \/ EndOfLine \/ TerminalDone \/ Interrupted \/ HardInt
         \/ Draw \/ tty_do_read \/ tty_do_write \/ ClockInterrupt \/ PrintDebug \/ UNCHANGED vars
  PROVE  /\ UNCHANGED <<held, altOn, locks, line, kb_in, got, mods, typed, dropped>>
         /\ pc'.at = "codes" <=> pc.at = "codes"
<1>1. CASE ReadNothing \/ TerminalDone
  BY <1>1, AtIsIdle DEF ReadNothing, TerminalDone, NextTerminal, LoopTop, At, kbvars
<1>2. CASE Echo
  BY <1>2, AtIsIdle DEF Echo, At, kbvars
<1>3. CASE Echoed \/ EndOfLine
  BY <1>3, AtIsIdle DEF Echoed, EndOfLine, At, kbvars
<1>4. CASE Interrupted \/ HardInt \/ tty_do_read \/ tty_do_write
  BY <1>4, AtIsIdle DEF Interrupted, HardInt, tty_do_read, tty_do_write, At, LoopTop, kbvars
<1>5. CASE ClockInterrupt
  BY <1>5, AtIsIdle DEF ClockInterrupt, At, kbvars
<1>6. CASE Draw \/ PrintDebug \/ UNCHANGED vars
  BY <1>6 DEF Draw, PrintDebug, vars, kbvars, ttyvars
<1> QED
  BY <1>1, <1>2, <1>3, <1>4, <1>5, <1>6

(* Every step keeps what is told, and delivers what was typed first.       *)
LEMMA NextKeys ==
  ASSUME KeyInv, TInv, [Next]_vars
  PROVE  KeyInv' /\ (pc.at = "codes" /\ got' = <<>> => NextIsTyped)
<1>1. pc.at = "codes" => got # <<>>
  BY DEF KeyInv, CodesOK
<1>2. CASE Type
  BY <1>1, <1>2, TypeTells DEF Type, Press, Release
<1>3. CASE KeyInterrupt
  BY <1>1, <1>3, KeyInterruptTells DEF KeyInterrupt, keyboard_handler
<1>4. CASE ReadCode
  BY <1>4, ReadCodeTells
<1>5. CASE Decode
  BY <1>5, DecodeTells
<1>6. CASE \/ ReadNothing \/ Echo \/ Echoed \/ EndOfLine \/ TerminalDone \/ Interrupted \/ HardInt
           \/ Draw \/ tty_do_read \/ tty_do_write \/ ClockInterrupt \/ PrintDebug \/ UNCHANGED vars
  BY <1>1, <1>6, NotReading, KeysStand
<1> QED
  BY <1>2, <1>3, <1>4, <1>5, <1>6 DEF Next, TtyTask, TtyBusy

(* What has been typed and not yet been delivered is what the codes on the *)
(* way say, unless kb_in was full.                                         *)
THEOREM KeyInvariance == Spec => []KeyInv
<1>1. KeyInv /\ TInv /\ [Next]_vars => KeyInv'
  BY NextKeys
<1> QED
  BY <1>1, InitKeyInv, TerminalInvariance, PTL DEF Spec

(* Keys come to in_process() in the order in which they were pressed, each *)
(* with the meaning that it had then, however late keyboard_read() reads   *)
(* them, unless kb_in was full.                                            *)
THEOREM KeysArriveInOrder == Spec => KeysInOrder
<1>1. KeyInv /\ TInv /\ [Next]_vars => [pc.at = "codes" /\ got' = <<>> => NextIsTyped]_vars
  BY NextKeys
<1> QED
  BY <1>1, KeyInvariance, TerminalInvariance, PTL DEF Spec, KeysInOrder
=============================================================================
