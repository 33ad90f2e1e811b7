------------------------------- MODULE Console -------------------------------
(***************************************************************************)
(* The consoles' parts of video memory: out_char(), scroll_screen() and    *)
(* flush(), statement by statement, because TASK_TTY may be preempted in   *)
(* them by a process that calls printx(): sys_printx() draws on console 0, *)
(* in the kernel and therefore at one go as TTY sees it.                   *)
(*                                                                         *)
(* Positions are relative to original_addr; what is drawn is left out.     *)
(***************************************************************************)
EXTENDS Naturals

CONSTANTS
  NR_CONSOLES, SCREEN_WIDTH, SCREEN_SIZE,
  v_mem_limit      \* words of video memory per console

Consoles == 0..(NR_CONSOLES - 1)

ASSUME ConsoleAssumption ==
  /\ {NR_CONSOLES, SCREEN_WIDTH, SCREEN_SIZE} \subseteq Nat \ {0}
  /\ SCREEN_SIZE % SCREEN_WIDTH = 0
  /\ v_mem_limit \in Nat /\ v_mem_limit > SCREEN_SIZE

VARIABLES
  console,      \* console -> [cursor, start]: cursor, current_start_addr
  nr_current_console,
  crtc,         \* what the registers show: [con, cursor, start]
  out,          \* where TTY is in out_char() or scroll_screen()
  raced         \* sys_printx() drew on a console that TTY was drawing on

conVars == <<console, nr_current_console, crtc, out, raced>>

Idle == [at |-> "idle", con |-> 0, ch |-> "x", vmem |-> 0, val |-> 0, after |-> "key"]
cursor == console[out.con].cursor
start == console[out.con].start

(* init_screen(): the other consoles have shown their names.               *)
ConInit ==
  /\ console = [c \in Consoles |-> [cursor |-> IF c = 0 THEN 0 ELSE SCREEN_WIDTH, start |-> 0]]
  /\ nr_current_console = 0
  /\ crtc = [con |-> 0, cursor |-> 0, start |-> 0]
  /\ out = Idle /\ raced = FALSE

Goto(at) == out' = [out EXCEPT !.at = at]
OnlyOut == UNCHANGED <<console, nr_current_console, crtc, raced>>

-----------------------------------------------------------------------------
(* out_char().                                                             *)

out_char(c, ch) ==
  /\ out' = [Idle EXCEPT !.at = "switch", !.con = c, !.ch = ch, !.vmem = console[c].cursor,
                       !.after = "end"]
  /\ OnlyOut

(* Mutant: a character would be drawn on the last position, too.           *)
MayDrawLast(ch, cur) ==
  CASE ch = "newline" -> cur < v_mem_limit - SCREEN_WIDTH
    [] ch = "back" -> cur > 0
    [] OTHER     -> cur < v_mem_limit

MayDraw(ch, cur) ==
  CASE ch = "newline" -> cur < v_mem_limit - SCREEN_WIDTH
    [] ch = "back" -> cur > 0
    [] OTHER     -> cur < v_mem_limit - 1

Moved(ch, cur) ==
  CASE ch = "newline" -> SCREEN_WIDTH * (cur \div SCREEN_WIDTH + 1)
    [] ch = "back" -> cur - 1
    [] OTHER     -> cur + 1

Switch ==
  /\ out.at = "switch"
  /\ Goto(IF MayDraw(out.ch, cursor) THEN "load" ELSE "loop")
  /\ OnlyOut

Load == out.at = "load" /\ out' = [out EXCEPT !.at = "store", !.val = cursor] /\ OnlyOut

(* The cursor moves; for all but a new line a word is written as well.     *)
Written == IF out.ch = "back" THEN {out.vmem - 1} ELSE IF out.ch = "newline" THEN {} ELSE {out.vmem}

Store ==
  /\ out.at = "store"
  /\ console' = [console EXCEPT ![out.con].cursor = Moved(out.ch, out.val)]
  /\ Goto("loop")
  /\ UNCHANGED <<nr_current_console, crtc, raced>>

BelowScreen == cursor >= start + SCREEN_SIZE

Loop ==
  /\ out.at = "loop"
  /\ out' = IF BelowScreen THEN [out EXCEPT !.at = "down", !.after = "loop"]
            ELSE [out EXCEPT !.at = "flush", !.after = "end"]
  /\ OnlyOut

-----------------------------------------------------------------------------
(* scroll_screen() and flush().                                            *)

scroll_screen(c, at) == out' = [Idle EXCEPT !.at = at, !.con = c] /\ OnlyOut

(* Mutant: what is shown would have to be memory of the console.           *)
WholeScreenBelow == start + SCREEN_WIDTH + SCREEN_SIZE <= v_mem_limit

MoreBelow == start + SCREEN_SIZE < v_mem_limit

ScrollTest ==
  /\ \/ out.at = "up" /\ Goto(IF start > 0 THEN "up2" ELSE "flush")
     \/ out.at = "down" /\ Goto(IF MoreBelow THEN "down2" ELSE "flush")
  /\ OnlyOut

ScrollLoad ==
  /\ \/ out.at = "up2" /\ out' = [out EXCEPT !.at = "move", !.val = start - SCREEN_WIDTH]
     \/ out.at = "down2" /\ out' = [out EXCEPT !.at = "move", !.val = start + SCREEN_WIDTH]
  /\ OnlyOut

ScrollMove ==
  /\ out.at = "move"
  /\ console' = [console EXCEPT ![out.con].start = out.val]
  /\ Goto("flush")
  /\ UNCHANGED <<nr_current_console, crtc, raced>>

Done == out' = IF out.after = "loop" THEN [out EXCEPT !.at = "loop"] ELSE Idle

Flush ==
  /\ out.at = "flush"
  /\ IF out.con = nr_current_console THEN Goto("setcursor") ELSE Done
  /\ OnlyOut

SetCursor ==
  /\ out.at = "setcursor"
  /\ crtc' = [crtc EXCEPT !.con = out.con, !.cursor = cursor]
  /\ Goto("setstart")
  /\ UNCHANGED <<console, nr_current_console, raced>>

SetStart ==
  /\ out.at = "setstart"
  /\ crtc' = [crtc EXCEPT !.start = start]
  /\ Done
  /\ UNCHANGED <<console, nr_current_console, raced>>

DrawStep ==
  \/ Switch \/ Load \/ Store \/ Loop
  \/ ScrollTest \/ ScrollLoad \/ ScrollMove \/ Flush \/ SetCursor \/ SetStart

(* Mutant: the console would become current without being shown.           *)
SelectOnly(c) ==
  /\ nr_current_console' = c /\ out' = Idle
  /\ UNCHANGED <<console, crtc, raced>>

select_console(c) ==
  /\ nr_current_console' = c
  /\ out' = [Idle EXCEPT !.at = "flush", !.con = c]
  /\ UNCHANGED <<console, crtc, raced>>

-----------------------------------------------------------------------------
(* sys_printx(): out_char() of one character on console 0, at one go.      *)
(* Not followed: printx() on a console whose cursor a race has moved out   *)
(* of its memory, where the loop does not end.                             *)

Printed(ch) ==
  LET cur == console[0].cursor IN IF MayDraw(ch, cur) THEN Moved(ch, cur) ELSE cur

(* As many lines are scrolled as bring the cursor onto the screen.         *)
ScrolledTo(cur) ==
  LET s(k) == console[0].start + k * SCREEN_WIDTH
      k == CHOOSE k \in 0..v_mem_limit :
             cur < s(k) + SCREEN_SIZE /\ (k = 0 \/ cur >= s(k - 1) + SCREEN_SIZE)
  IN s(k)

sys_printx(ch) ==
  LET cur == Printed(ch)
      s == ScrolledTo(cur)
  IN /\ cur < v_mem_limit
     /\ console' = [console EXCEPT ![0] = [cursor |-> cur, start |-> s]]
     /\ crtc' = IF nr_current_console = 0 THEN [con |-> 0, cursor |-> cur, start |-> s] ELSE crtc
     /\ raced' = (raced \/ (out.at # "idle" /\ out.con = 0))
     /\ UNCHANGED <<nr_current_console, out>>

-----------------------------------------------------------------------------
(* Unless printx() interferes, a console's cursor and screen stay in its   *)
(* own memory, though that does not hold a whole number of lines: at most  *)
(* the rest of one line that begins in it is shown; nothing is written     *)
(* outside of it; and what has been drawn is not below the screen.         *)
ScreenHolds ==
  ~raced =>
    /\ \A c \in Consoles :
         /\ console[c].cursor \in 0..(v_mem_limit - 1)
         /\ console[c].start % SCREEN_WIDTH = 0
         /\ console[c].start + SCREEN_SIZE < v_mem_limit + SCREEN_WIDTH
    /\ out.at = "store" => Written \subseteq 0..(v_mem_limit - 1)
    /\ out.after = "end" /\ out.at \in {"flush", "setcursor", "setstart"} => ~BelowScreen

(* Whenever TTY is not drawing, the display shows the current console as   *)
(* it is, whoever drew last and however the consoles were switched.        *)
Shown ==
  ~raced /\ out.at = "idle" =>
    crtc = [con |-> nr_current_console, cursor |-> console[nr_current_console].cursor,
            start |-> console[nr_current_console].start]
=============================================================================
