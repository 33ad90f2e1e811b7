------------------------------ MODULE Terminal ------------------------------
(***************************************************************************)
(* TASK_TTY between the keyboard (Keyboard) and the screen (Console): its  *)
(* loop over the terminals, in_process(), the echo to a reader and the     *)
(* characters of writers.  What Tty shows of its messages is cut down here *)
(* to their effect: a request is served, a wake-up by the clock arrives.   *)
(***************************************************************************)
EXTENDS Keyboard, Console

CONSTANTS
  ReadLen,      \* bound: characters a reader asks for
  Scenarios     \* bound: sets of keys, terminals and printx() used together

ASSUME TerminalAssumption ==
  /\ ReadLen \in Nat \ {0}
  /\ \A s \in Scenarios : s.keys \subseteq Keys /\ s.writes \cup s.reads \subseteq Consoles

VARIABLES
  use,       \* the scenario of this behaviour
  pc,        \* where TASK_TTY is: [at, t, ch]
  reader,    \* terminal -> [left, trans]: tty_left_cnt, tty_trans_cnt
  has_int    \* has_int_msg of TASK_TTY

ttyvars == <<use, pc, reader, has_int>>
vars == <<kbvars, conVars, ttyvars>>

NoReader == [left |-> 0, trans |-> 0]
LoopTop == [at |-> "read", t |-> 0, ch |-> "x"]

Init ==
  /\ KbInit /\ ConInit
  /\ use \in Scenarios
  /\ pc = LoopTop
  /\ reader = [t \in Consoles |-> NoReader]
  /\ has_int = FALSE

(* TASK_TTY goes on when out_char() or scroll_screen() has returned.       *)
At(where) == pc.at = where /\ out.at = "idle"

(* To the next terminal, behind the last one to RECEIVE.                   *)
NextTerminal ==
  pc' = IF pc.t + 1 \in Consoles THEN [LoopTop EXCEPT !.t = pc.t + 1]
        ELSE [LoopTop EXCEPT !.at = "receive"]

-----------------------------------------------------------------------------
(* The loop of task_tty().                                                 *)

ReadNothing ==
  /\ At("read") /\ (pc.t # nr_current_console \/ kb_in = <<>>)
  /\ NextTerminal
  /\ UNCHANGED <<kbvars, conVars, use, reader, has_int>>

ReadCode ==
  /\ \/ At("read") /\ pc.t = nr_current_console
     \/ At("codes") /\ More
  /\ get_byte_from_kbuf
  /\ pc' = [pc EXCEPT !.at = "codes"]
  /\ UNCHANGED <<conVars, use, reader, has_int>>

(* in_process(): what a key does.  The flags of a character are cut off.   *)
Character(k) ==
  CASE k = "ENTER" -> {"newline"} [] k = "BACKSPACE" -> {"back"}
    [] k = "0" -> {"nul"} [] k \in {"a", "A", "/", "?", "8", "2", "*"} -> {"x"} [] OTHER -> {}
Selects(k) == CASE k.key = "F1" -> {0} [] k.key = "F2" -> {1} [] OTHER -> {}
Ctrl(k) == k.flags \cap {"CTRL_L", "CTRL_R"} # {}

in_process(k) ==
  \/ /\ Character(k.key) # {}
     /\ \E c \in Character(k.key) : pc' = [pc EXCEPT !.at = "typed", !.ch = c]
     /\ UNCHANGED conVars
  \/ /\ k.key \in {"UP", "DOWN"} /\ "ALT" \in k.flags
     /\ scroll_screen(pc.t, IF k.key = "UP" THEN "down" ELSE "up")
     /\ pc' = [pc EXCEPT !.at = "done"]
  \/ /\ Ctrl(k)
     /\ \E c \in Selects(k) \cap Consoles : select_console(c)
     /\ pc' = [pc EXCEPT !.at = "done"]

Heeded(k) ==
  \/ Character(k.key) # {}
  \/ k.key \in {"UP", "DOWN"} /\ "ALT" \in k.flags
  \/ Ctrl(k) /\ Selects(k) \cap Consoles # {}

Decode ==
  /\ At("codes") /\ ~More
  /\ keyboard_read
  /\ IF Delivers /\ Heeded(Delivered) THEN in_process(Delivered)
     ELSE pc' = [pc EXCEPT !.at = "done"] /\ UNCHANGED conVars
  /\ UNCHANGED <<use, reader, has_int>>

(* tty_dev_write(): without a reader the character is dropped.             *)
Echo ==
  /\ At("typed")
  /\ LET r == reader[pc.t] IN
     IF r.left > 0 /\ (pc.ch = "x" \/ (pc.ch = "back" /\ r.trans > 0))
     THEN out_char(pc.t, pc.ch) /\ pc' = [pc EXCEPT !.at = "echoed"]
     ELSE /\ pc' = [pc EXCEPT !.at = IF r.left > 0 /\ pc.ch = "newline" THEN "line" ELSE "done"]
          /\ UNCHANGED conVars
  /\ UNCHANGED <<kbvars, use, reader, has_int>>

Echoed ==
  /\ At("echoed")
  /\ reader' = [reader EXCEPT ![pc.t] =
        IF pc.ch = "x" THEN [left |-> @.left - 1, trans |-> @.trans + 1]
        ELSE [left |-> @.left + 1, trans |-> @.trans - 1]]
  /\ pc' = [pc EXCEPT !.at = IF reader'[pc.t].left = 0 THEN "line" ELSE "done"]
  /\ UNCHANGED <<kbvars, conVars, use, has_int>>

EndOfLine ==
  /\ At("line")
  /\ out_char(pc.t, "newline")
  /\ reader' = [reader EXCEPT ![pc.t] = NoReader]
  /\ pc' = [pc EXCEPT !.at = "done"]
  /\ UNCHANGED <<kbvars, use, has_int>>

TerminalDone ==
  /\ At("done")
  /\ NextTerminal
  /\ UNCHANGED <<kbvars, conVars, use, reader, has_int>>

(* Messages.  A wake-up that came while TTY was busy is received first.    *)
Interrupted ==
  /\ At("receive") /\ has_int
  /\ has_int' = FALSE /\ pc' = [pc EXCEPT !.at = "int"]
  /\ UNCHANGED <<kbvars, conVars, use, reader>>

HardInt ==
  /\ At("int") /\ pc' = LoopTop
  /\ key_pressed' = 0
  /\ UNCHANGED <<held, altOn, locks, line, kb_in, got, mods, typed, dropped>>
  /\ UNCHANGED <<conVars, use, reader, has_int>>

tty_do_read ==
  /\ At("receive") /\ ~has_int
  /\ \E t \in use.reads :
        /\ reader[t] = NoReader
        /\ reader' = [reader EXCEPT ![t].left = ReadLen]
  /\ pc' = LoopTop
  /\ UNCHANGED <<kbvars, conVars, use, has_int>>

(* One character of a write; more of them are more writes.                 *)
tty_do_write ==
  /\ At("receive") /\ ~has_int
  /\ \E t \in use.writes, ch \in {"x", "newline", "back"} : out_char(t, ch)
  /\ pc' = LoopTop
  /\ UNCHANGED <<kbvars, use, reader, has_int>>

Draw == DrawStep /\ UNCHANGED <<kbvars, ttyvars>>

TtyBusy ==
  \/ ReadNothing \/ ReadCode \/ Decode \/ Echo \/ Echoed \/ EndOfLine \/ TerminalDone
  \/ Interrupted \/ HardInt \/ Draw
TtyTask == TtyBusy \/ tty_do_read \/ tty_do_write

-----------------------------------------------------------------------------
(* The others.                                                             *)

(* Bounds: no key goes up or down after a byte has been lost, nor while    *)
(* TTY draws (codes on the way still arrive then).                         *)
Type ==
  /\ ~dropped /\ out.at = "idle"
  /\ \E k \in use.keys : Press(k) \/ Release(k)
  /\ UNCHANGED <<conVars, ttyvars>>
KeyInterrupt == keyboard_handler /\ UNCHANGED <<conVars, ttyvars>>

(* Mutant: the clock would clear key_pressed and inform only a waiting TTY.*)
ClockClears ==
  /\ key_pressed = 1 /\ key_pressed' = 0
  /\ pc' = IF At("receive") /\ ~has_int THEN [pc EXCEPT !.at = "int"] ELSE pc
  /\ UNCHANGED <<held, altOn, locks, line, kb_in, got, mods, typed, dropped>>
  /\ UNCHANGED <<conVars, use, reader, has_int>>

(* clock_handler() informs TTY while key_pressed is set.                   *)
ClockInterrupt ==
  /\ key_pressed = 1
  /\ IF At("receive") /\ ~has_int
     THEN pc' = [pc EXCEPT !.at = "int"] /\ UNCHANGED has_int
     ELSE has_int' = TRUE /\ UNCHANGED pc
  /\ UNCHANGED <<kbvars, conVars, use, reader>>

PrintDebug ==
  /\ use.printx
  /\ \E ch \in {"x", "newline"} : sys_printx(ch)
  /\ UNCHANGED <<kbvars, ttyvars>>

Next == TtyTask \/ Type \/ KeyInterrupt \/ ClockInterrupt \/ PrintDebug

Spec == Init /\ [][Next]_vars

(* The codes of a key arrive one after the other, the clock strikes, and   *)
(* TTY is given the processor.                                             *)
FairSpec == Spec /\ WF_vars(KeyInterrupt) /\ WF_vars(ClockInterrupt) /\ WF_vars(TtyBusy)

-----------------------------------------------------------------------------
(* Properties.                                                             *)

(* Keys come to in_process() in order and with the meaning they had when   *)
(* they were pressed (NextIsTyped), unless kb_in was full.                 *)
KeysInOrder == [][pc.at = "codes" /\ got' = <<>> => NextIsTyped]_vars

(* While key_pressed is set TTY gets to the keyboard, whatever it was busy *)
(* with and wherever keyboard_handler(), which sets the flag, the clock,   *)
(* which wakes TTY for it, and TTY, which clears it, come in between: the  *)
(* oldest of the codes in kb_in is read.  No more is true of the code: the *)
(* flag is cleared for all codes and one is read, so that the others wait  *)
(* for the next key.                                                       *)
KeyWakes == (key_pressed = 1 /\ kb_in # <<>>) ~> (got # <<>> \/ raced)

(* TTY comes back for the next message: neither the wait for the rest of   *)
(* a key's codes nor the scrolling of out_char() goes on for ever, unless  *)
(* codes were dropped or printx() has moved the cursor meanwhile.          *)
TtyListens == (pc.at # "receive") ~> (pc.at = "receive" \/ dropped \/ raced)
=============================================================================
