------------------------------ MODULE Keyboard ------------------------------
(***************************************************************************)
(* The keyboard, its interrupt handler and keyboard_read(): the scan codes *)
(* of each key go byte by byte through the ring kb_in and are put together *)
(* again.  TASK_TTY, which calls keyboard_read(), is in Terminal.          *)
(*                                                                         *)
(* The keyboard itself (key tops, scan codes, what is held down) is        *)
(* hardware; a few keys stand for the rows of keymap[] that are alike.     *)
(***************************************************************************)
EXTENDS Naturals, Sequences, SequencesExt

CONSTANT KB_IN_BYTES

ASSUME KbAssumption == KB_IN_BYTES \in Nat \ {0}

VARIABLES
  held,         \* the keys that are held down
  altOn,        \* the last thing an Alt key did was to go down
  locks,        \* the lock keys that have been pressed an odd number of times
  line,         \* codes of the last key that are still to come
  kb_in,        \* the ring, oldest byte first
  key_pressed,
  got,          \* bytes that the call of keyboard_read() has taken
  mods,         \* shift_l, ..., alt_l and the locks, as a set of those that are 1
  typed,        \* keys pressed and not yet delivered, with what they mean
  dropped       \* a byte has been lost

kbvars == <<held, altOn, locks, line, kb_in, key_pressed, got, mods, typed, dropped>>

-----------------------------------------------------------------------------
(* The keyboard.                                                           *)

Code ==
  [a |-> \h1E, slash |-> \h35, enter |-> \h1C, backspace |-> \h0E,
   lshift |-> \h2A, rshift |-> \h36, lctrl |-> \h1D, rctrl |-> \h1D,
   lalt |-> \h38, ralt |-> \h38, caps |-> \h3A, num |-> \h45,
   pad8 |-> \h48, up |-> \h48, down |-> \h50, f1 |-> \h3B, f2 |-> \h3C]

Keys == DOMAIN Code \cup {"pause", "printscreen"}
Extended == {"rctrl", "ralt", "up", "down"}
FLAG_BREAK == \h80
pausebrk_scode == <<\hE1, \h1D, \h45, \hE1, \h9D, \hC5>>

printscreen_make == <<\hE0, \h2A, \hE0, \h37>>
printscreen_break == <<\hE0, \hB7, \hE0, \hAA>>

Codes(k, make) ==
  IF k = "pause" THEN (IF make THEN pausebrk_scode ELSE <<>>)
  ELSE IF k = "printscreen" THEN (IF make THEN printscreen_make ELSE printscreen_break)
       ELSE (IF k \in Extended THEN <<\hE0>> ELSE <<>>)
              \o <<Code[k] + (IF make THEN 0 ELSE FLAG_BREAK)>>

(* What pressing k means to the one who presses it.                        *)
Top ==
  [lshift |-> "SHIFT_L", rshift |-> "SHIFT_R", lctrl |-> "CTRL_L", rctrl |-> "CTRL_R",
   lalt |-> "ALT_L", ralt |-> "ALT_R", caps |-> "CAPS_LOCK", num |-> "NUM_LOCK", up |-> "UP",
   down |-> "DOWN", f1 |-> "F1", f2 |-> "F2", enter |-> "ENTER", backspace |-> "BACKSPACE"]

Meaning(k) ==
  LET shifted == {"lshift", "rshift"} \cap held # {}
      flags == {Top[m] : m \in {"lshift", "rshift", "lctrl", "rctrl"} \cap (held \cup {k})}
      alt == IF k \in {"lalt", "ralt"} \/ altOn THEN {"ALT"} ELSE {}
      key == CASE k = "a"     -> IF shifted # ("caps" \in locks) THEN "A" ELSE "a"
               [] k = "slash" -> IF shifted THEN "?" ELSE "/"
               [] k = "pad8"  -> IF shifted \/ "num" \in locks THEN "8" ELSE "UP"
               [] OTHER       -> Top[k]
  IN [key |-> key, flags |-> flags \cup alt]

Toggle(S, e) == IF e \in S THEN S \ {e} ELSE S \cup {e}

(* Pause and Print Screen are swallowed by keyboard_read().                *)
Press(k) ==
  /\ line = <<>> /\ k \notin held
  /\ line' = Codes(k, TRUE)
  /\ held' = held \cup {k}
  /\ altOn' = (altOn \/ k \in {"lalt", "ralt"})
  /\ locks' = IF k \in {"caps", "num"} THEN Toggle(locks, k) ELSE locks
  /\ typed' = IF dropped \/ k \in {"pause", "printscreen"} THEN typed ELSE Append(typed, Meaning(k))
  /\ UNCHANGED <<kb_in, key_pressed, got, mods, dropped>>

Release(k) ==
  /\ line = <<>> /\ k \in held
  /\ line' = Codes(k, FALSE)
  /\ held' = held \ {k}
  /\ altOn' = (altOn /\ k \notin {"lalt", "ralt"})
  /\ UNCHANGED <<locks, kb_in, key_pressed, got, mods, typed, dropped>>

-----------------------------------------------------------------------------
(* The interrupt handler: with kb_in full the byte is lost.                *)

keyboard_handler ==
  /\ line # <<>> /\ line' = Tail(line)
  /\ key_pressed' = 1
  /\ IF Len(kb_in) < KB_IN_BYTES
     THEN kb_in' = Append(kb_in, Head(line)) /\ UNCHANGED <<typed, dropped>>
     ELSE dropped' = TRUE /\ typed' = <<>> /\ UNCHANGED kb_in
  /\ UNCHANGED <<held, altOn, locks, got, mods>>

-----------------------------------------------------------------------------
(* keyboard_read().                                                        *)

(* get_byte_from_kbuf() spins until there is a byte.                       *)
get_byte_from_kbuf ==
  /\ kb_in # <<>>
  /\ got' = Append(got, Head(kb_in)) /\ kb_in' = Tail(kb_in)
  /\ UNCHANGED <<held, altOn, locks, line, key_pressed, mods, typed, dropped>>

(* Mutant: only the first half of a Print Screen would be told apart.      *)
FirstHalves == {pausebrk_scode} \cup {SubSeq(s, 1, 2) : s \in {printscreen_make, printscreen_break}}

LongCodes == {pausebrk_scode, printscreen_make, printscreen_break}

(* The sequences of more than two bytes; keyboard_read() takes bytes as    *)
(* long as they are the beginning of one of them.                          *)
More == \E s \in LongCodes : IsStrictPrefix(got, s)
Swallowed == got \in LongCodes

scan_code == IF got[1] = \hE0 THEN got[2] ELSE got[1]
Make == scan_code < FLAG_BREAK

(* Rows of keymap[]: without Shift, with Shift, behind 0xE0.               *)
keymap(c) ==
  CASE c = \h1E -> <<"a", "A", "0">>             [] c = \h35 -> <<"/", "?", "PAD_SLASH">>
    [] c = \h1C -> <<"ENTER", "ENTER", "PAD_ENTER">>
    [] c = \h0E -> <<"BACKSPACE", "BACKSPACE", "0">>
    [] c = \h2A -> <<"SHIFT_L", "SHIFT_L", "0">> [] c = \h36 -> <<"SHIFT_R", "SHIFT_R", "0">>
    [] c = \h1D -> <<"CTRL_L", "CTRL_L", "CTRL_R">>
    [] c = \h38 -> <<"ALT_L", "ALT_L", "ALT_R">> [] c = \h3A -> <<"CAPS_LOCK", "CAPS_LOCK", "0">>
    [] c = \h45 -> <<"NUM_LOCK", "NUM_LOCK", "0">>
    [] c = \h37 -> <<"*", "*", "0">>             [] c = \h3B -> <<"F1", "F1", "0">>
    [] c = \h3C -> <<"F2", "F2", "0">>           [] c = \h48 -> <<"PAD_UP", "8", "UP">>
    [] c = \h50 -> <<"PAD_DOWN", "2", "DOWN">>   [] OTHER -> <<"0", "0", "0">>

keyrow == keymap(scan_code % FLAG_BREAK)

column ==
  IF got[1] = \hE0 THEN 3
  ELSE IF ({"SHIFT_L", "SHIFT_R"} \cap mods # {}) # ("CAPS_LOCK" \in mods /\ keyrow[1] = "a")
       THEN 2 ELSE 1

Mapped == keyrow[column]
IsLock(k) == k \in {"CAPS_LOCK", "NUM_LOCK"}

(* Both Alt keys set alt_l.                                                *)
NewMods ==
  LET m == IF Mapped \in {"ALT_L", "ALT_R"} THEN "ALT" ELSE Mapped IN
  CASE m \in {"SHIFT_L", "SHIFT_R", "CTRL_L", "CTRL_R", "ALT"} ->
         IF Make THEN mods \cup {m} ELSE mods \ {m}
    [] IsLock(m) /\ Make -> Toggle(mods, m)
    [] OTHER -> mods

(* The number pad.                                                         *)
Padded ==
  CASE Mapped = "PAD_SLASH" -> "/"
    [] Mapped = "PAD_ENTER" -> "ENTER"
    [] Mapped = "PAD_UP"    -> IF "NUM_LOCK" \in mods THEN "8" ELSE "UP"
    [] Mapped = "PAD_DOWN"  -> IF "NUM_LOCK" \in mods THEN "2" ELSE "DOWN"
    [] OTHER -> Mapped

(* The key that in_process() is called with, if it is called.              *)
Delivers == ~Swallowed /\ Make
Delivered == [key |-> Padded, flags |-> NewMods \ {"CAPS_LOCK", "NUM_LOCK"}]

(* set_leds(): the keyboard acknowledges each of the two bytes; kb_ack()   *)
(* reads the data port once, so an acknowledgement that comes later is     *)
(* taken for a scan code by the handler.                                   *)
KB_ACK == \hFA
Acks(n) == [i \in 1..n |-> KB_ACK]

keyboard_read ==
  /\ got' = <<>>
  /\ mods' = IF Swallowed THEN mods ELSE NewMods
  /\ typed' = IF Delivers /\ typed # <<>> THEN Tail(typed) ELSE typed
  /\ IF ~Swallowed /\ IsLock(Mapped) /\ Make
     THEN \E n \in 0..2 : line' = line \o Acks(n)
     ELSE UNCHANGED line
  /\ UNCHANGED <<held, altOn, locks, kb_in, key_pressed, dropped>>

-----------------------------------------------------------------------------
KbInit ==
  /\ held = {} /\ altOn = FALSE /\ locks = {"num"} /\ line = <<>>
  /\ kb_in = <<>> /\ key_pressed = 0 /\ got = <<>> /\ mods = {"NUM_LOCK"}
  /\ typed = <<>> /\ dropped = FALSE

(* Property of a step of TASK_TTY that gives a key to in_process(): keys   *)
(* arrive in the order in which they were pressed, each with the meaning   *)
(* it had then, however late they are read and whatever codes of releases, *)
(* locks and swallowed keys lie between them.                              *)
NextIsTyped == ~dropped /\ Delivers => typed # <<>> /\ Delivered = Head(typed)
=============================================================================
