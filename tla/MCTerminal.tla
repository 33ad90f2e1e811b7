----------------------------- MODULE MCTerminal -----------------------------
(* Two consoles of three lines and a half each, two lines on the screen; a *)
(* ring of three bytes, less than the codes of Pause or Print Screen.      *)
EXTENDS Terminal

Scenario(k, w, r, p) == [keys |-> k, writes |-> w, reads |-> r, printx |-> p]

(* What is done together: characters and Shift; long codes; both Alts; the *)
(* locks; consoles that are switched; a line that is edited; a screen that *)
(* is scrolled under a writer; printx() against a writer.                  *)
MCScenarios ==
  {Scenario({"a", "lshift"}, {}, {}, FALSE),
   Scenario({"rshift", "slash"}, {}, {}, FALSE),
   Scenario({"a", "printscreen", "pause"}, {}, {}, FALSE),
   Scenario({"lalt", "ralt", "slash"}, {}, {}, FALSE),
   Scenario({"a", "caps"}, {}, {}, FALSE),
   Scenario({"pad8", "num"}, {}, {}, FALSE),
   Scenario({"lctrl", "f2", "f1"}, {}, {}, FALSE),
   Scenario({"rctrl", "f2"}, {}, {}, TRUE),
   Scenario({"a", "backspace"}, {}, {0}, FALSE),
   Scenario({"enter"}, {}, {0}, FALSE),
   Scenario({"lalt", "up", "down"}, {}, {}, FALSE),
   Scenario({"lalt", "up"}, {0}, {}, FALSE),
   Scenario({}, {0, 1}, {}, TRUE)}
=============================================================================
