----------------------------- MODULE MCHotkeys ------------------------------
(* Hotkeys for TLC: the key codes of a Mac keyboard, and the two windows in  *)
(* units of 200 ms.                                                          *)
EXTENDS Hotkeys

MCKeys == {"Escape", "Q", "C", "Five"}
MCCombinations == {{}, {"control"}, {"control", "alt_option"}, {"meta_command", "alt_option"},
                   {"control", "alt_option", "shift"}}
MacCode == [k \in MCKeys |-> CASE k = "Escape" -> 53 [] k = "Q" -> 12
                               [] k = "C" -> 8 [] k = "Five" -> 23]
=============================================================================
