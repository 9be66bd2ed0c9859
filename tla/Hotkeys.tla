------------------------------- MODULE Hotkeys -------------------------------
(***************************************************************************)
(* The hotkey detector of kvm-daemon/src/main.rs: HotkeyState::check, the  *)
(* first thing the input hook does with every event.                       *)
(*                                                                         *)
(* check compares the keycode of a key press with numbers that stand for   *)
(* Escape, Q, C and X on macOS or on Windows, whatever the platform it     *)
(* runs on, and keeps the instants of the recent presses of Escape and of  *)
(* Ctrl+C in two lists.  A list only has elements added, dropped by age    *)
(* and counted, so it is a set of numbered presses here.  Time is counted  *)
(* in the units of the two windows and passes between key presses.         *)
(***************************************************************************)
EXTENDS Naturals, FiniteSets

CONSTANTS
    Keys,          \* the physical keys of the keyboard
    Combinations,  \* the sets of modifiers that may be down
    Code,          \* [Keys -> Nat], the keycode the platform's hook reports
    EscWindow,     \* 800 ms
    CtrlCWindow,   \* 600 ms
    MaxTime,       \* bound on the time, for TLC
    MaxPresses     \* bound on the key presses, for TLC

ASSUME HotkeysAssumption ==
    /\ Code \in [Keys -> Nat]
    /\ Combinations \subseteq SUBSET {"control", "alt_option", "shift", "meta_command"}
    /\ EscWindow \in Nat /\ CtrlCWindow \in Nat

Actions == {"None", "EmergencyBreakout", "ExitApplication"}

\* macOS key codes and Windows virtual-key codes are tried on both platforms.
is_esc(key) == Code[key] \in {53, 27}
is_q(key)   == Code[key] \in {12, 81}
is_c(key)   == Code[key] \in {8, 67}
is_x(key)   == Code[key] \in {7, 88}

VARIABLES
    now,                  \* the time
    presses,              \* the number of key presses so far
    last_esc_presses,     \* sets of [n, at]: the n-th key press, at time "at"
    last_ctrl_c_presses,
    action,               \* what check returned for the last key press
    escapes, ctrl_cs      \* history: all presses that counted since the last report

vars == <<now, presses, last_esc_presses, last_ctrl_c_presses, action, escapes, ctrl_cs>>

\* The combinations that are recognised at once.
ExitChord(k, mods) ==
    \/ {"control", "alt_option"} \subseteq mods /\ (is_q(k) \/ is_c(k) \/ is_x(k))
    \/ {"control", "alt_option"} \subseteq mods /\ "shift" \notin mods /\ is_esc(k)
    \/ {"meta_command", "alt_option"} \subseteq mods /\ is_q(k)
BreakoutChord(k, mods) ==
    {"control", "alt_option", "shift"} \subseteq mods /\ is_esc(k)

\* The presses that are less than the window old.
Recent(list, window) == {p \in list : now - p.at < window}

ThisPress == [n |-> presses, at |-> now]

\* A press that counts towards a repetition: old presses are dropped, this
\* one is added, and at the given number the list starts again.
Push(list, window) == Recent(list, window) \cup {ThisPress}
Again(list, window, times) == Cardinality(Push(list, window)) >= times
Kept(list, window, times) ==
    IF Again(list, window, times) THEN {} ELSE Push(list, window)

\* The history: every press that counted since the repetition was last reported.
Logged(log, reported) == IF reported THEN {} ELSE log \cup {ThisPress}

CtrlC(k, mods) == "control" \in mods /\ is_c(k)

\* An exit combination returns before either list is looked at.
PressExit(k, mods) ==
    /\ ExitChord(k, mods)
    /\ action' = "ExitApplication"
    /\ UNCHANGED <<last_esc_presses, last_ctrl_c_presses, escapes, ctrl_cs>>

\* No keycode is both C and Escape: nothing that follows in check concerns C.
PressCtrlC(k, mods) ==
    /\ ~ExitChord(k, mods) /\ CtrlC(k, mods)
    /\ action' = IF Again(last_ctrl_c_presses, CtrlCWindow, 2)
                    THEN "ExitApplication" ELSE "None"
    /\ last_ctrl_c_presses' = Kept(last_ctrl_c_presses, CtrlCWindow, 2)
    /\ ctrl_cs' = Logged(ctrl_cs, action' = "ExitApplication")
    /\ UNCHANGED <<last_esc_presses, escapes>>

PressBreakout(k, mods) ==
    /\ BreakoutChord(k, mods)
    /\ action' = "EmergencyBreakout"
    /\ UNCHANGED <<last_esc_presses, last_ctrl_c_presses, escapes, ctrl_cs>>

\* Variant: old presses are never dropped.
PressEscapeNoRetain(k, mods) ==
    /\ ~ExitChord(k, mods) /\ ~BreakoutChord(k, mods) /\ is_esc(k)
    /\ LET list == last_esc_presses \cup {ThisPress} IN
          /\ action' = IF Cardinality(list) >= 3 THEN "EmergencyBreakout" ELSE "None"
          /\ last_esc_presses' = IF Cardinality(list) >= 3 THEN {} ELSE list
    /\ escapes' = Logged(escapes, action' = "EmergencyBreakout")
    /\ UNCHANGED <<last_ctrl_c_presses, ctrl_cs>>

\* Variant: the list is not cleared when the third press is reported.
PressEscapeNoClear(k, mods) ==
    /\ ~ExitChord(k, mods) /\ ~BreakoutChord(k, mods) /\ is_esc(k)
    /\ action' = IF Again(last_esc_presses, EscWindow, 3)
                    THEN "EmergencyBreakout" ELSE "None"
    /\ last_esc_presses' = Push(last_esc_presses, EscWindow)
    /\ escapes' = Logged(escapes, action' = "EmergencyBreakout")
    /\ UNCHANGED <<last_ctrl_c_presses, ctrl_cs>>

PressEscape(k, mods) ==
    /\ ~ExitChord(k, mods) /\ ~BreakoutChord(k, mods) /\ is_esc(k)
    /\ action' = IF Again(last_esc_presses, EscWindow, 3)
                    THEN "EmergencyBreakout" ELSE "None"
    /\ last_esc_presses' = Kept(last_esc_presses, EscWindow, 3)
    /\ escapes' = Logged(escapes, action' = "EmergencyBreakout")
    /\ UNCHANGED <<last_ctrl_c_presses, ctrl_cs>>

PressOther(k, mods) ==
    /\ ~ExitChord(k, mods) /\ ~CtrlC(k, mods) /\ ~is_esc(k)
    /\ action' = "None"
    /\ UNCHANGED <<last_esc_presses, last_ctrl_c_presses, escapes, ctrl_cs>>

\* check(KeyDown); it ignores every other event.
KeyDown(k, mods) ==
    /\ presses < MaxPresses
    /\ presses' = presses + 1
    /\ \/ PressExit(k, mods)
       \/ PressCtrlC(k, mods)
       \/ PressBreakout(k, mods)
       \/ PressEscape(k, mods)
       \/ PressOther(k, mods)
    /\ UNCHANGED now

Tick ==
    /\ now < MaxTime
    /\ now' = now + 1
    /\ UNCHANGED <<presses, last_esc_presses, last_ctrl_c_presses, action, escapes, ctrl_cs>>

Init ==
    /\ now = 0 /\ presses = 0
    /\ last_esc_presses = {} /\ last_ctrl_c_presses = {}
    /\ action = "None"
    /\ escapes = {} /\ ctrl_cs = {}

Next ==
    \/ Tick
    \/ \E k \in Keys, mods \in Combinations : KeyDown(k, mods)

Spec == Init /\ [][Next]_vars

-----------------------------------------------------------------------------
(* Properties.                                                              *)

\* The lists do not grow with the presses: what is not reported is dropped.
ListsStayShort ==
    /\ Cardinality(last_esc_presses) <= 2
    /\ Cardinality(last_ctrl_c_presses) <= 1

\* Every variable has its type, and the lists their few elements.
TypeOK ==
    /\ now \in Nat /\ presses \in Nat
    /\ last_esc_presses \subseteq [n : Nat, at : Nat]
    /\ last_ctrl_c_presses \subseteq [n : Nat, at : Nat]
    /\ escapes \subseteq [n : Nat, at : Nat] /\ ctrl_cs \subseteq [n : Nat, at : Nat]
    /\ action \in Actions
    /\ ListsStayShort

\* A list has forgotten nothing that can still count, nor kept anything that
\* was already used in a report.
ListsRemember ==
    /\ Recent(escapes, EscWindow) \subseteq last_esc_presses
    /\ last_esc_presses \subseteq escapes
    /\ Recent(ctrl_cs, CtrlCWindow) \subseteq last_ctrl_c_presses
    /\ last_ctrl_c_presses \subseteq ctrl_cs

\* What check should return: the exit combinations and a second Ctrl+C within
\* its window exit; the breakout combination and a third Escape within its
\* window break out.  Presses used in one report do not count for the next.
Expected(k, mods) ==
    LET exit == \/ ExitChord(k, mods)
                \/ /\ CtrlC(k, mods)
                   /\ Cardinality(Recent(ctrl_cs, CtrlCWindow) \cup {ThisPress}) >= 2
        breakout == \/ BreakoutChord(k, mods)
                    \/ /\ is_esc(k)
                       /\ Cardinality(Recent(escapes, EscWindow) \cup {ThisPress}) >= 3
    IN  IF exit THEN "ExitApplication"
        ELSE IF breakout THEN "EmergencyBreakout"
        ELSE "None"

\* The two short lists are enough: check reports exactly what the whole history
\* of presses calls for, however the presses and the windows fall.
CheckIsExact ==
    [][\A k \in Keys, mods \in Combinations :
          KeyDown(k, mods) => action' = Expected(k, mods)]_vars
=============================================================================
