--------------------------- MODULE HotkeysProofs ----------------------------
(***************************************************************************)
(* For every keyboard, every keycode table and every pair of windows, the  *)
(* two short lists of HotkeyState report what the whole history of presses *)
(* calls for.                                                              *)
(***************************************************************************)
EXTENDS Hotkeys, FiniteSetTheorems, TLAPS

\* The typing of everything but the lengths of the lists, which are finite.
Typed ==
    /\ now \in Nat /\ presses \in Nat
    /\ last_esc_presses \subseteq [n : Nat, at : Nat]
    /\ last_ctrl_c_presses \subseteq [n : Nat, at : Nat]
    /\ escapes \subseteq [n : Nat, at : Nat] /\ ctrl_cs \subseteq [n : Nat, at : Nat]
    /\ action \in Actions
    /\ IsFiniteSet(last_esc_presses) /\ IsFiniteSet(last_ctrl_c_presses)

\* A push makes a finite set of presses, and if it is kept it is a short one.
LEMMA KeptIsShort ==
    ASSUME Typed, NEW list \in SUBSET [n : Nat, at : Nat], IsFiniteSet(list),
           NEW window \in Nat, NEW times \in {2, 3}
    PROVE  /\ Kept(list, window, times) \subseteq [n : Nat, at : Nat]
           /\ IsFiniteSet(Kept(list, window, times))
           /\ Cardinality(Kept(list, window, times)) <= times - 1
<1>1. IsFiniteSet(Recent(list, window)) /\ Recent(list, window) \subseteq list
  <2>1. Recent(list, window) \subseteq list
    BY DEF Recent
  <2> QED
    BY <2>1, FS_Subset
<1>2. IsFiniteSet(Push(list, window))
  BY <1>1, FS_AddElement DEF Push
<1>3. Cardinality(Push(list, window)) \in Nat
  BY <1>2, FS_CardinalityType
<1>4. ThisPress \in [n : Nat, at : Nat]
  BY DEF ThisPress, Typed
<1>5. IsFiniteSet({}) /\ Cardinality({}) = 0
  BY FS_EmptySet
<1> QED
  BY <1>1, <1>2, <1>3, <1>4, <1>5 DEF Kept, Again, Push

\* The lists and the histories behind them.
HotkeysInv == Typed /\ ListsStayShort /\ ListsRemember

\* A list that is a recent part of its history counts the same presses.
LEMMA SameRecent ==
    ASSUME NEW list, NEW log, NEW window,
           Recent(log, window) \subseteq list, list \subseteq log
    PROVE  Recent(list, window) = Recent(log, window)
BY DEF Recent

\* A counted press keeps the relation between a list and its history.
LEMMA PressKeepsMemory ==
    ASSUME NEW list, NEW log, NEW window, NEW times,
           Recent(log, window) \subseteq list, list \subseteq log
    PROVE  LET l == Kept(list, window, times)
               h == Logged(log, Again(list, window, times))
           IN  Recent(h, window) \subseteq l /\ l \subseteq h
BY DEF Recent, Kept, Logged, Again, Push

\* As time passes the recent presses only become fewer.
LEMMA TimeForgets ==
    ASSUME NEW log \in SUBSET [n : Nat, at : Nat], NEW window \in Nat,
           now \in Nat, now' \in {now, now + 1}
    PROVE  {p \in log : now' - p.at < window} \subseteq Recent(log, window)
BY DEF Recent

LEMMA HotkeysStep == HotkeysInv /\ [Next]_vars => HotkeysInv'
<1> SUFFICES ASSUME HotkeysInv, [Next]_vars PROVE HotkeysInv'
  OBVIOUS
<1> USE HotkeysAssumption DEF HotkeysInv
<1>1. CASE UNCHANGED vars
  BY <1>1 DEF vars, Typed, ListsStayShort, ListsRemember, Recent
<1>2. CASE Tick
  <2>1. /\ now \in Nat /\ now' = now + 1
        /\ UNCHANGED <<last_esc_presses, last_ctrl_c_presses, escapes, ctrl_cs, presses, action>>
    BY <1>2 DEF Tick, Typed
  <2>2. /\ {p \in escapes : now' - p.at < EscWindow} \subseteq last_esc_presses
        /\ {p \in ctrl_cs : now' - p.at < CtrlCWindow} \subseteq last_ctrl_c_presses
    BY <2>1, TimeForgets DEF Typed, ListsRemember, HotkeysAssumption
  <2>3. ListsRemember'
    BY <2>1, <2>2 DEF ListsRemember, Recent
  <2> QED
    BY <2>1, <2>3 DEF Typed, ListsStayShort
<1>3. ASSUME NEW k \in Keys, NEW mods \in Combinations, KeyDown(k, mods)
      PROVE  HotkeysInv'
  <2>1. /\ now' = now /\ presses' \in Nat
        /\ ThisPress \in [n : Nat, at : Nat]
    BY <1>3 DEF KeyDown, Typed, ThisPress
  <2>2. CASE UNCHANGED <<last_esc_presses, last_ctrl_c_presses, escapes, ctrl_cs>>
             /\ action' \in Actions
    BY <2>1, <2>2 DEF Typed, ListsStayShort, ListsRemember, Recent
  <2>3. CASE PressEscape(k, mods)
    <3> DEFINE again == Again(last_esc_presses, EscWindow, 3)
    <3>1. /\ last_esc_presses' = Kept(last_esc_presses, EscWindow, 3)
          /\ escapes' = Logged(escapes, again) /\ action' \in Actions
          /\ UNCHANGED <<last_ctrl_c_presses, ctrl_cs>>
      BY <2>3 DEF PressEscape, Actions, Logged
    <3>2. /\ Recent(escapes', EscWindow) \subseteq last_esc_presses'
          /\ last_esc_presses' \subseteq escapes'
      BY <3>1, PressKeepsMemory DEF ListsRemember
    <3>3. ListsRemember'
      BY <2>1, <3>1, <3>2 DEF ListsRemember, Recent
    <3>4. /\ last_esc_presses' \subseteq [n : Nat, at : Nat]
          /\ IsFiniteSet(last_esc_presses') /\ Cardinality(last_esc_presses') <= 2
      BY <3>1, KeptIsShort DEF Typed, HotkeysAssumption
    <3>5. escapes' \subseteq [n : Nat, at : Nat]
      BY <2>1, <3>1 DEF Logged, Typed
    <3> QED
      BY <2>1, <3>1, <3>3, <3>4, <3>5 DEF Typed, ListsStayShort
  <2>4. CASE PressCtrlC(k, mods)
    <3> DEFINE again == Again(last_ctrl_c_presses, CtrlCWindow, 2)
    <3>1. /\ last_ctrl_c_presses' = Kept(last_ctrl_c_presses, CtrlCWindow, 2)
          /\ ctrl_cs' = Logged(ctrl_cs, again) /\ action' \in Actions
          /\ UNCHANGED <<last_esc_presses, escapes>>
      BY <2>4 DEF PressCtrlC, Actions, Logged
    <3>2. /\ Recent(ctrl_cs', CtrlCWindow) \subseteq last_ctrl_c_presses'
          /\ last_ctrl_c_presses' \subseteq ctrl_cs'
      BY <3>1, PressKeepsMemory DEF ListsRemember
    <3>3. ListsRemember'
      BY <2>1, <3>1, <3>2 DEF ListsRemember, Recent
    <3>4. /\ last_ctrl_c_presses' \subseteq [n : Nat, at : Nat]
          /\ IsFiniteSet(last_ctrl_c_presses') /\ Cardinality(last_ctrl_c_presses') <= 1
      BY <3>1, KeptIsShort DEF Typed, HotkeysAssumption
    <3>5. ctrl_cs' \subseteq [n : Nat, at : Nat]
      BY <2>1, <3>1 DEF Logged, Typed
    <3> QED
      BY <2>1, <3>1, <3>3, <3>4, <3>5 DEF Typed, ListsStayShort
  <2> QED
    BY <1>3, <2>2, <2>3, <2>4 DEF KeyDown, PressExit, PressBreakout, PressOther, Actions
<1> QED
  BY <1>1, <1>2, <1>3 DEF Next

LEMMA HotkeysInvariant == Spec => []HotkeysInv
<1>1. Init => HotkeysInv
  BY FS_EmptySet
  DEF Init, HotkeysInv, Typed, ListsStayShort, ListsRemember, Recent, Actions
<1> QED
  BY <1>1, HotkeysStep, PTL DEF Spec

\* The types, and at most two remembered Escapes and one remembered Ctrl+C.
THEOREM HotkeysTyped == Spec => []TypeOK
<1>1. HotkeysInv => TypeOK
  BY DEF HotkeysInv, Typed, TypeOK
<1> QED
  BY <1>1, HotkeysInvariant, PTL

\* Each list lies between the recent presses and the presses since the report.
THEOREM ListsRememberAll == Spec => []ListsRemember
<1>1. HotkeysInv => ListsRemember
  BY DEF HotkeysInv
<1> QED
  BY <1>1, HotkeysInvariant, PTL

\* check reports a hotkey exactly when the history of presses calls for it.
THEOREM CheckReportsTheHistory == Spec => CheckIsExact
<1> DEFINE Exact == \A k \in Keys, mods \in Combinations :
                       KeyDown(k, mods) => action' = Expected(k, mods)
<1>1. ASSUME ListsRemember, NEW k \in Keys, NEW mods \in Combinations, KeyDown(k, mods)
      PROVE  action' = Expected(k, mods)
  <2>1. /\ Push(last_esc_presses, EscWindow) = Recent(escapes, EscWindow) \cup {ThisPress}
        /\ Push(last_ctrl_c_presses, CtrlCWindow)
              = Recent(ctrl_cs, CtrlCWindow) \cup {ThisPress}
    BY <1>1, SameRecent DEF ListsRemember, Push
  <2>2. ~(is_c(k) /\ is_esc(k)) /\ ~(is_q(k) /\ is_esc(k)) /\ ~(is_x(k) /\ is_esc(k))
    BY DEF is_c, is_esc, is_q, is_x
  <2>3. CASE PressExit(k, mods)
    BY <2>3 DEF PressExit, Expected
  <2>4. CASE PressCtrlC(k, mods)
    BY <2>1, <2>2, <2>4 DEF PressCtrlC, Expected, CtrlC, Again, BreakoutChord
  <2>5. CASE PressBreakout(k, mods)
    BY <2>2, <2>5 DEF PressBreakout, Expected, BreakoutChord, ExitChord, CtrlC
  <2>6. CASE PressEscape(k, mods)
    BY <2>1, <2>2, <2>6 DEF PressEscape, Expected, CtrlC, Again
  <2>7. CASE PressOther(k, mods)
    BY <2>7 DEF PressOther, Expected, BreakoutChord
  <2> QED
    BY <1>1, <2>3, <2>4, <2>5, <2>6, <2>7 DEF KeyDown
<1>2. ListsRemember /\ [Next]_vars => [Exact]_vars
  BY <1>1
<1> QED
  BY <1>2, ListsRememberAll, PTL DEF Spec, CheckIsExact
=============================================================================
