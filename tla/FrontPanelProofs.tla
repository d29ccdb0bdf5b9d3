-------------------------- MODULE FrontPanelProofs --------------------------
(***************************************************************************)
(* Proofs about FrontPanel for every number of switches and presses: the   *)
(* types, and that nothing pressed in one mode acts in the other.          *)
(*                                                                         *)
(* FreshStart speaks of the loops only.  What makes it inductive is that   *)
(* the walk of switch_clear_all leaves no old flag behind it (ClearedUpTo) *)
(* and that the switch a loop asks for tells which loop it is (Loops).     *)
(***************************************************************************)
EXTENDS FrontPanel, TLAPS

ClearedUpTo ==
    /\ at # "clear_all" => old = {}
    /\ at = "clear_all" => \A s \in old : s >= sw

Loops ==
    /\ InLoop => /\ timer <=> mode = "running"
                 /\ sw = STOP <=> mode = "running"
    /\ at = "cycles" => sw = STOP
    /\ at \in {"dispatch", "clear_all"} => ~timer

IInv == PanelOK /\ ClearedUpTo /\ Loops

(* The switch that handle_stopped asks for next is one of its own.         *)
LEMMA FollowingType ==
    ASSUME NEW s \in Switches
    PROVE  Following(s) \in Switches \ {STOP}
<1>1. PICK n \in Nat : n = NumSwitches /\ n >= 4
  BY FrontPanelAssumption
<1>2. s \in 0 .. n - 1 /\ Switches = 0 .. n - 1
  BY <1>1 DEF Switches
<1>3. CASE s \in {RUN, RESET}
  BY <1>1, <1>2, <1>3 DEF Following, STOP, RUN, STEP, RESET
<1>4. CASE s = STEP
  BY <1>1, <1>2, <1>4 DEF Following, STOP, RUN, STEP, RESET
<1>5. CASE s \notin {RUN, STEP, RESET}
  <2>1. Following(s) = IF s + 1 < n THEN s + 1 ELSE RUN
    BY <1>1, <1>5 DEF Following
  <2> QED  BY <1>1, <1>2, <2>1 DEF STOP, RUN
<1> QED  BY <1>3, <1>4, <1>5

LEMMA SwitchesType ==
    /\ STOP \in Switches /\ RUN \in Switches /\ RUN # STOP
    /\ \A s \in Switches : s \in 0 .. NumSwitches
    /\ 0 \in 0 .. NumSwitches /\ 0 \in 0 .. MaxPresses
  BY FrontPanelAssumption DEF Switches, STOP, RUN

LEMMA InitIInv == Init => IInv
<1> SUFFICES ASSUME Init PROVE IInv
  OBVIOUS
<1>1. PanelOK
  BY SwitchesType DEF Init, PanelOK, Steps
<1>2. ClearedUpTo /\ Loops
  BY DEF Init, ClearedUpTo, Loops, InLoop
<1> QED  BY <1>1, <1>2 DEF IInv

-----------------------------------------------------------------------------
(* A tick: the panel does not change.                                      *)
LEMMA TickStep ==
    ASSUME IInv, Tick
    PROVE  IInv'
<1>1. PanelOK'
  BY DEF IInv, PanelOK, Steps, Tick
<1>2. (ClearedUpTo /\ Loops)'
  BY DEF IInv, ClearedUpTo, Loops, InLoop, Tick
<1> QED  BY <1>1, <1>2 DEF IInv

(* A press: the flags are typed and nothing else changes.                  *)
LEMMA PressStep ==
    ASSUME IInv, NEW s \in Switches, Press(s)
    PROVE  IInv'
<1>1. PanelOK'
  <2>1. presses' \in 0 .. MaxPresses
    BY FrontPanelAssumption DEF IInv, PanelOK, Press
  <2> QED  BY <2>1 DEF IInv, PanelOK, Press
<1>2. (ClearedUpTo /\ Loops)'
  BY DEF IInv, ClearedUpTo, Loops, InLoop, Press
<1> QED  BY <1>1, <1>2 DEF IInv

(* The two loops, up to the point where one is left.                       *)
LEMMA LoopStep ==
    ASSUME IInv,
           EnterRunSim \/ EnterStopped \/ TimerFires \/ TimerWaits \/ ReadFlag
             \/ KeepRunning
             \/ CallBootloader
    PROVE  IInv'
<1>1. PanelOK'
  BY SwitchesType
     DEF IInv, PanelOK, Steps, EnterRunSim, EnterStopped, TimerFires,
         TimerWaits, ReadFlag,
         KeepRunning, CallBootloader
<1>2. (ClearedUpTo /\ Loops)'
  BY SwitchesType
     DEF IInv, ClearedUpTo, Loops, InLoop, EnterRunSim, EnterStopped, TimerFires,
         TimerWaits, ReadFlag, KeepRunning, CallBootloader
<1> QED  BY <1>1, <1>2 DEF IInv

LEMMA ClearFlagStep ==
    ASSUME IInv, ClearFlag
    PROVE  IInv'
<1>1. PanelOK'
  BY DEF IInv, PanelOK, Steps, ClearFlag
<1>2. (ClearedUpTo /\ Loops)'
  BY DEF IInv, ClearedUpTo, Loops, InLoop, ClearFlag
<1> QED  BY <1>1, <1>2 DEF IInv

LEMMA AskNextStep ==
    ASSUME IInv, ReadConfiguration \/ OtherSwitch
    PROVE  IInv'
<1>1. sw \in Switches /\ at = "act" /\ sw # STOP
  BY SwitchesType DEF IInv, PanelOK, ReadConfiguration, OtherSwitch, STOP, RESET
<1>2. Following(sw) \in Switches /\ Following(sw) # STOP
  BY <1>1, FollowingType
<1>3. /\ sw' = Following(sw) /\ at' = "read"
      /\ run_state' \in BOOLEAN
      /\ UNCHANGED <<has_been_pressed, mode, timer, result, presses, old>>
  BY DEF IInv, PanelOK, ReadConfiguration, OtherSwitch, AskNext
<1>4. PanelOK'
  BY <1>2, <1>3, SwitchesType DEF IInv, PanelOK, Steps
<1>5. (ClearedUpTo /\ Loops)'
  BY <1>1, <1>2, <1>3 DEF IInv, ClearedUpTo, Loops, InLoop
<1> QED  BY <1>4, <1>5 DEF IInv

(* A loop is left: every old flag is yet to be cleared.                    *)
LEMMA LeaveStep ==
    ASSUME IInv, Stop \/ Run
    PROVE  IInv'
<1>1. /\ at' = "clear_all" /\ sw' = 0 /\ old' \subseteq Switches
      /\ UNCHANGED <<has_been_pressed, run_state, mode, result, presses>>
  BY DEF Stop, Run, LeaveLoop
<1>2. timer' = FALSE
  BY SwitchesType DEF IInv, PanelOK, Loops, InLoop, Stop, Run
<1>3. PanelOK'
  BY <1>1, <1>2, SwitchesType DEF IInv, PanelOK, Steps
<1>4. (ClearedUpTo /\ Loops)'
  BY <1>1, <1>2 DEF ClearedUpTo, Loops, InLoop, Switches
<1> QED  BY <1>3, <1>4 DEF IInv

(* The walk takes the flag it stands at from the old ones ...              *)
LEMMA ClearOneStep ==
    ASSUME IInv, ClearOne
    PROVE  IInv'
<1>1. sw \in Nat /\ sw < NumSwitches /\ old \subseteq Switches
  BY FrontPanelAssumption DEF IInv, PanelOK, ClearOne
<1>2. PanelOK'
  <2>1. sw' \in 0 .. NumSwitches
    BY <1>1, FrontPanelAssumption DEF ClearOne
  <2> QED  BY <2>1 DEF IInv, PanelOK, Steps, ClearOne
<1>3. \A s \in old' : s >= sw'
  <2> SUFFICES ASSUME NEW s \in old' PROVE s >= sw'
    OBVIOUS
  <2>1. s \in old /\ s # sw /\ sw' = sw + 1
    BY DEF ClearOne
  <2>2. s \in Int /\ s >= sw
    BY <1>1, <2>1 DEF IInv, ClearedUpTo, ClearOne, Switches
  <2> QED  BY <1>1, <2>1, <2>2
<1>4. (ClearedUpTo /\ Loops)'
  BY <1>3 DEF IInv, ClearedUpTo, Loops, InLoop, ClearOne
<1> QED  BY <1>2, <1>4 DEF IInv

(* ... and has left none when it is over.                                  *)
LEMMA ClearedAllStep ==
    ASSUME IInv, ClearedAll
    PROVE  IInv'
<1>1. old = {}
  BY FrontPanelAssumption DEF IInv, PanelOK, ClearedUpTo, ClearedAll, Switches
<1>2. PanelOK'
  BY SwitchesType DEF IInv, PanelOK, Steps, ClearedAll, Switches
<1>3. (ClearedUpTo /\ Loops)'
  BY <1>1 DEF IInv, ClearedUpTo, Loops, InLoop, ClearedAll
<1> QED  BY <1>2, <1>3 DEF IInv

LEMMA StutterStep ==
    ASSUME IInv, UNCHANGED vars
    PROVE  IInv'
  BY DEF IInv, PanelOK, ClearedUpTo, Loops, InLoop, vars

(* The inductive invariant holds in every reachable state.                 *)
THEOREM Invariance == Spec => []IInv
<1>1. IInv /\ [Next]_vars => IInv'
  <2> SUFFICES ASSUME IInv, [Next]_vars PROVE IInv'
    OBVIOUS
  <2>1. CASE \E s \in Switches : Press(s)
    BY <2>1, PressStep
  <2>2. CASE EnterRunSim \/ EnterStopped \/ TimerFires \/ TimerWaits \/ ReadFlag
             \/ KeepRunning
               \/ CallBootloader
    BY <2>2, LoopStep
  <2>3. CASE ClearFlag
    BY <2>3, ClearFlagStep
  <2>4. CASE ReadConfiguration \/ OtherSwitch
    BY <2>4, AskNextStep
  <2>5. CASE Stop \/ Run
    BY <2>5, LeaveStep
  <2>6. CASE ClearOne
    BY <2>6, ClearOneStep
  <2>7. CASE ClearedAll
    BY <2>7, ClearedAllStep
  <2>8. CASE Tick
    BY <2>8, TickStep
  <2>9. CASE UNCHANGED vars
    BY <2>9, StutterStep
  <2> QED  BY <2>1, <2>2, <2>3, <2>4, <2>5, <2>6, <2>7, <2>8, <2>9 DEF Next, Main
<1> QED  BY InitIInv, <1>1, PTL DEF Spec

(* The clock: every deadline is a tick that comes, and run_sim looks at it *)
(* in time.                                                                *)
LEMMA TicksType ==
    ASSUME NEW t \in Ticks, NEW d \in Nat
    PROVE  (t + d) % TickValues \in Ticks
<1>1. PICK n \in Nat : n = TickValues /\ n > 0
  BY FrontPanelAssumption
<1>2. (t + d) % n \in 0 .. n - 1
  BY <1>1 DEF Ticks
<1> QED  BY <1>1, <1>2 DEF Ticks

LEMMA ClockInvariance == Spec => []ClockOK
<1>0. 0 \in Ticks /\ 0 \in 0 .. LoopTicks /\ Period \in Nat
  BY FrontPanelAssumption DEF Ticks
<1>1. Init => ClockOK
  BY <1>0 DEF Init, ClockOK
<1>2. ClockOK /\ [Next]_vars => ClockOK'
  <2> SUFFICES ASSUME ClockOK, [Next]_vars PROVE ClockOK'
    OBVIOUS
  <2>1. Deadline \in Ticks /\ (tick + 1) % TickValues \in Ticks
    BY <1>0, TicksType DEF ClockOK, Deadline
  <2>2. CASE Tick
    <3>1. since' \in 0 .. LoopTicks
      BY <2>2, <1>0, FrontPanelAssumption DEF ClockOK, Tick
    <3> QED  BY <2>1, <2>2, <3>1 DEF ClockOK, Tick
  <2>3. CASE EnterRunSim
    BY <1>0, <2>1, <2>3 DEF ClockOK, EnterRunSim
  <2>4. CASE TimerFires \/ TimerWaits
    BY <1>0, <2>1, <2>4 DEF ClockOK, TimerFires, TimerWaits
  <2>5. CASE Stop \/ Run
    BY <1>0, <2>5 DEF ClockOK, Stop, Run, LeaveLoop
  <2>6. CASE UNCHANGED clock
    BY <2>6 DEF ClockOK, clock
  <2>7. UNCHANGED clock \/ Tick \/ EnterRunSim \/ TimerFires \/ TimerWaits
          \/ Stop \/ Run
    BY DEF Next, Main, vars, Press, EnterStopped, ReadFlag, ClearFlag,
       KeepRunning, CallBootloader, ReadConfiguration, OtherSwitch, AskNext,
       ClearOne, ClearedAll
  <2> QED  BY <2>2, <2>3, <2>4, <2>5, <2>6, <2>7
<1> QED  BY <1>1, <1>2, PTL DEF Spec

(* With any number of switches the loops only ask for switches that exist, *)
(* and the walk over their flags ends with the last of them.               *)
THEOREM TypeCorrect == Spec => []TypeOK
<1>1. IInv => PanelOK
  BY DEF IInv
<1> QED  BY Invariance, ClockInvariance, <1>1, PTL DEF TypeOK

(* Whatever acts in one mode was pressed after the loop of the other was   *)
(* left, however presses fall between the steps of switch_clear_all, and   *)
(* the real time clock ticks in run mode only (altair_main.c:102-104,      *)
(* 156-157).                                                               *)
THEOREM NothingActsLate == Spec => []FreshStart
<1>1. IInv => FreshStart
  BY DEF IInv, ClearedUpTo, Loops, InLoop, FreshStart
<1> QED  BY Invariance, <1>1, PTL
=============================================================================
