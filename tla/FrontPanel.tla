----------------------------- MODULE FrontPanel -----------------------------
(***************************************************************************)
(* The two modes of the machine (altair_main.c): run_sim executes          *)
(* instructions and looks at the STOP switch, handle_stopped looks at all  *)
(* the others.  The switch handler sets the flag of a switch that has been *)
(* pressed (module Switches shows that it does so once for each stroke);   *)
(* the loops take the flags with switch_was_pressed and drop them with     *)
(* switch_clear_all when the mode changes.  Nothing locks the flags.       *)
(*                                                                         *)
(* A handler runs to its end between two steps of the main loop, which is  *)
(* cut at every access to a flag.                                          *)
(*                                                                         *)
(* run_sim looks at STOP when its LED timer says so (timer.h), which       *)
(* compares ticks of 32 bits as numbers: here they wrap at TickValues.     *)
(***************************************************************************)
EXTENDS Integers

CONSTANTS
    NumSwitches,    \* SWITCH_NUM_SWITCHES, 8
    MaxPresses,     \* bound: presses in one behaviour
    TickValues,     \* ticks before the counter wraps, 2^32
    Period,         \* the period of the LED timer, 10
    LoopTicks       \* the most ticks that 1000 instructions take

ASSUME FrontPanelAssumption ==
    /\ NumSwitches \in Nat /\ NumSwitches >= 4
    /\ MaxPresses \in Nat
    /\ TickValues \in Nat /\ LoopTicks \in Nat /\ Period \in Nat
    /\ 0 < LoopTicks /\ LoopTicks < TickValues

Ticks == 0 .. TickValues - 1

(* The enumeration of switches.h; the operations from EXAMINE on change    *)
(* nothing here and are told apart by their number only.                   *)
Switches == 0 .. NumSwitches - 1
STOP  == 0
RUN   == 1
STEP  == 2
RESET == 3

VARIABLES
    has_been_pressed,   \* of each switch
    run_state,          \* cpu.run_state
    mode,               \* the loop that altair_main is in or has left last
    timer,              \* TIM1, the tick of the real time clock, is running
    tick,               \* HAL_GetTick
    led_timer,          \* the local of run_sim, 0 outside it
    since,              \* ticks since run_sim has looked at led_timer last
    at,                 \* the next step of the main loop
    sw,                 \* the switch it asks for, or is clearing next
    result,             \* the local of switch_was_pressed
    presses,            \* history: presses so far
    old                 \* history: flags that stood when a loop was left

clock == <<tick, led_timer, since>>

vars == <<has_been_pressed, run_state, mode, timer, clock, at, sw, result,
          presses, old>>

Steps == {"dispatch", "cycles", "read", "clear", "act", "clear_all",
          "bootloader"}

PanelOK ==
    /\ has_been_pressed \in [Switches -> BOOLEAN]
    /\ run_state \in BOOLEAN
    /\ mode \in {"running", "stopped"}
    /\ timer \in BOOLEAN
    /\ at \in Steps
    /\ sw \in 0 .. NumSwitches
    /\ at # "clear_all" => sw \in Switches
    /\ result \in BOOLEAN
    /\ presses \in 0 .. MaxPresses
    /\ old \subseteq Switches

ClockOK ==
    /\ tick \in Ticks /\ led_timer \in Ticks
    /\ since \in 0 .. LoopTicks

TypeOK == PanelOK /\ ClockOK

-----------------------------------------------------------------------------
(* The configuration has been read; it decides the mode to start in.       *)
Init ==
    /\ has_been_pressed = [s \in Switches |-> FALSE]
    /\ run_state \in BOOLEAN
    /\ mode = "stopped"
    /\ timer = FALSE
    /\ tick = 0 /\ led_timer = 0 /\ since = 0
    /\ at = "dispatch"
    /\ sw = STOP
    /\ result = FALSE
    /\ presses = 0
    /\ old = {}

(* HAL_GPIO_EXTI_Callback, for an edge that counts as a press.             *)
Press(s) ==
    /\ presses < MaxPresses
    /\ presses' = presses + 1
    /\ has_been_pressed' = [has_been_pressed EXCEPT ![s] = TRUE]
    /\ UNCHANGED <<run_state, mode, timer, clock, at, sw, result, old>>

(* One of the two loops is entered and not yet left.                       *)
InLoop == at \in {"cycles", "read", "clear", "act"}
InRunSim == InLoop /\ mode = "running"

(* SysTick.  Between two looks at the LED timer run_sim executes 1000      *)
(* instructions, which take no more than LoopTicks.                        *)
Tick ==
    /\ InRunSim => since < LoopTicks
    /\ tick' = (tick + 1) % TickValues
    /\ since' = IF InRunSim THEN since + 1 ELSE 0
    /\ UNCHANGED <<has_been_pressed, run_state, mode, timer, led_timer, at, sw,
                   result, presses, old>>

(* Mutant: the timer fires at its deadline only.                           *)
ExpiredOnTime == led_timer = tick

(* timer_periodic: whether it fires, and what it then sets.                *)
Expired == led_timer < tick
Deadline == (tick + Period) % TickValues

(* altair_main chooses the loop.                                           *)
EnterRunSim ==
    /\ at = "dispatch"
    /\ run_state
    /\ mode' = "running"
    /\ timer' = TRUE
    /\ led_timer' = IF 0 < tick THEN Deadline ELSE 0
    /\ at' = "cycles"
    /\ sw' = STOP
    /\ UNCHANGED <<has_been_pressed, run_state, tick, since, result, presses,
                   old>>

EnterStopped ==
    /\ at = "dispatch"
    /\ ~run_state
    /\ mode' = "stopped"
    /\ at' = "read"
    /\ sw' = RUN
    /\ UNCHANGED <<has_been_pressed, run_state, timer, clock, result, presses,
                   old>>

(* run_sim has executed 1000 instructions and looks at the LED timer.      *)
TimerFires ==
    /\ at = "cycles"
    /\ Expired
    /\ led_timer' = Deadline
    /\ since' = 0
    /\ at' = "read"
    /\ UNCHANGED <<has_been_pressed, run_state, mode, timer, tick, sw, result,
                   presses, old>>

TimerWaits ==
    /\ at = "cycles"
    /\ ~Expired
    /\ since' = 0
    /\ UNCHANGED <<has_been_pressed, run_state, mode, timer, tick, led_timer, at,
                   sw, result, presses, old>>

(* switch_was_pressed(sw).                                                 *)
ReadFlag ==
    /\ at = "read"
    /\ result' = has_been_pressed[sw]
    /\ at' = "clear"
    /\ UNCHANGED <<has_been_pressed, run_state, mode, timer, clock, sw, presses,
                   old>>

ClearFlag ==
    /\ at = "clear"
    /\ has_been_pressed' = [has_been_pressed EXCEPT ![sw] = FALSE]
    /\ old' = old \ {sw}
    /\ at' = "act"
    /\ UNCHANGED <<run_state, mode, timer, clock, sw, result, presses>>

(* A loop is left: from now on its flags are old.                          *)
LeaveLoop ==
    /\ old' = {s \in Switches : has_been_pressed[s]}
    /\ at' = "clear_all"
    /\ sw' = 0
    /\ led_timer' = 0 /\ since' = 0
    /\ UNCHANGED <<has_been_pressed, run_state, mode, tick, result, presses>>

Stop ==
    /\ at = "act" /\ sw = STOP /\ result
    /\ timer' = FALSE
    /\ LeaveLoop

KeepRunning ==
    /\ at = "act" /\ sw = STOP /\ ~result
    /\ at' = "cycles"
    /\ UNCHANGED <<has_been_pressed, run_state, mode, timer, clock, sw, result,
                   presses, old>>

Run ==
    /\ at = "act" /\ sw = RUN /\ result
    /\ LeaveLoop
    /\ UNCHANGED timer

(* Mutant: the last switch is never asked for.                             *)
FollowingShort(s) ==
    CASE s = RUN   -> RESET
      [] s = RESET -> STEP
      [] s = STEP  -> IF NumSwitches > 5 THEN RESET + 1 ELSE RUN
      [] OTHER     -> IF s + 1 < NumSwitches - 1 THEN s + 1 ELSE RUN

(* The order in which handle_stopped asks for the switches.                *)
Following(s) ==
    CASE s = RUN   -> RESET
      [] s = RESET -> STEP
      [] s = STEP  -> IF NumSwitches > 4 THEN RESET + 1 ELSE RUN
      [] OTHER     -> IF s + 1 < NumSwitches THEN s + 1 ELSE RUN

AskNext ==
    /\ at' = "read"
    /\ sw' = Following(sw)
    /\ UNCHANGED <<has_been_pressed, mode, timer, clock, result, presses, old>>

(* RESET with STOP held starts the boot loader, which does not come back.  *)
CallBootloader ==
    /\ at = "act" /\ sw = RESET /\ result
    /\ at' = "bootloader"
    /\ UNCHANGED <<has_been_pressed, run_state, mode, timer, clock, sw, result,
                   presses, old>>

(* RESET otherwise: config_read clears run_state; the file may set it.     *)
ReadConfiguration ==
    /\ at = "act" /\ sw = RESET /\ result
    /\ run_state' \in BOOLEAN
    /\ AskNext

(* Every other switch of handle_stopped, pressed or not.                   *)
OtherSwitch ==
    /\ at = "act" /\ sw # STOP
    /\ result => sw \notin {RUN, RESET}
    /\ AskNext
    /\ UNCHANGED run_state

(* Mutant: the walk begins after STOP.                                     *)
ClearAllButStop ==
    /\ at = "clear_all" /\ sw < NumSwitches
    /\ has_been_pressed' = [has_been_pressed EXCEPT ![sw] = @ /\ sw = STOP]
    /\ old' = IF sw = STOP THEN old ELSE old \ {sw}
    /\ sw' = sw + 1
    /\ UNCHANGED <<run_state, mode, timer, clock, at, result, presses>>

(* switch_clear_all, a switch at a time ...                                *)
ClearOne ==
    /\ at = "clear_all" /\ sw < NumSwitches
    /\ has_been_pressed' = [has_been_pressed EXCEPT ![sw] = FALSE]
    /\ old' = old \ {sw}
    /\ sw' = sw + 1
    /\ UNCHANGED <<run_state, mode, timer, clock, at, result, presses>>

(* ... and then the mode changes.                                          *)
ClearedAll ==
    /\ at = "clear_all" /\ sw = NumSwitches
    /\ run_state' = (mode = "stopped")
    /\ at' = "dispatch"
    /\ sw' = STOP
    /\ UNCHANGED <<has_been_pressed, mode, timer, clock, result, presses, old>>

Main == \/ EnterRunSim \/ EnterStopped \/ TimerFires \/ TimerWaits
        \/ ReadFlag \/ ClearFlag \/ Stop \/ KeepRunning \/ Run
        \/ CallBootloader \/ ReadConfiguration \/ OtherSwitch
        \/ ClearOne \/ ClearedAll

Next == Main \/ Tick \/ \E s \in Switches : Press(s)

Spec == Init /\ [][Next]_vars

(* The main loop and the tick always go on; nobody has to press anything.  *)
FairSpec == Spec /\ WF_vars(Main) /\ WF_vars(Tick)

-----------------------------------------------------------------------------
(* Whatever acts in a mode was pressed after the other mode's loop had     *)
(* been left (the comment at switches.c:99-100 and README.md:26), although *)
(* presses arrive while the flags are being cleared; and the real time     *)
(* clock ticks in run mode only.                                           *)
FreshStart ==
    InLoop => /\ \A s \in old : ~has_been_pressed[s]
              /\ timer <=> mode = "running"

(* A deadline so close to the wrap that the ticks beyond it, if there are  *)
(* any, may all pass between two looks at the timer.                       *)
NearWrap == led_timer >= TickValues - LoopTicks

(* A STOP pressed while instructions are executed stops the machine, with  *)
(* a period that spans the wrap of the tick too (timer.h:18 then fires     *)
(* early), unless the deadline falls among the last ticks before it.       *)
StopStops ==
    at = "cycles" /\ has_been_pressed[STOP] ~> mode = "stopped" \/ NearWrap

(* A switch pressed in stopped mode before a round of handle_stopped       *)
(* begins has its effect, unless RUN or the boot loader ends the mode.     *)
PressActs ==
    \A s \in Switches \ {STOP} :
        at = "read" /\ sw = RUN /\ has_been_pressed[s]
          ~> \/ at = "act" /\ sw = s /\ result
             \/ at \in {"clear_all", "bootloader"}

-----------------------------------------------------------------------------
(* What altair_main.c:57-58 says of run_sim, "occasional updates of the    *)
(* LEDs and check for stop switch presses": STOP always stops.  When       *)
(* led_timer is the last tick there is, no tick is later.                  *)
StopAlwaysStops ==
    at = "cycles" /\ has_been_pressed[STOP] ~> mode = "stopped"
=============================================================================
