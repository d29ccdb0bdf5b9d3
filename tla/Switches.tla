------------------------------ MODULE Switches ------------------------------
(***************************************************************************)
(* One front panel switch (switches.c): its contacts bounce, each edge     *)
(* raises an interrupt, the handler debounces by the millisecond tick, and *)
(* the main loop asks with switch_was_pressed whether it was pressed.  The *)
(* switches share nothing but the tick.                                    *)
(*                                                                         *)
(* The finger, the contact and the tick are the environment.  After the    *)
(* finger has moved the contact may open and close at will for Bounce      *)
(* milliseconds, then it is where the finger is.  The handler may come up  *)
(* to a millisecond late (handlers do not interrupt each other); a finger  *)
(* stays until that is over.  The tick is HAL_GetTick, which wraps.        *)
(***************************************************************************)
EXTENDS Integers

CONSTANTS
    Debounce,       \* SWITCH_DEBOUNCE_MS, 10
    Bounce,         \* how long contacts bounce, in ms
    TickValues,     \* values of the tick, 2^32
    MaxStrokes      \* bound: strokes in one behaviour

(* Contacts come to rest within the debounce time, the delay of a handler  *)
(* included.                                                               *)
ASSUME SwitchesAssumption ==
    /\ Debounce \in Nat /\ Bounce \in Nat \ {0} /\ TickValues \in Nat
    /\ Bounce + 1 <= Debounce /\ Debounce + 1 < TickValues
    /\ MaxStrokes \in Nat \ {0}

(* How long a finger rests between two strokes, at least.                  *)
Rest == Bounce + 1 + Debounce

VARIABLES
    finger,             \* the switch is held down
    moved,              \* ms since the finger moved, to Rest + 1
    pin,                \* the contact is closed
    pending,            \* the edge interrupt is pending
    waited,             \* ... and was when the tick last advanced
    tick,
    state,              \* _switches[sw].state = SWITCH_STATE_DOWN
    timestamp,          \* _switches[sw].timestamp
    has_been_pressed,   \* _switches[sw].has_been_pressed
    at, result,         \* where switch_was_pressed is, and its local
    idle,               \* history: ms since state changed, to TickValues
    untimed,            \* history: the stroke began before power on, or so
                        \* long after the last that the tick came round
    strokes,            \* history: strokes so far
    counted,            \* history: presses the handler made of this stroke
    reports             \* history: calls that returned true

contact == <<finger, pin>>
flags   == <<state, timestamp, has_been_pressed>>
poll    == <<at, result>>
history == <<idle, untimed, strokes, counted, reports>>
vars    == <<contact, moved, pending, waited, tick, flags, poll, history>>

TypeOK ==
    /\ finger \in BOOLEAN /\ pin \in BOOLEAN
    /\ moved \in 0 .. Rest + 1
    /\ pending \in BOOLEAN /\ waited \in BOOLEAN
    /\ tick \in 0 .. TickValues - 1
    /\ state \in BOOLEAN
    /\ timestamp \in 0 .. TickValues - 1
    /\ has_been_pressed \in BOOLEAN
    /\ at \in {"idle", "clear"} /\ result \in BOOLEAN
    /\ idle \in 0 .. TickValues
    /\ untimed \in BOOLEAN
    /\ strokes \in 0 .. MaxStrokes
    /\ counted \in Nat /\ reports \in Nat

-----------------------------------------------------------------------------
(* Power on; a finger may be on the switch already.                        *)
Init ==
    /\ finger \in BOOLEAN
    /\ pin = finger
    /\ moved = 0
    /\ pending = FALSE /\ waited = FALSE
    /\ tick = 0
    /\ state = FALSE /\ timestamp = 0 /\ has_been_pressed = FALSE
    /\ at = "idle" /\ result = FALSE
    /\ idle = 0
    /\ untimed = finger
    /\ strokes = (IF finger THEN 1 ELSE 0)
    /\ counted = 0 /\ reports = 0

UpTo(limit, n) == IF n < limit THEN n + 1 ELSE limit

(* SysTick_Handler: a millisecond passes.                                  *)
Tick ==
    /\ ~(pending /\ waited)
    /\ moved >= Bounce => pin = finger
    /\ tick' = (tick + 1) % TickValues
    /\ moved' = UpTo(Rest + 1, moved)
    /\ idle' = UpTo(TickValues, idle)
    /\ waited' = pending
    /\ UNCHANGED <<contact, pending, flags, poll, untimed, strokes, counted,
                   reports>>

PressDown ==
    /\ ~finger
    /\ moved > Rest
    /\ strokes < MaxStrokes /\ strokes' = strokes + 1
    /\ finger' = TRUE
    /\ moved' = 0
    /\ counted' = 0
    /\ untimed' = (idle + Bounce + 1 >= TickValues)
    /\ UNCHANGED <<pin, pending, waited, tick, flags, poll, idle, reports>>

LetGo ==
    /\ finger
    /\ moved > Bounce + 1
    /\ finger' = FALSE
    /\ moved' = 0
    /\ UNCHANGED <<pin, pending, waited, tick, flags, poll, history>>

Edge ==
    /\ moved < Bounce \/ pin # finger
    /\ pin' = ~pin
    /\ pending' = TRUE
    /\ UNCHANGED <<finger, moved, waited, tick, flags, poll, history>>

-----------------------------------------------------------------------------
(* Mutants of Settled and Stamp.                                           *)
SettledNever == (tick - tick) % TickValues > Debounce
StampDownOnly(old) == IF pin THEN tick ELSE old

(* switch_settled; uint32_t arithmetic.                                    *)
Settled == (tick - timestamp) % TickValues > Debounce

(* What a change of state leaves in timestamp.                             *)
Stamp(old) == tick

(* HAL_GPIO_EXTI_Callback with the contact closed, or open, or as it was.  *)
EdgeDown ==
    /\ pending /\ pin /\ ~state
    /\ state' = TRUE
    /\ has_been_pressed' = (has_been_pressed \/ Settled)
    /\ counted' = IF Settled THEN counted + 1 ELSE counted
    /\ timestamp' = Stamp(timestamp)
    /\ idle' = 0
    /\ pending' = FALSE /\ waited' = FALSE
    /\ UNCHANGED <<contact, moved, tick, poll, untimed, strokes, reports>>

EdgeUp ==
    /\ pending /\ ~pin /\ state
    /\ state' = FALSE
    /\ timestamp' = Stamp(timestamp)
    /\ idle' = 0
    /\ pending' = FALSE /\ waited' = FALSE
    /\ UNCHANGED <<contact, moved, tick, has_been_pressed, poll, untimed,
                   strokes, counted, reports>>

EdgeMissed ==
    /\ pending /\ pin = state
    /\ pending' = FALSE /\ waited' = FALSE
    /\ UNCHANGED <<contact, moved, tick, flags, poll, history>>

-----------------------------------------------------------------------------
(* switch_was_pressed, in the main loop.                                   *)
ReadFlag ==
    /\ at = "idle"
    /\ result' = has_been_pressed
    /\ at' = "clear"
    /\ UNCHANGED <<contact, moved, pending, waited, tick, flags, history>>

(* Mutant: the flag is read and not cleared.                               *)
KeepFlag ==
    /\ at = "clear"
    /\ reports' = IF result THEN reports + 1 ELSE reports
    /\ at' = "idle"
    /\ UNCHANGED <<contact, moved, pending, waited, tick, flags, result, idle,
                   untimed, strokes, counted>>

ClearFlag ==
    /\ at = "clear"
    /\ has_been_pressed' = FALSE
    /\ reports' = IF result THEN reports + 1 ELSE reports
    /\ at' = "idle"
    /\ UNCHANGED <<contact, moved, pending, waited, tick, state, timestamp,
                   result, idle, untimed, strokes, counted>>

Next == \/ Tick \/ PressDown \/ LetGo \/ Edge
        \/ EdgeDown \/ EdgeUp \/ EdgeMissed
        \/ ReadFlag \/ ClearFlag

Spec == Init /\ [][Next]_vars

-----------------------------------------------------------------------------
(* A stroke makes at most one press, however the contacts bounce when the  *)
(* switch is pressed and when it is let go; one that began before power on *)
(* may make its press when it ends.                                        *)
OncePerStroke == counted <= 1

(* ... and, once the contacts have come to rest, exactly one, unless the   *)
(* switch was left alone for as long as the tick takes to come round.      *)
EveryStrokeCounts ==
    ~untimed /\ finger /\ moved > Bounce + 1 => counted = 1

(* The main loop never acts twice on a stroke: it is told of no more       *)
(* presses than there were strokes, one of them perhaps still in the flag, *)
(* or being told.                                                          *)
NoReportTwice ==
    reports + (IF has_been_pressed \/ (at = "clear" /\ result) THEN 1 ELSE 0)
      <= strokes
=============================================================================
