---------------------------- MODULE PanelProofs -----------------------------
(***************************************************************************)
(* Proofs about the two halves of the front panel that FrontPanel leaves   *)
(* out: a switch whose contacts bounce (Switches) and the LEDs (Leds).     *)
(***************************************************************************)
EXTENDS Switches, Leds, SequenceTheorems, TLAPS

(* The difference of two ticks, as uint32_t arithmetic has it.             *)
LEMMA Difference ==
  ASSUME NEW n \in Nat \ {0}, NEW a \in 0 .. n - 1, NEW b \in 0 .. n - 1
  PROVE  (a - b) % n = IF a < b THEN a - b + n ELSE a - b
<1>1. CASE a < b
  BY <1>1
<1>2. CASE a >= b
  BY <1>2
<1> QED
  BY <1>1, <1>2

(* ... and the one after the last.                                         *)
LEMMA Advance ==
  ASSUME NEW n \in Nat \ {0}, NEW a \in 0 .. n - 1
  PROVE  (a + 1) % n = IF a + 1 = n THEN 0 ELSE a + 1
<1>1. CASE a + 1 = n
  BY <1>1
<1>2. CASE a + 1 < n
  BY <1>2
<1> QED
  BY <1>1, <1>2

(* The state stays within its types: no press wraps the counters.          *)
THEOREM TypeCorrect == Spec => []TypeOK
<1> USE SwitchesAssumption DEF Rest
<1>1. Init => TypeOK
  <2> SUFFICES ASSUME Init PROVE TypeOK
    OBVIOUS
  <2>1. /\ strokes \in 0 .. MaxStrokes /\ 0 \in 0 .. Rest + 1
        /\ 0 \in 0 .. TickValues - 1 /\ 0 \in 0 .. TickValues
    BY DEF Init
  <2>2. /\ pin \in BOOLEAN /\ untimed \in BOOLEAN /\ at = "idle"
        /\ result \in BOOLEAN
    BY DEF Init
  <2> QED
    BY <2>1, <2>2 DEF Init, TypeOK
<1>2. TypeOK /\ [Next]_vars => TypeOK'
  <2> SUFFICES ASSUME TypeOK, [Next]_vars PROVE TypeOK'
    OBVIOUS
  <2> USE DEF TypeOK
  <2>1. CASE Tick
    <3>1. tick' \in 0 .. TickValues - 1
      BY <2>1, Advance DEF Tick
    <3>2. moved' \in 0 .. Rest + 1 /\ idle' \in 0 .. TickValues
      BY <2>1 DEF Tick, UpTo
    <3> QED
      BY <2>1, <3>1, <3>2 DEF Tick, contact, flags, poll
  <2>2. CASE PressDown
    BY <2>2 DEF PressDown, flags, poll
  <2>3. CASE LetGo
    <3>1. finger' = FALSE /\ moved' \in 0 .. Rest + 1
      BY <2>3 DEF LetGo
    <3> QED
      BY <2>3, <3>1 DEF LetGo, flags, poll, history
  <2>4. CASE Edge
    BY <2>4 DEF Edge, flags, poll, history
  <2>5. CASE EdgeDown
    <3>1. (has_been_pressed \/ Settled) \in BOOLEAN
      BY DEF Settled
    <3>2. counted' \in Nat /\ idle' \in 0 .. TickValues
      BY <2>5 DEF EdgeDown
    <3> QED
      BY <2>5, <3>1, <3>2 DEF EdgeDown, Stamp, contact, poll
  <2>6. CASE EdgeUp
    <3>1. idle' \in 0 .. TickValues
      BY <2>6 DEF EdgeUp
    <3> QED
      BY <2>6, <3>1 DEF EdgeUp, Stamp, contact, poll
  <2>7. CASE EdgeMissed
    BY <2>7 DEF EdgeMissed, contact, flags, poll, history
  <2>8. CASE ReadFlag
    BY <2>8 DEF ReadFlag, contact, flags, history
  <2>9. CASE ClearFlag
    <3>1. reports' \in Nat /\ at' = "idle"
      BY <2>9 DEF ClearFlag
    <3> QED
      BY <2>9, <3>1 DEF ClearFlag, contact
  <2>10. CASE UNCHANGED vars
    BY <2>10 DEF vars, contact, flags, poll, history
  <2> QED
    BY <2>1, <2>2, <2>3, <2>4, <2>5, <2>6, <2>7, <2>8, <2>9, <2>10 DEF Next
<1> QED
  BY <1>1, <1>2, PTL DEF Spec

(* Where the contact and the pending interrupt may be after a stroke: the  *)
(* contact is at rest after Bounce ms and the handler has run at most one  *)
(* later.  What it has not seen is a switch held at power on.              *)
ContactInv ==
    /\ ~(pin <=> finger) => moved <= Bounce
    /\ waited => pending
    /\ pending => moved <= Bounce + 1 /\ (moved = Bounce + 1 => waited)
    /\ finger => strokes > 0
    /\ ~pending /\ ~(pin <=> state) => untimed /\ counted = 0 /\ ~state /\ pin

(* The timestamp, as far as the tick tells; a change of state is no older  *)
(* than the bouncing that made it.                                         *)
ClockInv ==
    /\ idle < TickValues =>
         tick = timestamp + idle \/ tick = timestamp + idle - TickValues
    /\ moved <= idle + Bounce + 1

(* A second press of a stroke would come within the debounce time.         *)
StrokeInv ==
    /\ counted <= 1
    /\ strokes = 0 => counted = 0
    /\ (counted = 1 \/ strokes = 0) /\ ~state /\ moved <= Bounce + 1
         => idle <= moved

(* A stroke that has not counted yet finds the switch up and settled, and  *)
(* it still will when the contacts come to rest.                           *)
TimedInv ==
    ~untimed /\ finger /\ counted = 0 =>
        /\ ~state
        /\ moved <= Bounce + 1
        /\ Debounce < idle
        /\ idle + Bounce + 1 - moved < TickValues

(* Presses reported, waiting and still to be made.                         *)
Waiting == IF has_been_pressed \/ (at = "clear" /\ result) THEN 1 ELSE 0
ToCome == IF strokes > 0 /\ counted = 0 THEN 1 ELSE 0

ReportInv == reports + Waiting + ToCome <= strokes

LEMMA ContactStep ==
  ASSUME TypeOK, ContactInv, [Next]_vars
  PROVE  ContactInv'
<1> USE SwitchesAssumption DEF TypeOK, ContactInv, Rest
<1>1. CASE Tick
  <2>1. \/ moved' = moved + 1
        \/ moved > Bounce + 1 /\ moved' > Bounce + 1
    <3>1. moved' = UpTo(Rest + 1, moved)
      BY <1>1 DEF Tick
    <3>2. CASE moved < Rest + 1
      BY <3>1, <3>2 DEF UpTo
    <3>3. CASE moved = Rest + 1
      BY <3>1, <3>3 DEF UpTo
    <3> QED
      BY <3>2, <3>3
  <2>2. UNCHANGED <<pin, finger, pending, strokes, untimed, counted, state>>
        /\ waited' = pending
    BY <1>1 DEF Tick, contact, flags
  <2>3. ~(pending /\ waited) /\ (moved >= Bounce => pin = finger)
    BY <1>1 DEF Tick
  <2> QED
    BY <2>1, <2>2, <2>3
<1>2. CASE PressDown
  <2>1. ~finger /\ moved > Bounce + 1 /\ UNCHANGED <<pin, pending, waited, state>>
    BY <1>2 DEF PressDown, flags
  <2>2. ~pending /\ ~pin /\ ~state
    BY <2>1
  <2>3. finger' = TRUE /\ moved' = 0 /\ strokes' = strokes + 1
    BY <1>2 DEF PressDown
  <2> QED
    BY <2>1, <2>2, <2>3
<1>3. CASE LetGo
  BY <1>3 DEF LetGo, flags, history
<1>4. CASE Edge
  BY <1>4 DEF Edge, flags, history
<1>5. CASE EdgeDown
  BY <1>5 DEF EdgeDown, contact
<1>6. CASE EdgeUp
  BY <1>6 DEF EdgeUp, contact
<1>7. CASE EdgeMissed
  BY <1>7 DEF EdgeMissed, contact, flags, history
<1>8. CASE ReadFlag
  BY <1>8 DEF ReadFlag, contact, flags, history
<1>9. CASE ClearFlag
  BY <1>9 DEF ClearFlag, contact
<1>10. CASE UNCHANGED vars
  BY <1>10 DEF vars, contact, flags, history
<1> QED
  BY <1>1, <1>2, <1>3, <1>4, <1>5, <1>6, <1>7, <1>8, <1>9, <1>10 DEF Next

LEMMA ClockStep ==
  ASSUME TypeOK, ContactInv, ClockInv, [Next]_vars
  PROVE  ClockInv'
<1> USE SwitchesAssumption DEF TypeOK, ClockInv, Rest
<1>1. CASE Tick
  <2>1. tick' = tick + 1 \/ tick' = tick + 1 - TickValues
    BY <1>1, Advance DEF Tick
  <2>2. /\ moved' \in {moved, moved + 1} /\ moved' <= Rest + 1
        /\ idle' = (IF idle < TickValues THEN idle + 1 ELSE TickValues)
        /\ tick' \in 0 .. TickValues - 1
    BY <1>1, Advance DEF Tick, UpTo
  <2>3. UNCHANGED timestamp
    BY <1>1 DEF Tick, flags
  <2> QED
    BY <2>1, <2>2, <2>3
<1>2. CASE PressDown \/ LetGo
  BY <1>2 DEF PressDown, LetGo, flags, history
<1>3. CASE EdgeDown \/ EdgeUp
  <2>1. /\ timestamp' = tick /\ tick' = tick /\ idle' = 0 /\ moved' = moved
        /\ moved <= Bounce + 1
    BY <1>3 DEF EdgeDown, EdgeUp, Stamp, ContactInv
  <2> QED
    BY <2>1
<1>4. CASE Edge \/ EdgeMissed \/ ReadFlag \/ ClearFlag \/ UNCHANGED vars
  <2>1. UNCHANGED <<tick, timestamp, idle, moved>>
    BY <1>4 DEF Edge, EdgeMissed, ReadFlag, ClearFlag, vars, flags, history
  <2> QED
    BY <2>1
<1> QED
  BY <1>1, <1>2, <1>3, <1>4 DEF Next

(* The handler takes a change for settled only if it is old enough, and a  *)
(* change that is old enough for settled before the tick comes round.      *)
LEMMA SettledMeans ==
  ASSUME TypeOK, ClockInv
  PROVE  /\ Settled => Debounce < idle
         /\ Debounce < idle /\ idle < TickValues => Settled
<1> USE SwitchesAssumption DEF TypeOK, ClockInv
<1>1. (tick - timestamp) % TickValues =
        IF tick < timestamp THEN tick - timestamp + TickValues
                            ELSE tick - timestamp
  BY Difference
<1>2. CASE idle < TickValues
  BY <1>1, <1>2 DEF Settled
<1>3. CASE idle = TickValues
  BY <1>3
<1> QED
  BY <1>2, <1>3

LEMMA StrokeStep ==
  ASSUME TypeOK, ContactInv, ClockInv, StrokeInv, [Next]_vars
  PROVE  StrokeInv'
<1> USE SwitchesAssumption DEF TypeOK, StrokeInv, Rest
<1>1. CASE Tick
  <2>1. UNCHANGED <<counted, strokes, state>>
    BY <1>1 DEF Tick, flags
  <2>2. moved' \in Nat /\ (moved' = moved + 1 \/ moved' > Bounce + 1)
    BY <1>1 DEF Tick, UpTo
  <2>3. idle' \in Nat /\ idle' <= idle + 1
    BY <1>1 DEF Tick, UpTo
  <2> QED
    BY <2>1, <2>2, <2>3
<1>2. CASE PressDown
  <2>1. counted' = 0 /\ strokes' # 0
    BY <1>2 DEF PressDown
  <2> QED
    BY <2>1
<1>3. CASE LetGo
  <2>1. finger /\ moved > Bounce + 1
    BY <1>3 DEF LetGo
  <2>2. strokes > 0 /\ (state \/ counted = 0)
    <3>1. ~pending /\ pin
      BY <2>1 DEF ContactInv
    <3> QED
      BY <2>1, <3>1 DEF ContactInv
  <2> QED
    BY <1>3, <2>2 DEF LetGo, flags, history
<1>4. CASE EdgeDown
  <2>1. idle' = 0 /\ state' = TRUE /\ strokes' = strokes /\ moved' = moved
    BY <1>4 DEF EdgeDown, contact
  <2>2. ~state /\ moved <= Bounce + 1
    BY <1>4 DEF EdgeDown, ContactInv
  <2>3. Settled => counted = 0 /\ strokes # 0
    BY <2>2, SettledMeans
  <2>4. counted' = IF Settled THEN counted + 1 ELSE counted
    BY <1>4 DEF EdgeDown
  <2> QED
    BY <2>1, <2>3, <2>4
<1>5. CASE EdgeUp
  BY <1>5 DEF EdgeUp, contact
<1>6. CASE Edge \/ EdgeMissed \/ ReadFlag \/ ClearFlag \/ UNCHANGED vars
  <2>1. UNCHANGED <<counted, strokes, state, moved, idle>>
    BY <1>6 DEF Edge, EdgeMissed, ReadFlag, ClearFlag, vars, flags, history
  <2> QED
    BY <2>1
<1> QED
  BY <1>1, <1>2, <1>3, <1>4, <1>5, <1>6 DEF Next

LEMMA TimedStep ==
  ASSUME TypeOK, ContactInv, ClockInv, StrokeInv, TimedInv, [Next]_vars
  PROVE  TimedInv'
<1> USE SwitchesAssumption DEF TypeOK, TimedInv, Rest
<1>1. CASE Tick
  <2>1. UNCHANGED <<untimed, finger, counted, state>>
    BY <1>1 DEF Tick, flags, contact
  <2>2. CASE moved <= Bounce
    BY <1>1, <2>1, <2>2 DEF Tick, UpTo
  <2>3. CASE moved > Bounce
    <3>1. ~pending /\ pin = finger
      BY <1>1, <2>3 DEF Tick, ContactInv
    <3> QED
      BY <2>1, <3>1 DEF ContactInv
  <2> QED
    BY <2>2, <2>3
<1>2. CASE PressDown
  <2>1. moved > Rest /\ ~finger /\ UNCHANGED <<idle, state>>
    BY <1>2 DEF PressDown, flags
  <2>2. ~state
    BY <2>1 DEF ContactInv
  <2>3. moved' = 0 /\ (~untimed' => idle + Bounce + 1 < TickValues)
    <3>1. ~untimed' => ~(idle + Bounce + 1 >= TickValues)
      BY <1>2, Zenon DEF PressDown
    <3> QED
      BY <1>2, <3>1 DEF PressDown
  <2>4. Debounce < idle
    BY <2>1 DEF ClockInv
  <2> QED
    BY <2>1, <2>2, <2>3, <2>4
<1>3. CASE LetGo
  BY <1>3 DEF LetGo
<1>4. CASE EdgeDown
  <2>1. UNCHANGED <<untimed, finger>>
    BY <1>4 DEF EdgeDown, contact
  <2>2. ~untimed /\ finger /\ counted = 0 => Settled
    BY SettledMeans
  <2>3. counted' = IF Settled THEN counted + 1 ELSE counted
    BY <1>4 DEF EdgeDown
  <2> QED
    BY <2>1, <2>2, <2>3
<1>5. CASE EdgeUp
  BY <1>5 DEF EdgeUp, contact
<1>6. CASE Edge \/ EdgeMissed \/ ReadFlag \/ ClearFlag \/ UNCHANGED vars
  <2>1. UNCHANGED <<untimed, finger, counted, state, moved, idle>>
    BY <1>6 DEF Edge, EdgeMissed, ReadFlag, ClearFlag, vars, contact, flags,
                history
  <2> QED
    BY <2>1
<1> QED
  BY <1>1, <1>2, <1>3, <1>4, <1>5, <1>6 DEF Next

LEMMA ReportStep ==
  ASSUME TypeOK, ContactInv, ClockInv, StrokeInv, ReportInv, [Next]_vars
  PROVE  ReportInv'
<1> USE SwitchesAssumption DEF TypeOK, ReportInv, Waiting, ToCome
<1>1. CASE PressDown
  <2>1. UNCHANGED <<reports, has_been_pressed, at, result>>
        /\ strokes' = strokes + 1
    BY <1>1 DEF PressDown, flags, poll
  <2> QED
    BY <2>1
<1>2. CASE EdgeDown
  <2>1. UNCHANGED <<reports, at, result, strokes>>
    BY <1>2 DEF EdgeDown, poll
  <2>2. ~state /\ moved <= Bounce + 1
    BY <1>2 DEF EdgeDown, ContactInv
  <2>3. Settled => counted = 0 /\ strokes # 0
    BY <2>2, SettledMeans DEF StrokeInv
  <2>4. CASE Settled
    <3>1. counted = 0 /\ strokes # 0 /\ counted' = 1
      BY <1>2, <2>3, <2>4 DEF EdgeDown
    <3> QED
      BY <2>1, <3>1
  <2>5. CASE ~Settled
    <3>1. (has_been_pressed' <=> has_been_pressed) /\ counted' = counted
      BY <1>2, <2>5 DEF EdgeDown
    <3> QED
      BY <2>1, <3>1
  <2> QED
    BY <2>4, <2>5
<1>3. CASE ReadFlag
  BY <1>3 DEF ReadFlag, history, flags
<1>4. CASE ClearFlag
  BY <1>4 DEF ClearFlag
<1>5. CASE \/ Tick \/ LetGo \/ Edge \/ EdgeUp \/ EdgeMissed
           \/ UNCHANGED vars
  <2>1. UNCHANGED <<reports, has_been_pressed, at, result, strokes, counted>>
    BY <1>5 DEF Tick, LetGo, Edge, EdgeUp, EdgeMissed, vars, flags, poll, history
  <2> QED
    BY <2>1
<1> QED
  BY <1>1, <1>2, <1>3, <1>4, <1>5 DEF Next

SwitchInv == TypeOK /\ ContactInv /\ ClockInv /\ StrokeInv /\ TimedInv /\ ReportInv

LEMMA SwitchInvariant == Spec => []SwitchInv
<1>1. Init => ContactInv
  BY SwitchesAssumption DEF Init, ContactInv
<1>2. Init => ClockInv /\ StrokeInv /\ TimedInv
  BY SwitchesAssumption DEF Init, ClockInv, StrokeInv, TimedInv
<1>3. Init => ReportInv
  BY DEF Init, ReportInv, Waiting, ToCome
<1>4. ContactInv /\ ClockInv /\ StrokeInv /\ TimedInv /\ ReportInv
        /\ TypeOK /\ [Next]_vars
      => (ContactInv /\ ClockInv /\ StrokeInv /\ TimedInv /\ ReportInv)'
  BY ContactStep, ClockStep, StrokeStep, TimedStep, ReportStep
<1> QED
  BY <1>1, <1>2, <1>3, <1>4, TypeCorrect, PTL DEF Spec, SwitchInv

(* Whatever the contacts do within the debounce time, when the switch is   *)
(* pressed and when it is let go, a stroke makes at most one press.        *)
THEOREM OneAtMost == Spec => []OncePerStroke
<1>1. SwitchInv => OncePerStroke
  BY DEF SwitchInv, StrokeInv, OncePerStroke
<1> QED
  BY <1>1, SwitchInvariant, PTL

(* ... and exactly one, unless the tick came round since the last change.  *)
THEOREM OneAtLeast == Spec => []EveryStrokeCounts
<1>1. SwitchInv => EveryStrokeCounts
  BY SwitchesAssumption
     DEF SwitchInv, TypeOK, StrokeInv, TimedInv, EveryStrokeCounts
<1> QED
  BY <1>1, SwitchInvariant, PTL

(* The main loop hears of no more presses than there were strokes.         *)
THEOREM NoneTwice == Spec => []NoReportTwice
<1>1. SwitchInv => NoReportTwice
  BY DEF SwitchInv, TypeOK, ReportInv, Waiting, ToCome, NoReportTwice
<1> QED
  BY <1>1, SwitchInvariant, PTL

-----------------------------------------------------------------------------
(* What read_cfg sends is a sequence of calls.                            *)
LEMMA ScriptType ==
  ASSUME NEW c \in ConfigScripts
  PROVE  c \in Seq(Calls)
<1>1. [i \in 1 .. 2 * Flashes |-> "flash"] \in Seq(Calls)
  BY LedsAssumption DEF Calls
<1>2. <<"plain">> \in Seq(Calls) /\ <<>> \in Seq(Calls)
  BY DEF Calls
<1> QED
  BY <1>1, <1>2, ConcatProperties DEF ConfigScripts

(* The patterns, the buffer and the driver stay within their types: no     *)
(* call is taken from an empty script and no byte is stored behind the     *)
(* buffer.                                                                 *)
THEOREM LedsTypeCorrect == LedsSpec => []LedsTypeOK
<1>1. LedsInit => LedsTypeOK
  <2> SUFFICES ASSUME LedsInit PROVE LedsTypeOK
    OBVIOUS
  <2>1. script \in Seq(Calls) /\ script # <<>>
    <3>1. PICK c \in ConfigScripts : script = <<"plain", "plain">> \o c
      BY DEF LedsInit
    <3>2. <<"plain", "plain">> \in Seq(Calls) /\ c \in Seq(Calls)
      BY ScriptType DEF Calls
    <3>3. script \in Seq(Calls) /\ Len(script) = 2 + Len(c)
      BY <3>1, <3>2, ConcatProperties
    <3> QED
      BY <3>2, <3>3
  <2>2. Dark \in [Fields -> SUBSET (Samples \cup {"other"})] /\ Old \in Buffers
    BY DEF Dark, Old, Buffers
  <2>3. [s \in Samples |-> <<>>] \in [Samples -> Seq(SUBSET Fields)]
    OBVIOUS
  <2>4. /\ acc = Dark /\ arg = Dark /\ unread = {} /\ window = {}
        /\ step = "next" /\ ending = "idle" /\ spi = "ready" /\ latch = "low"
        /\ stored = 0 /\ fetched = 0
    BY DEF LedsInit
  <2>5. bits \in [Samples -> SUBSET Fields]
    BY DEF LedsInit
  <2>6. led_data \in Buffers /\ shift \in Buffers /\ shown \in Buffers
    BY <2>2 DEF LedsInit
  <2>7. sent \in [Samples -> Seq(SUBSET Fields)] /\ calm \in BOOLEAN
    BY <2>3 DEF LedsInit
  <2> QED
    BY <2>1, <2>2, <2>4, <2>5, <2>6, <2>7 DEF LedsTypeOK
<1>2. LedsTypeOK /\ [LedsNext]_ledsVars => LedsTypeOK'
  <2> SUFFICES ASSUME LedsTypeOK, [LedsNext]_ledsVars PROVE LedsTypeOK'
    OBVIOUS
  <2> USE DEF LedsTypeOK
  <2>1. CASE SysTick
    <3>1. PICK s \in Samples, b \in Marks :
            /\ Accumulate(s, b)
            /\ bits' = [bits EXCEPT ![s] = b]
            /\ window' = IF InWindow THEN window \cup {s} ELSE window
            /\ UNCHANGED <<main, wire, sent>>
      BY <2>1 DEF SysTick
    <3>2. acc' \in [Fields -> SUBSET (Samples \cup {"other"})]
      BY <3>1 DEF Accumulate
    <3>3. bits' \in [Samples -> SUBSET Fields] /\ window' \subseteq Samples
      BY <3>1, LedsAssumption
    <3> QED
      BY <3>1, <3>2, <3>3 DEF main, wire
  <2>2. CASE SysTickOther
    <3>1. acc' \in [Fields -> SUBSET (Samples \cup {"other"})]
      BY <2>2 DEF SysTickOther, Accumulate
    <3> QED
      BY <2>2, <3>1 DEF SysTickOther, main, wire, samples
  <2>3. CASE TestAddress \/ TestData \/ TestStatus
    BY <2>3 DEF TestAddress, TestData, TestStatus, Test, wire, samples
  <2>4. CASE ReadArgument
    BY <2>4 DEF ReadArgument, wire, samples
  <2>5. CASE Call
    <3>1. sent' \in [Samples -> Seq(SUBSET Fields)]
      BY <2>5 DEF Call
    <3>2. arg' \in [Fields -> SUBSET (Samples \cup {"other"})]
      BY <2>5 DEF Call, Dark
    <3> QED
      BY <2>5, <3>1, <3>2 DEF Call, wire
  <2>6. CASE StoreByte
    <3>1. led_data' \in Buffers /\ shift' \in Buffers /\ shown' \in Buffers
      BY <2>6 DEF StoreByte, Buffers, Old, Layout, Fields
    <3>2. stored' \in 0 .. 3
      BY <2>6 DEF StoreByte
    <3>3. calm' \in BOOLEAN
      BY <2>6 DEF StoreByte
    <3>4. step' \in {"latch", "store"}
      BY <2>6 DEF StoreByte
    <3> QED
      BY <2>6, <3>1, <3>2, <3>3, <3>4 DEF StoreByte, samples
  <2>7. CASE LatchLow
    BY <2>7 DEF LatchLow, samples
  <2>8. CASE Transmit
    BY <2>8 DEF Transmit, samples
  <2>9. CASE Delay
    BY <2>9 DEF Delay, wire, samples
  <2>10. CASE NextCall
    <3>1. script' \in Seq(Calls) /\ script' # <<>>
      <4>1. CASE Len(script) = 1
        BY <2>10, <4>1 DEF NextCall
      <4>2. CASE Len(script) # 1
        <5>1. /\ Tail(script) \in Seq(Calls)
              /\ Len(Tail(script)) = Len(script) - 1
          BY HeadTailProperties
        <5>2. Len(script) \in Nat /\ Len(script) # 0
          BY EmptySeq
        <5>3. Len(Tail(script)) # 0
          BY <4>2, <5>1, <5>2
        <5>4. Tail(script) # <<>>
          BY <5>3, EmptySeq, Zenon
        <5> QED
          BY <2>10, <4>2, <5>1, <5>4 DEF NextCall
      <4> QED
        BY <4>1, <4>2
    <3> QED
      BY <2>10, <3>1 DEF NextCall, wire, samples
  <2>11. CASE Reset
    <3>1. PICK c \in ConfigScripts : script' = <<"plain">> \o c \o <<"plain">>
      BY <2>11 DEF Reset
    <3>2. <<"plain">> \in Seq(Calls) /\ c \in Seq(Calls)
      BY ScriptType DEF Calls
    <3>3. script' \in Seq(Calls) /\ Len(script') = 2 + Len(c)
      BY <3>1, <3>2, ConcatProperties
    <3>4. window' \subseteq Samples
      BY <2>11 DEF Reset
    <3> QED
      BY <2>11, <3>2, <3>3, <3>4 DEF Reset, wire
  <2>12. CASE ClearStatus \/ ClearData \/ ClearAddress
    BY <2>12 DEF ClearStatus, ClearData, ClearAddress, Clear, wire, samples
  <2>13. CASE Fetch
    BY <2>13 DEF Fetch, Buffers, main, samples
  <2>14. CASE Complete \/ TransferError
    BY <2>14 DEF Complete, TransferError, RaiseLatch, main, samples
  <2>15. CASE UNCHANGED ledsVars
    BY <2>15 DEF ledsVars, main, wire, samples
  <2> QED
    BY <2>1, <2>2, <2>3, <2>4, <2>5, <2>6, <2>7, <2>8, <2>9, <2>10, <2>11, <2>12,
       <2>13, <2>14, <2>15 DEF LedsNext, Main, Dma
<1> QED
  BY <1>1, <1>2, PTL DEF LedsSpec

-----------------------------------------------------------------------------
(* The buffer, the driver and the panel during a call, from the first      *)
(* store to the start of the transfer, and during the transfer.            *)
Storing == stored > 0 \/ step \in {"latch", "transmit"}

Transferring ==
    /\ latch = "low"
    /\ led_data = Layout
    /\ \A i \in 1 .. 4 : i <= fetched => shift[4 - fetched + i] = Layout[i]

(* A call that began in peace has the driver for itself until it starts    *)
(* the transfer, which moves its bytes to the panel in their order.        *)
CalmInv ==
    /\ stored > 0 => step = "store"
    /\ \A i \in 1 .. 4 : i <= stored => led_data[i] = Layout[i]
    /\ step \in {"latch", "transmit"} => led_data = Layout
    /\ step = "transmit" /\ calm => latch = "low"
    /\ calm /\ Storing => spi = "ready"
    /\ calm /\ ~Storing => IF spi = "ready" THEN shown = Layout ELSE Transferring

(* A buffer with every byte in its place is the layout.                   *)
LEMMA LayoutFillsBuffer ==
  ASSUME NEW b \in Buffers, \A i \in 1 .. 4 : b[i] = Layout[i]
  PROVE  b = Layout
BY DEF Buffers, Layout

(* The index of SPI_write_leds does not wrap before the last byte.         *)
LEMMA NextStored ==
  ASSUME NEW n \in {1, 2}
  PROVE  (n + 1) % 4 = n + 1
<1>1. CASE n = 1
  BY <1>1
<1>2. CASE n = 2
  BY <1>2
<1> QED
  BY <1>1, <1>2

LEMMA CalmStep ==
  ASSUME LedsTypeOK, CalmInv, [LedsNext]_ledsVars
  PROVE  CalmInv'
<1> USE DEF LedsTypeOK
<1>1. CASE StoreByte
  <2>1. CASE stored = 0
    <3>1. /\ step = "store" /\ step' = "store" /\ stored' = 1 /\ UNCHANGED spi
          /\ led_data' = [Old EXCEPT ![1] = Layout[1]]
      BY <1>1, <2>1 DEF StoreByte
    <3>2. calm' => spi = "ready"
      BY <1>1, <2>1, Zenon DEF StoreByte
    <3> QED
      BY <3>1, <3>2 DEF CalmInv, Storing, Old
  <2>2. CASE stored # 0
    <3>1. /\ step = "store" /\ stored' = (stored + 1) % 4
          /\ step' = (IF stored = 3 THEN "latch" ELSE "store")
          /\ led_data' = [led_data EXCEPT ![stored + 1] = Layout[stored + 1]]
          /\ (calm' <=> calm) /\ UNCHANGED <<spi, latch>>
      BY <1>1, <2>2 DEF StoreByte
    <3>2. led_data' \in Buffers
      BY <2>2, <3>1 DEF Buffers, Layout, Fields
    <3>3. \A i \in 1 .. 4 : i <= stored + 1 => led_data'[i] = Layout[i]
      BY <2>2, <3>1 DEF CalmInv, Buffers
    <3>4. CASE stored = 3
      <4>1. led_data' = Layout
        BY <3>2, <3>3, <3>4, LayoutFillsBuffer
      <4>2. stored' = 0 /\ step' = "latch"
        BY <3>1, <3>4
      <4> QED
        BY <2>2, <3>1, <4>1, <4>2 DEF CalmInv, Storing
    <3>5. CASE stored # 3
      <4>1. stored \in {1, 2}
        BY <2>2, <3>5
      <4>2. step' = "store"
        BY <3>1, <3>5
      <4>3. (stored + 1) % 4 = stored + 1
        BY <4>1, NextStored
      <4>4. stored' = stored + 1
        BY <3>1, <4>3
      <4> QED
        BY <2>2, <3>1, <3>3, <4>2, <4>4 DEF CalmInv, Storing
    <3> QED
      BY <3>4, <3>5
  <2> QED
    BY <2>1, <2>2
<1>2. CASE LatchLow
  <2>1. /\ step = "latch" /\ step' = "transmit" /\ latch' = "low"
        /\ UNCHANGED <<led_data, stored, spi, calm>>
    BY <1>2 DEF LatchLow
  <2> QED
    BY <2>1 DEF CalmInv, Storing
<1>3. CASE Transmit
  <2>1. /\ step = "transmit" /\ step' \in {"delay", "next"}
        /\ UNCHANGED <<led_data, stored, latch, shift, shown, calm>>
    BY <1>3 DEF Transmit
  <2>2. stored = 0 /\ led_data = Layout
    BY <2>1 DEF CalmInv
  <2>3. CASE spi = "ready"
    <3>1. spi' = "busy_tx" /\ fetched' = 0
      BY <1>3, <2>3 DEF Transmit
    <3> QED
      BY <2>1, <2>2, <3>1 DEF CalmInv, Storing, Transferring
  <2>4. CASE spi # "ready"
    <3>1. ~calm /\ ~calm'
      BY <2>1, <2>4 DEF CalmInv, Storing
    <3> QED
      BY <2>1, <2>2, <3>1 DEF CalmInv
  <2> QED
    BY <2>3, <2>4
<1>4. CASE Fetch
  <2>1. /\ spi = "busy_tx" /\ fetched < 4 /\ fetched' = fetched + 1
        /\ shift' = [i \in 1 .. 4 |-> IF i < 4 THEN shift[i + 1]
                                               ELSE led_data[fetched + 1]]
        /\ UNCHANGED <<step, led_data, stored, spi, latch, shown, calm>>
    BY <1>4 DEF Fetch, main
  <2>2. Transferring => Transferring'
    BY <2>1 DEF Transferring
  <2> QED
    BY <2>1, <2>2 DEF CalmInv, Storing
<1>5. CASE Complete
  <2>1. /\ spi = "busy_tx" /\ fetched = 4 /\ spi' = "ready"
        /\ shown' = (IF latch = "low" THEN shift ELSE shown)
        /\ UNCHANGED <<step, led_data, stored, calm>>
    BY <1>5 DEF Complete, RaiseLatch, main
  <2>2. Transferring => shown' = Layout
    <3> SUFFICES ASSUME Transferring PROVE shown' = Layout
      OBVIOUS
    <3>1. \A i \in 1 .. 4 : shift[i] = Layout[i]
      BY <2>1 DEF Transferring
    <3> QED
      BY <2>1, <3>1, LayoutFillsBuffer DEF Transferring
  <2> QED
    BY <2>1, <2>2 DEF CalmInv, Storing
<1>6. CASE TransferError
  <2>1. /\ spi = "busy_tx" /\ calm' = FALSE /\ UNCHANGED <<step, led_data, stored>>
    BY <1>6 DEF TransferError, main
  <2> QED
    BY <2>1 DEF CalmInv
<1>7. CASE \/ TestAddress \/ TestData \/ TestStatus \/ ReadArgument \/ Call
           \/ Delay \/ NextCall \/ ClearStatus \/ ClearData \/ ClearAddress
           \/ Reset
  <2>1. UNCHANGED wire
    BY <1>7 DEF TestAddress, TestData, TestStatus, Test, ReadArgument, Call,
                Delay, NextCall, ClearStatus, ClearData, ClearAddress, Clear, Reset
  <2>2. step \notin {"store", "latch", "transmit"}
    BY <1>7 DEF TestAddress, TestData, TestStatus, Test, ReadArgument, Call,
                Delay, NextCall, ClearStatus, ClearData, ClearAddress, Clear, Reset
  <2>3. step' \notin {"latch", "transmit"}
    BY <1>7 DEF TestAddress, TestData, TestStatus, Test, ReadArgument, Call,
                Delay, NextCall, ClearStatus, ClearData, ClearAddress, Clear, Reset
  <2> QED
    BY <2>1, <2>2, <2>3 DEF wire, CalmInv, Storing, Transferring
<1>8. CASE SysTick \/ SysTickOther \/ UNCHANGED ledsVars
  <2>1. UNCHANGED <<wire, step>>
    BY <1>8 DEF SysTick, SysTickOther, ledsVars, main
  <2> QED
    BY <2>1 DEF wire, CalmInv, Storing, Transferring
<1> QED
  BY <1>1, <1>2, <1>3, <1>4, <1>5, <1>6, <1>7, <1>8 DEF LedsNext, Main, Dma

(* What the LEDs show when a call began with an idle driver and nothing    *)
(* failed is what the call was given, all of it and in the right places.   *)
THEOREM CalmCallIsShown == LedsSpec => []CalmCallShows
<1>1. LedsInit => CalmInv
  BY DEF LedsInit, CalmInv, Storing
<1>2. LedsTypeOK /\ CalmInv => CalmCallShows
  BY DEF LedsTypeOK, CalmInv, Storing, CalmCallShows, Panel, Layout
<1>3. LedsTypeOK /\ CalmInv /\ [LedsNext]_ledsVars => CalmInv'
  BY CalmStep
<1> QED
  BY <1>1, <1>2, <1>3, LedsTypeCorrect, PTL DEF LedsSpec

-----------------------------------------------------------------------------
(* The rounds of the main loop.  Between a call and the end of the         *)
(* clearing, the accumulators that are still to be cleared.                *)
ToClear ==
    CASE /\ ending = "clear_status"
         /\ step \in {"store", "latch", "transmit", "delay", "next",
                     "clear_status"}   -> Fields
      [] step = "clear_data"           -> {"address", "data"}
      [] step = "clear_address"        -> {"address"}
      [] OTHER                         -> {}

LoopInv ==
    /\ step \in {"test_data", "test_status", "read", "call", "clear_status",
                 "clear_data", "clear_address"} => ending = "clear_status"
    /\ step \notin {"read", "call"} => \A f \in Fields : arg[f] = {}
    /\ step = "call" => unread = {}

(* A sample that has been sent is in no accumulator that will be read.     *)
SampleInv(s) ==
    /\ \A f \in Fields : s \in acc[f] \/ s \in arg[f] => f \in bits[s]
    /\ bits[s] = {} => s \notin window /\ sent[s] = <<>>
    /\ sent[s] # <<>> =>
         /\ Len(sent[s]) = 1
         /\ \A f \in Fields : s \in acc[f] => f \in ToClear
         /\ \A f \in Fields : s \notin arg[f]

(* Where the loop may be while a sample waits to be sent: the tests so far *)
(* have not seen it, and every read so far has.                            *)
Awaits(s) ==
    \/ step = "idle" \/ ending = "idle"
    \/ step = "test_data" /\ "address" \notin bits[s]
    \/ step = "test_status" /\ "address" \notin bits[s] /\ "data" \notin bits[s]
    \/ step \in {"read", "call"} /\
         \A f \in Fields : s \in arg[f] <=> f \in bits[s] /\ f \notin unread

(* A sample from outside of the window stays whole.                        *)
WholeInv(s) ==
    bits[s] # {} /\ s \notin window =>
        \/ /\ sent[s] = <<>>
           /\ \A f \in Fields : s \in acc[f] <=> f \in bits[s]
           /\ Awaits(s)
        \/ sent[s] = <<bits[s]>>

LEMMA LoopStep ==
  ASSUME LedsTypeOK, LoopInv, [LedsNext]_ledsVars
  PROVE  LoopInv'
<1> USE DEF LoopInv
<1>1. CASE TestAddress \/ TestData \/ TestStatus
  BY <1>1 DEF TestAddress, TestData, TestStatus, Test
<1>2. CASE ReadArgument
  BY <1>2 DEF ReadArgument
<1>3. CASE Call
  BY <1>3 DEF Call, Dark
<1>4. CASE StoreByte
  BY <1>4 DEF StoreByte
<1>5. CASE LatchLow \/ Transmit \/ Delay
  BY <1>5 DEF LatchLow, Transmit, Delay
<1>6. CASE NextCall
  BY <1>6 DEF NextCall, LedsTypeOK
<1>7. CASE Reset
  BY <1>7 DEF Reset
<1>8. CASE ClearStatus \/ ClearData \/ ClearAddress
  BY <1>8 DEF ClearStatus, ClearData, ClearAddress, Clear
<1>9. CASE \/ SysTick \/ SysTickOther \/ Fetch \/ Complete \/ TransferError
           \/ UNCHANGED ledsVars
  <2>1. UNCHANGED main
    BY <1>9 DEF SysTick, SysTickOther, Fetch, Complete, TransferError, ledsVars
  <2> QED
    BY <2>1 DEF main
<1> QED
  BY <1>1, <1>2, <1>3, <1>4, <1>5, <1>6, <1>7, <1>8, <1>9 DEF LedsNext, Main, Dma

LEMMA SampleStep ==
  ASSUME LedsTypeOK, LoopInv, [LedsNext]_ledsVars,
         NEW s \in Samples, SampleInv(s), WholeInv(s)
  PROVE  SampleInv(s)' /\ WholeInv(s)'
<1>0. /\ acc \in [Fields -> SUBSET (Samples \cup {"other"})]
      /\ arg \in [Fields -> SUBSET (Samples \cup {"other"})]
      /\ bits \in [Samples -> SUBSET Fields]
      /\ sent \in [Samples -> Seq(SUBSET Fields)]
      /\ s # "other"
  BY LedsAssumption DEF LedsTypeOK
<1>1. CASE TestAddress \/ TestData \/ TestStatus
  <2>1. UNCHANGED <<acc, arg, bits, window, sent>>
    BY <1>1 DEF TestAddress, TestData, TestStatus, Test, samples
  <2>2. /\ ToClear = {} /\ \A f \in Fields : arg[f] = {}
        /\ step \in {"idle", "test_data", "test_status"}
    BY <1>1 DEF TestAddress, TestData, TestStatus, Test, ToClear, LoopInv
  <2>3. SampleInv(s)'
    BY <2>1, <2>2 DEF SampleInv
  <2>4. ASSUME bits[s] # {}, \A f \in Fields : s \in acc[f] <=> f \in bits[s], Awaits(s)
        PROVE  Awaits(s)'
    <3>1. CASE TestAddress
      BY <1>0, <2>1, <2>2, <2>4, <3>1 DEF TestAddress, Test, Awaits, Fields
    <3>2. CASE TestData
      BY <1>0, <2>1, <2>2, <2>4, <3>2 DEF TestData, Test, Awaits, Fields, LoopInv
    <3>3. CASE TestStatus
      BY <1>0, <2>1, <2>2, <2>4, <3>3 DEF TestStatus, Test, Awaits, Fields, LoopInv
    <3> QED
      BY <1>1, <3>1, <3>2, <3>3
  <2>5. WholeInv(s)'
    BY <2>1, <2>4 DEF WholeInv
  <2> QED
    BY <2>3, <2>5
<1>2. CASE ReadArgument
  <2>1. PICK g \in unread : /\ unread' = unread \ {g}
                            /\ arg' = [arg EXCEPT ![g] = acc[g]]
    BY <1>2 DEF ReadArgument
  <2>2. /\ UNCHANGED <<acc, bits, window, sent, ending>>
        /\ step = "read" /\ step' \in {"read", "call"} /\ g \in Fields
    BY <1>2 DEF ReadArgument, samples, LedsTypeOK
  <2>3. ToClear = {}
    BY <2>2 DEF ToClear
  <2>4. \A f \in Fields : s \in arg'[f] <=>
                          IF f = g THEN s \in acc[f] ELSE s \in arg[f]
    BY <1>0, <2>1
  <2>5. SampleInv(s)'
    BY <2>2, <2>3, <2>4 DEF SampleInv
  <2>6. WholeInv(s)'
    <3>1. ASSUME \A f \in Fields : s \in acc[f] <=> f \in bits[s], Awaits(s)
          PROVE  Awaits(s)'
      BY <2>1, <2>2, <2>4, <3>1 DEF Awaits, LoopInv
    <3> QED
      BY <2>2, <3>1 DEF WholeInv
  <2> QED
    BY <2>5, <2>6
<1>3. CASE Call
  <2> DEFINE fs == {f \in Fields : s \in arg[f]}
  <2>1. /\ UNCHANGED <<acc, bits, window, ending>> /\ step = "call" /\ step' = "store"
        /\ \A f \in Fields : arg'[f] = {}
    BY <1>3 DEF Call, Dark
  <2>2. sent'[s] = IF fs = {} THEN sent[s] ELSE Append(sent[s], fs)
    BY <1>3 DEF Call
  <2>3. ending = "clear_status" /\ unread = {}
    BY <2>1 DEF LoopInv
  <2>4. ToClear' = Fields
    BY <2>1, <2>3 DEF ToClear
  <2>5. fs # {} => bits[s] # {} /\ sent[s] = <<>>
    BY DEF SampleInv
  <2>6. sent'[s] = IF fs = {} THEN sent[s] ELSE <<fs>>
    <3>1. Append(<<>>, fs) = <<fs>>
      OBVIOUS
    <3> HIDE DEF fs
    <3>2. CASE fs = {}
      BY <2>2, <3>2
    <3>3. CASE fs # {}
      BY <2>2, <2>5, <3>1, <3>3
    <3> QED
      BY <3>2, <3>3
  <2>7. SampleInv(s)'
    <3>1. sent'[s] # <<>> => Len(sent'[s]) = 1
      BY <2>6 DEF SampleInv
    <3>2. bits'[s] = {} => s \notin window' /\ sent'[s] = <<>>
      BY <2>1, <2>5, <2>6 DEF SampleInv
    <3> HIDE DEF fs
    <3> QED
      BY <2>1, <2>4, <3>1, <3>2 DEF SampleInv
  <2>8. WholeInv(s)'
    <3>1. CASE sent[s] = <<>> /\ bits[s] # {} /\ s \notin window
      <4>1. /\ \A f \in Fields : s \in acc[f] <=> f \in bits[s]
            /\ Awaits(s)
        BY <3>1 DEF WholeInv
      <4>2. \A f \in Fields : s \in arg[f] <=> f \in bits[s]
        BY <2>1, <2>3, <4>1 DEF Awaits
      <4>3. fs = bits[s]
        BY <1>0, <4>2
      <4> HIDE DEF fs
      <4> QED
        BY <2>1, <2>6, <3>1, <4>3 DEF WholeInv
    <3>2. CASE sent[s] # <<>>
      <4>1. sent'[s] = sent[s]
        BY <2>5, <2>6, <3>2
      <4> QED
        BY <2>1, <3>2, <4>1 DEF WholeInv
    <3>3. CASE bits[s] = {} \/ s \in window
      BY <2>1, <3>3 DEF WholeInv
    <3> QED
      BY <3>1, <3>2, <3>3
  <2> QED
    BY <2>7, <2>8
<1>4. CASE StoreByte \/ LatchLow \/ Transmit \/ Delay \/ NextCall
  <2>1. UNCHANGED <<acc, arg, bits, window, sent, ending>>
    BY <1>4 DEF StoreByte, LatchLow, Transmit, Delay, NextCall, samples
  <2>2. /\ step \in {"store", "latch", "transmit", "delay", "next"}
        /\ \/ step' \in {"store", "latch", "transmit", "delay", "next"}
           \/ step' = ending
    BY <1>4 DEF StoreByte, LatchLow, Transmit, Delay, NextCall
  <2>3. ToClear' = ToClear /\ (Awaits(s) => Awaits(s)')
    BY <2>1, <2>2 DEF ToClear, Awaits, LedsTypeOK
  <2> QED
    BY <2>1, <2>3 DEF SampleInv, WholeInv
<1>5. CASE Reset
  <2>1. /\ UNCHANGED <<acc, arg, bits, sent>>
        /\ step = "idle" /\ step' = "next" /\ ending' = "clear_status"
        /\ window' = window \cup UNION {acc[f] \ {"other"} : f \in Fields}
    BY <1>5 DEF Reset
  <2>2. ToClear = {} /\ ToClear' = Fields
    BY <2>1 DEF ToClear
  <2>3. s \notin window' => s \notin window /\ \A f \in Fields : s \notin acc[f]
    BY <1>0, <2>1
  <2>4. s \in window' => s \in window \/ \E f \in Fields : s \in acc[f]
    BY <2>1
  <2>5. SampleInv(s)'
    BY <2>1, <2>2, <2>4 DEF SampleInv
  <2>6. WholeInv(s)'
    BY <1>0, <2>1, <2>3 DEF WholeInv
  <2> QED
    BY <2>5, <2>6
<1>6. CASE ClearStatus \/ ClearData \/ ClearAddress
  <2>1. UNCHANGED <<arg, bits, window, sent>>
    BY <1>6 DEF ClearStatus, ClearData, ClearAddress, Clear, samples
  <2>2. ~Awaits(s)
    BY <1>6 DEF ClearStatus, ClearData, ClearAddress, Clear, Awaits, LoopInv
  <2>3. WholeInv(s)'
    BY <2>1, <2>2 DEF WholeInv
  <2>4. \A f \in Fields : s \in acc'[f] => s \in acc[f]
    BY <1>0, <1>6 DEF ClearStatus, ClearData, ClearAddress, Clear
  <2>5. \A f \in Fields : s \in acc'[f] /\ f \in ToClear => f \in ToClear'
    <3>1. CASE ClearStatus
      BY <1>0, <3>1 DEF ClearStatus, Clear, ToClear, Fields
    <3>2. CASE ClearData
      BY <1>0, <3>2 DEF ClearData, Clear, ToClear, Fields
    <3>3. CASE ClearAddress
      BY <1>0, <3>3 DEF ClearAddress, Clear, ToClear, Fields
    <3> QED
      BY <1>6, <3>1, <3>2, <3>3
  <2>6. SampleInv(s)'
    BY <2>1, <2>4, <2>5 DEF SampleInv
  <2> QED
    BY <2>3, <2>6
<1>7. CASE SysTick
  <2>1. PICK x \in Samples, b \in Marks :
          /\ bits[x] = {} /\ Accumulate(x, b)
          /\ bits' = [bits EXCEPT ![x] = b]
          /\ window' = IF InWindow THEN window \cup {x} ELSE window
          /\ UNCHANGED <<main, wire, sent>>
    BY <1>7 DEF SysTick
  <2>2. UNCHANGED <<step, ending, arg, unread, sent>>
    BY <2>1 DEF main
  <2>3. ToClear' = ToClear /\ b \subseteq Fields /\ b # {}
    BY <2>2, LedsAssumption DEF ToClear
  <2>4. CASE x = s
    <3>1. /\ bits'[s] = b /\ sent[s] = <<>>
          /\ \A f \in Fields : s \notin acc[f] /\ s \notin arg[f]
          /\ \A f \in Fields : s \in acc'[f] <=> f \in b
      BY <1>0, <2>1, <2>4 DEF SampleInv, Accumulate
    <3>2. s \notin window' => step = "idle" \/ ending = "idle"
      BY <2>1, <2>4 DEF InWindow, LedsTypeOK
    <3>3. SampleInv(s)'
      BY <2>2, <2>3, <3>1 DEF SampleInv
    <3>4. WholeInv(s)'
      BY <2>2, <3>1, <3>2 DEF WholeInv, Awaits
    <3> QED
      BY <3>3, <3>4
  <2>5. CASE x # s
    <3>1. /\ bits'[s] = bits[s] /\ (s \in window' <=> s \in window)
          /\ \A f \in Fields : s \in acc'[f] <=> s \in acc[f]
      BY <1>0, <2>1, <2>5 DEF Accumulate
    <3>2. Awaits(s)' <=> Awaits(s)
      BY <2>2, <3>1 DEF Awaits
    <3> QED
      BY <2>2, <2>3, <3>1, <3>2 DEF SampleInv, WholeInv
  <2> QED
    BY <2>4, <2>5
<1>8. CASE SysTickOther
  <2>1. UNCHANGED <<main, samples>>
        /\ \A f \in Fields : s \in acc'[f] <=> s \in acc[f]
    BY <1>0, <1>8 DEF SysTickOther, Accumulate
  <2> QED
    BY <2>1 DEF main, samples, SampleInv, WholeInv, Awaits, ToClear
<1>9. CASE Fetch \/ Complete \/ TransferError \/ UNCHANGED ledsVars
  <2>1. UNCHANGED <<acc, main, samples>>
    BY <1>9 DEF Fetch, Complete, TransferError, ledsVars
  <2> QED
    BY <2>1 DEF main, samples, SampleInv, WholeInv, Awaits, ToClear
<1> QED
  BY <1>1, <1>2, <1>3, <1>4, <1>5, <1>6, <1>7, <1>8, <1>9 DEF LedsNext, Main, Dma

AccInv == LoopInv /\ \A s \in Samples : SampleInv(s) /\ WholeInv(s)

(* No sample of the buses is shown twice, and one from outside of the      *)
(* window is shown whole, for any samples with bits in any accumulators.   *)
THEOREM ShownOnce == LedsSpec => []SamplesOnce
<1>1. LedsInit => AccInv
  BY DEF LedsInit, AccInv, LoopInv, SampleInv, WholeInv, Dark
<1>2. LedsTypeOK /\ AccInv => SamplesOnce
  <2> SUFFICES ASSUME LedsTypeOK, AccInv, NEW s \in Samples
               PROVE  /\ Len(sent[s]) <= 1
                      /\ bits[s] # {} /\ s \notin window /\ step = "idle" =>
                           LET held == {f \in Fields : s \in acc[f]}
                           IN  \/ held = bits[s] /\ sent[s] = <<>>
                               \/ held = {} /\ sent[s] = <<bits[s]>>
    BY DEF SamplesOnce
  <2>1. SampleInv(s) /\ WholeInv(s) /\ bits[s] \in SUBSET Fields
    BY DEF AccInv, LedsTypeOK
  <2>2. Len(sent[s]) <= 1
    <3>1. CASE sent[s] = <<>>
      BY <3>1
    <3>2. CASE sent[s] # <<>>
      <4>1. Len(sent[s]) = 1
        BY <2>1, <3>2 DEF SampleInv
      <4> QED
        BY <4>1
    <3> QED
      BY <3>1, <3>2
  <2>3. ASSUME bits[s] # {}, s \notin window, step = "idle", sent[s] = <<>>
        PROVE  {f \in Fields : s \in acc[f]} = bits[s]
    BY <2>1, <2>3 DEF WholeInv
  <2>4. ASSUME step = "idle", sent[s] # <<>>
        PROVE  {f \in Fields : s \in acc[f]} = {}
    BY <2>1, <2>4 DEF SampleInv, ToClear
  <2>5. ASSUME bits[s] # {}, s \notin window, sent[s] # <<>>
        PROVE  sent[s] = <<bits[s]>>
    BY <2>1, <2>5 DEF WholeInv
  <2> QED
    BY <2>2, <2>3, <2>4, <2>5
<1>3. LedsTypeOK /\ AccInv /\ [LedsNext]_ledsVars => AccInv'
  BY LoopStep, SampleStep DEF AccInv
<1> QED
  BY <1>1, <1>2, <1>3, LedsTypeCorrect, PTL DEF LedsSpec
=============================================================================
