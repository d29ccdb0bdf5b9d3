-------------------------- MODULE InterruptsProofs --------------------------
(***************************************************************************)
(* Proofs about module Interrupts, for every memory size, set of guest     *)
(* programs, wiring and number of handler activations.                     *)
(***************************************************************************)
EXTENDS Interrupts, TLAPS

-----------------------------------------------------------------------------
(* The program counter stays a 16-bit address.                             *)
LEMMA ProgramCounter ==
  ASSUME NEW a \in Addr
  PROVE  Inc(a) \in Addr /\ Dec(a) \in Addr
BY InterruptsAssumption DEF Inc, Dec, Addr

(* Only an interrupt line of the controller, 0 to 7, reaches the latch.    *)
LEMMA LatchedLine ==
  ASSUME NEW line \in Nat, Latches(line)
  PROVE  line \in 0 .. 7 /\ interrupt
BY DEF Latches, Passes

(* A line the configuration can wire is a natural number.                  *)
LEMMA WiredLine ==
  ASSUME TypeOK
  PROVE  rtc_interrupt_line \in Nat /\ serial1_interrupt_line \in Nat
BY InterruptsAssumption DEF TypeOK

(* The stack of return addresses: pushing, popping and reading its top.    *)
LEMMA StackWords ==
  ASSUME TypeOK
  PROVE  /\ TopWord \in Addr
         /\ \A w \in Addr : <<w>> \o stack \in Seq(Addr)
         /\ stack # <<>> => Tail(stack) \in Seq(Addr)
<1>1. stack \in Seq(Addr) /\ StackBottom \in Addr
  BY InterruptsAssumption DEF TypeOK
<1>2. TopWord \in Addr
  BY <1>1 DEF TopWord
<1>3. ASSUME NEW w \in Addr PROVE <<w>> \o stack \in Seq(Addr)
  BY <1>1
<1>4. stack # <<>> => Tail(stack) \in Seq(Addr)
  BY <1>1
<1> QED
  BY <1>2, <1>3, <1>4

(* An instruction of the guest's memory image is an instruction, and its   *)
(* argument is what its opcode calls for.                                  *)
LEMMA Arguments ==
  ASSUME TypeOK
  PROVE  /\ code[pc] \in Instr
         /\ data_bus.op = "RST" => data_bus.arg \in 0 .. 7
         /\ data_bus.op = "OUT" => data_bus.arg \in 0 .. 255
         /\ data_bus.op \in {"JMP", "CALL"} => data_bus.arg \in Addr
<1>1. code[pc] \in Instr
  <2>1. code \in [Addr -> Instr] /\ pc \in Addr
    BY InterruptsAssumption DEF TypeOK
  <2> QED
    BY <2>1
<1>2. data_bus \in Instr
  BY DEF TypeOK
<1> QED
  BY <1>1, <1>2 DEF Instr

-----------------------------------------------------------------------------
(* The instruction an injected RST or a cleared CPU leaves on the data bus.*)
LEMMA BusInstructions ==
  /\ [op |-> "NOP", arg |-> 0] \in Instr
  /\ \A n \in 0 .. 7 : [op |-> "RST", arg |-> n] \in Instr
BY DEF Instr

(* Type correctness of the interrupt path.                                 *)
THEOREM TypeCorrect == Spec => []TypeOK
<1>1. Init => TypeOK
  <2> SUFFICES ASSUME Init PROVE TypeOK
    OBVIOUS
  <2>1. 0 \in Addr /\ stack \in Seq(Addr)
    BY InterruptsAssumption DEF Init, Addr
  <2>2. 0 \in 0 .. MaxRaises
    BY InterruptsAssumption
  <2>3. data_bus \in Instr
    BY BusInstructions DEF Init
  <2>4. /\ interrupt \in BOOLEAN /\ interrupt_status \in BOOLEAN
        /\ interrupt_request \in BOOLEAN /\ armed \in BOOLEAN
        /\ windowed \in BOOLEAN
    BY DEF Init
  <2>6. /\ interrupt_instruction \in 0 .. 7 /\ irq_status \in 0 .. 255
        /\ served \in Nat /\ taken \in Nat /\ stray \in Nat /\ late \in Nat
    BY DEF Init
  <2>5. /\ code \in Programs /\ at \in Steps
        /\ pc \in Addr /\ raises \in 0 .. MaxRaises
        /\ rtc_interrupt_line \in RtcLines
        /\ serial1_interrupt_line \in SerialLines
    BY <2>1, <2>2 DEF Init, Steps
  <2> QED
    BY <2>1, <2>3, <2>4, <2>5, <2>6 DEF TypeOK
<1>2. TypeOK /\ [Next]_vars => TypeOK'
  <2> SUFFICES ASSUME TypeOK, [Next]_vars PROVE TypeOK'
    OBVIOUS
  <2>1. ASSUME NEW line \in Nat, Raise(line) PROVE TypeOK'
    <3>1. raises' \in 0 .. MaxRaises /\ served' \in Nat
      BY <2>1, InterruptsAssumption DEF TypeOK, Raise
    <3>3. windowed' \in BOOLEAN
      BY <2>1 DEF TypeOK, Raise
    <3>2. interrupt_instruction' \in 0 .. 7 /\ interrupt_request' \in BOOLEAN
      BY <2>1, LatchedLine DEF TypeOK, Raise
    <3> QED
      BY <2>1, <3>1, <3>2, <3>3 DEF TypeOK, Raise, guest, wiring
  <2>2. CASE RtcFire \/ SerialReceive
    BY <2>1, <2>2, WiredLine DEF RtcFire, SerialReceive
  <2>3. CASE Fetch
    BY <2>3, Arguments DEF TypeOK, Fetch, latch, wiring, history, Steps
  <2>4. CASE Notice
    <3>1. taken' \in Nat /\ stray' \in Nat /\ late' \in Nat
      BY <2>4 DEF TypeOK, Notice
    <3> QED
      BY <2>4, <3>1 DEF TypeOK, Notice, guest, latch, wiring, Steps
  <2>5. CASE ClearRequest
    BY <2>5 DEF TypeOK, ClearRequest, guest, wiring, history, Steps
  <2>6. CASE TakeInstruction
    <3>1. data_bus' \in Instr /\ served' \in Nat
      BY <2>6, BusInstructions DEF TypeOK, TakeInstruction
    <3> QED
      BY <2>6, <3>1 DEF TypeOK, TakeInstruction, latch, wiring, Steps
  <2>7. CASE Mask
    BY <2>7, ProgramCounter DEF TypeOK, Mask, latch, wiring, history, Steps
  <2>8. CASE Execute
    <3>1. CASE Nop
      BY <3>1, ProgramCounter
      DEF TypeOK, Nop, Executes, latch, wiring, history, Steps
    <3>2. CASE Ei
      BY <3>2, ProgramCounter DEF TypeOK, Ei, Executes, latch, wiring, Steps
    <3>3. CASE Di
      BY <3>3, ProgramCounter
      DEF TypeOK, Di, Executes, latch, wiring, history, Steps
    <3>4. CASE Hlt
      BY <3>4 DEF TypeOK, Hlt, Executes, guest, latch, wiring, history, Steps
    <3>5. CASE Rst
      <4>1. data_bus.arg * 8 \in Addr
        BY <3>5, Arguments, InterruptsAssumption DEF Rst, Executes, Addr
      <4>2. stack' \in Seq(Addr)
        BY <3>5, StackWords, ProgramCounter DEF Rst, TypeOK
      <4> QED
        BY <3>5, <4>1, <4>2
        DEF TypeOK, Rst, Executes, latch, wiring, history, Steps
    <3>6. CASE Call
      <4>1. stack' \in Seq(Addr)
        BY <3>6, StackWords, ProgramCounter DEF Call, TypeOK
      <4> QED
        BY <3>6, <4>1, Arguments
        DEF TypeOK, Call, Executes, latch, wiring, history, Steps
    <3>7. CASE Ret
      BY <3>7, StackWords
      DEF TypeOK, Ret, Executes, latch, wiring, history, Steps
    <3>8. CASE Jmp
      BY <3>8, Arguments
      DEF TypeOK, Jmp, Executes, latch, wiring, history, Steps
    <3>9. CASE Out
      BY <3>9, Arguments, ProgramCounter
      DEF TypeOK, Out, Executes, latch, wiring, Steps
    <3> QED
      BY <2>8, <3>1, <3>2, <3>3, <3>4, <3>5, <3>6, <3>7, <3>8, <3>9
      DEF Execute
  <2>9. CASE ZeroStatus
    BY <2>9 DEF TypeOK, ZeroStatus, guest, latch, wiring, history, Steps
  <2>10. CASE RestoreInterrupt
    BY <2>10 DEF TypeOK, RestoreInterrupt, guest, latch, wiring, history, Steps
  <2>11. CASE Reset
    <3>1. CASE ResetController
      BY <3>1
      DEF TypeOK, ResetController, guest, latch, wiring, history, Steps
    <3>2. CASE ResetCpu
      <4>1. 0 \in Addr /\ stack' \in Seq(Addr)
        BY <3>2, InterruptsAssumption DEF ResetCpu, Addr
      <4>2. data_bus' \in Instr
        BY <3>2, BusInstructions DEF ResetCpu
      <4>3. /\ code' \in Programs /\ at' \in Steps /\ pc' \in Addr
            /\ rtc_interrupt_line' \in RtcLines
            /\ serial1_interrupt_line' \in SerialLines
        BY <3>2, <4>1 DEF ResetCpu, Steps
      <4>4. /\ interrupt' \in BOOLEAN /\ interrupt_request' \in BOOLEAN
            /\ armed' \in BOOLEAN /\ windowed' \in BOOLEAN
        BY <3>2 DEF ResetCpu, ClearLatch
      <4>6. /\ interrupt_instruction' \in 0 .. 7
            /\ served' \in Nat /\ taken' \in Nat /\ stray' \in Nat
            /\ late' \in Nat
        BY <3>2 DEF ResetCpu, ClearLatch
      <4>5. /\ interrupt_status' \in BOOLEAN /\ irq_status' \in 0 .. 255
            /\ raises' \in 0 .. MaxRaises
        BY <3>2 DEF TypeOK, ResetCpu
      <4> QED
        BY <4>1, <4>2, <4>3, <4>4, <4>5, <4>6 DEF TypeOK
    <3> QED
      BY <2>11, <3>1, <3>2 DEF Reset
  <2>12. CASE UNCHANGED vars
    BY <2>12 DEF TypeOK, vars, guest, latch, wiring, history
  <2> QED
    BY <2>2, <2>3, <2>4, <2>5, <2>6, <2>7, <2>8, <2>9, <2>10, <2>11, <2>12
    DEF Next, Cycle
<1> QED
  BY <1>1, <1>2, PTL DEF Spec

-----------------------------------------------------------------------------
(* The inductive invariant behind the safety properties.  What the guest   *)
(* has asked for is Enabled: between ZeroStatus and RestoreInterrupt the   *)
(* bit is only kept in the local.  Nothing is latched while interrupt is   *)
(* off, so a stray acceptance consumes the last request there is, and a    *)
(* proper one finds that none was accepted since the EI.                   *)
Enabled   == interrupt \/ (at = "restore" /\ interrupt_status)
Accepting == at \in {"clear", "take", "mask"}

ClearInv == at = "clear" => interrupt_request

StrayInv ==
    /\ stray \in {0, 1}
    /\ stray = 1 => ~Enabled /\ (interrupt_request => at = "clear")

LateInv ==
    /\ late \in {0, 1}
    /\ late = 1 => /\ ~EnableIrqController(irq_status)
                   /\ interrupt_request => at = "clear"

TakenInv ==
    /\ taken <= stray + 1
    /\ Enabled /\ ~Accepting => taken = 0

QuietInv ==
    ~armed => ~Enabled /\ ~interrupt_request /\ ~Accepting /\ taken = 0

(* A request that stands while its vector is read came in that window, and *)
(* what may still be injected has not been injected as often as it can be. *)
ServedInv ==
    /\ at = "take" /\ interrupt_request => windowed /\ served = 0
    /\ at \in {"clear", "take"} \/ interrupt_request =>
         served < IF windowed THEN 2 ELSE 1

IInv == /\ ClearInv /\ StrayInv /\ LateInv /\ TakenInv /\ QuietInv
        /\ ServedInv /\ RequestServedOnce

LEMMA InitIInv == Init => IInv
BY DEF Init, IInv, ClearInv, StrayInv, LateInv, TakenInv, QuietInv,
       ServedInv, RequestServedOnce, Enabled, Accepting

(* A handler, at whatever step it interrupts the main loop.                *)
LEMMA RaiseIInv ==
  ASSUME TypeOK, IInv, NEW line \in Nat, Raise(line)
  PROVE  IInv'
<1> USE DEF Enabled, Accepting
<1>1. Latches(line) => interrupt /\ EnableIrqController(irq_status)
  BY DEF Latches, Passes
<1>2. UNCHANGED <<interrupt, interrupt_status, at, irq_status, taken, stray,
                  late, armed>>
  BY DEF Raise
<1>3. ~Latches(line) => UNCHANGED <<interrupt_request, served, windowed>>
  BY DEF Raise, TypeOK
<1>4. Latches(line) => interrupt_request' /\ served' = 0 /\ windowed' = (at = "take")
  BY DEF Raise
<1>5. (ClearInv /\ StrayInv)'
  BY <1>1, <1>2, <1>3, <1>4 DEF IInv, ClearInv, StrayInv
<1>6. LateInv'
  BY <1>1, <1>2, <1>3, <1>4 DEF IInv, LateInv
<1>7. (TakenInv /\ QuietInv)'
  BY <1>1, <1>2, <1>3, <1>4 DEF IInv, TakenInv, QuietInv
<1>8. (ServedInv /\ RequestServedOnce)'
  <2>1. CASE Latches(line)
    <3>1. interrupt_request' /\ served' = 0 /\ (at = "take" => windowed') /\ at' = at
      BY <1>2, <1>4, <2>1
    <3> QED
      BY <3>1 DEF ServedInv, RequestServedOnce
  <2>2. CASE ~Latches(line)
    BY <1>2, <1>3, <2>2 DEF IInv, ServedInv, RequestServedOnce
  <2> QED
    BY <2>1, <2>2
<1> QED
  BY <1>5, <1>6, <1>7, <1>8 DEF IInv

(* The steps of i8080_cycle before the instruction is executed.            *)
LEMMA AcceptIInv ==
  ASSUME TypeOK, IInv,
         Fetch \/ Notice \/ ClearRequest \/ TakeInstruction \/ Mask
  PROVE  IInv'
<1> USE DEF Enabled, Accepting, ClearInv, StrayInv, LateInv, TakenInv,
            QuietInv, ServedInv, RequestServedOnce
<1>1. CASE Fetch
  BY <1>1 DEF IInv, Fetch, latch, history
<1>2. CASE Notice
  BY <1>2 DEF IInv, Notice, latch, TypeOK
<1>3. CASE ClearRequest
  BY <1>3 DEF IInv, ClearRequest, history, TypeOK
<1>4. CASE TakeInstruction
  BY <1>4 DEF IInv, TakeInstruction, latch, TypeOK
<1>5. CASE Mask
  BY <1>5 DEF IInv, Mask, latch, history
<1> QED
  BY <1>1, <1>2, <1>3, <1>4, <1>5

(* The instruction.  Only EI, DI and OUT touch what the invariant is about.*)
LEMMA ExecuteIInv ==
  ASSUME TypeOK, IInv, Execute
  PROVE  IInv'
<1> USE DEF Enabled, Accepting, ClearInv, StrayInv, LateInv, TakenInv,
            QuietInv, ServedInv, RequestServedOnce, Executes
<1>1. CASE Ei
  BY <1>1 DEF IInv, Ei, latch, TypeOK
<1>2. CASE Di
  BY <1>2 DEF IInv, Di, latch, history
<1>3. CASE Out
  BY <1>3 DEF IInv, Out, latch, EnableIrqController
<1>4. CASE Nop \/ Hlt \/ Rst \/ Call \/ Ret \/ Jmp
  <2>1. /\ at = "execute" /\ at' = "zero"
        /\ UNCHANGED <<interrupt, interrupt_status, interrupt_request,
                       irq_status, served, windowed, taken, stray, late, armed>>
    BY <1>4 DEF Nop, Hlt, Rst, Call, Ret, Jmp, latch, history
  <2> QED
    BY <2>1 DEF IInv
<1> QED
  BY <1>1, <1>2, <1>3, <1>4 DEF Execute

(* The end of the cycle, and the reset.                                    *)
LEMMA RestIInv ==
  ASSUME TypeOK, IInv, ZeroStatus \/ RestoreInterrupt \/ Reset
  PROVE  IInv'
<1> USE DEF Enabled, Accepting, ClearInv, StrayInv, LateInv, TakenInv,
            QuietInv, ServedInv, RequestServedOnce
<1>1. CASE ZeroStatus
  BY <1>1 DEF IInv, ZeroStatus, latch, history
<1>2. CASE RestoreInterrupt
  BY <1>2 DEF IInv, RestoreInterrupt, latch, history
<1>3. CASE ResetController
  BY <1>3 DEF IInv, ResetController, latch, history, EnableIrqController
<1>4. CASE ResetCpu
  BY <1>4 DEF IInv, ResetCpu, ClearLatch
<1> QED
  BY <1>1, <1>2, <1>3, <1>4 DEF Reset

(* The inductive invariant holds in every reachable state.                 *)
THEOREM Invariance == Spec => []IInv
<1>1. TypeOK /\ IInv /\ [Next]_vars => IInv'
  <2> SUFFICES ASSUME TypeOK, IInv, [Next]_vars PROVE IInv'
    OBVIOUS
  <2>1. CASE RtcFire \/ SerialReceive
    BY <2>1, RaiseIInv, WiredLine DEF RtcFire, SerialReceive
  <2>2. CASE Cycle
    BY <2>2, AcceptIInv, ExecuteIInv, RestIInv DEF Cycle
  <2>3. CASE Reset
    BY <2>3, RestIInv
  <2>4. CASE UNCHANGED vars
    BY <2>4 DEF vars, latch, history, IInv, ClearInv, StrayInv, LateInv,
                TakenInv, QuietInv, ServedInv, RequestServedOnce, Enabled,
                Accepting
  <2> QED
    BY <2>1, <2>2, <2>3, <2>4 DEF Next
<1> QED
  BY <1>1, InitIInv, TypeCorrect, PTL DEF Spec

-----------------------------------------------------------------------------
(* DI, or an acceptance, leaves at most one request in flight: at most one *)
(* interrupt is accepted with interrupts off until the guest's next EI.    *)
THEOREM StrayBound == Spec => []AtMostOneStray
<1>1. IInv => AtMostOneStray
  BY DEF IInv, StrayInv, AtMostOneStray
<1> QED
  BY <1>1, Invariance, PTL

(* Each EI of the guest lets in one interrupt, next to a stray.            *)
THEOREM EiBound == Spec => []OneAcceptancePerEi
<1>1. IInv => OneAcceptancePerEi
  BY DEF IInv, TakenInv, OneAcceptancePerEi
<1> QED
  BY <1>1, Invariance, PTL

(* Turning the controller off leaves at most one request in flight.        *)
THEOREM LateBound == Spec => []AtMostOneLate
<1>1. IInv => AtMostOneLate
  BY DEF IInv, LateInv, AtMostOneLate
<1> QED
  BY <1>1, Invariance, PTL

(* The latest request is injected before the latch is empty again, once, or *)
(* twice if it came in the window of an acceptance.                        *)
THEOREM ServedOnce == Spec => []RequestServedOnce
<1>1. IInv => RequestServedOnce
  BY DEF IInv
<1> QED
  BY <1>1, Invariance, PTL

(* A reset discards what was pending: no interrupt before the first EI.    *)
THEOREM ResetIsQuiet == Spec => []QuietUntilEi
<1>1. IInv => QuietUntilEi
  BY DEF IInv, QuietInv, QuietUntilEi
<1> QED
  BY <1>1, Invariance, PTL
=============================================================================
