----------------------------- MODULE Interrupts -----------------------------
(***************************************************************************)
(* The interrupt path of the emulator: the 8080's one-entry interrupt      *)
(* latch (intel8080.c), the 88-VI interrupt controller (irq_controller.h)  *)
(* and the handlers that raise its lines (the TIM1 callback for the RTC,   *)
(* the USB receive callback for serial port 1).                            *)
(*                                                                         *)
(* There is one CPU core: the main loop runs i8080_cycle again and again,  *)
(* every peripheral interrupt has priority 0, so a handler runs to its end *)
(* between any two steps of the main loop.  i8080_cycle is therefore cut   *)
(* at each access to a variable a handler also uses (interrupt_request,    *)
(* interrupt_instruction, status.interrupt, irq_status); `at' names the    *)
(* next such access.  A handler is one action.                             *)
(*                                                                         *)
(* The guest program is a memory image drawn from Programs.  The guest's   *)
(* stack is a sequence of return addresses, newest first, on top of        *)
(* StackBottom, the word its stack pointer was set up with; the guest is   *)
(* assumed not to run its stack into its code.  Only the instructions that *)
(* touch the interrupt path or the flow of control are kept apart.         *)
(***************************************************************************)
EXTENDS Integers, Sequences

CONSTANTS
    AddressSpace,   \* bytes of memory; MEMORY_SIZE, 65536
    Programs,       \* the memory images the guest may run
    StackBottom,    \* the word the guest's empty stack points at
    RtcLines,       \* settings of rtc_interrupt_line the configuration may hold
    SerialLines,    \* settings of serial1_interrupt_line
    MaxRaises       \* bound: handler activations in one behaviour

Addr == 0 .. AddressSpace - 1

Instr == [op : {"NOP", "EI", "DI", "HLT", "RET"}, arg : {0}]
           \cup [op : {"RST"}, arg : 0 .. 7]
           \cup [op : {"OUT"}, arg : 0 .. 255]
           \cup [op : {"JMP", "CALL"}, arg : Addr]

ASSUME InterruptsAssumption ==
    /\ AddressSpace \in Nat /\ AddressSpace > 64
    /\ Programs # {} /\ Programs \subseteq [Addr -> Instr]
    /\ StackBottom \in Addr
    /\ RtcLines \subseteq 0 .. 255 /\ SerialLines \subseteq 0 .. 255
    /\ MaxRaises \in Nat

VARIABLES
    code,                   \* memory[], as instructions
    pc,                     \* registers.pc
    stack,                  \* the words from registers.sp up, newest first
    interrupt,              \* registers.status.interrupt
    interrupt_status,       \* the local of i8080_cycle that saves it
    interrupt_request,      \* cpu.interrupt_request
    interrupt_instruction,  \* cpu.interrupt_instruction, by its RST number
    data_bus,               \* cpu.data_bus, the instruction being executed
    irq_status,             \* the controller's control byte
    rtc_interrupt_line,     \* wiring, set by the configuration file
    serial1_interrupt_line,
    at,                     \* the next step of the main loop
    raises,                 \* history: handler activations so far
    served,                 \* history: RSTs injected for the latest request,
                            \* 1 while there was none
    windowed,               \* history: it came between ClearRequest and
                            \* TakeInstruction
    taken,                  \* history: acceptances since the guest's last EI
    stray,                  \* history: those of them made with interrupts off
    late,                   \* history: acceptances since the controller went off
    armed                   \* history: the guest has executed EI since reset

guest   == <<code, pc, stack, data_bus>>
latch   == <<interrupt_request, interrupt_instruction>>
wiring  == <<rtc_interrupt_line, serial1_interrupt_line>>
history == <<raises, served, windowed, taken, stray, late, armed>>
vars    == <<guest, interrupt, interrupt_status, latch, irq_status, wiring, at,
             history>>

Steps == {"test", "clear", "take", "mask", "execute", "zero", "restore", "reset"}

TypeOK ==
    /\ code \in Programs
    /\ pc \in Addr
    /\ stack \in Seq(Addr)
    /\ interrupt \in BOOLEAN
    /\ interrupt_status \in BOOLEAN
    /\ interrupt_request \in BOOLEAN
    /\ interrupt_instruction \in 0 .. 7
    /\ data_bus \in Instr
    /\ irq_status \in 0 .. 255
    /\ rtc_interrupt_line \in RtcLines
    /\ serial1_interrupt_line \in SerialLines
    /\ at \in Steps
    /\ raises \in 0 .. MaxRaises
    /\ served \in Nat
    /\ windowed \in BOOLEAN
    /\ taken \in Nat
    /\ stray \in Nat
    /\ late \in Nat
    /\ armed \in BOOLEAN

-----------------------------------------------------------------------------
(* 16-bit program counter arithmetic.                                      *)
Inc(a) == IF a + 1 = AddressSpace THEN 0 ELSE a + 1
Dec(a) == IF a = 0 THEN AddressSpace - 1 ELSE a - 1

(* What read16(sp) and memory[sp] see.                                     *)
TopWord == IF stack = <<>> THEN StackBottom ELSE Head(stack)
TopByte == TopWord % 256
HltOpcode == 118                    \* 0x76

(* The bits of irq_status (irq_controller.h:9-14).                         *)
CurrentLevel(b)        == b % 8
DisableCurrentLevel(b) == (b \div 8) % 2 = 1
EnableRtcInterrupt(b)  == (b \div 64) % 2 = 1
EnableIrqController(b) == (b \div 128) % 2 = 1

(* Mutant: the controller's master enable is not looked at.                *)
PassesDisabled(line) ==
    /\ line < 8
    /\ line = rtc_interrupt_line => EnableRtcInterrupt(irq_status)
    /\ DisableCurrentLevel(irq_status) => line < CurrentLevel(irq_status)

(* irq_controller_irq: does a request on this line reach the CPU?          *)
Passes(line) ==
    /\ line < 8
    /\ EnableIrqController(irq_status)
    /\ line = rtc_interrupt_line => EnableRtcInterrupt(irq_status)
    /\ DisableCurrentLevel(irq_status) => line < CurrentLevel(irq_status)

(* Mutant: i8080_interrupt does not test status.interrupt.                 *)
LatchesAlways(line) == Passes(line)

(* i8080_interrupt: the latch is written only while interrupts are on.     *)
Latches(line) == Passes(line) /\ interrupt

-----------------------------------------------------------------------------
Init ==
    /\ code \in Programs
    /\ pc = 0
    /\ stack = <<>>
    /\ interrupt = FALSE
    /\ interrupt_status = FALSE
    /\ interrupt_request = FALSE
    /\ interrupt_instruction = 0
    /\ data_bus = [op |-> "NOP", arg |-> 0]
    /\ irq_status = 0
    /\ rtc_interrupt_line \in RtcLines
    /\ serial1_interrupt_line \in SerialLines
    /\ at = "test"
    /\ raises = 0
    /\ served = 1
    /\ windowed = FALSE
    /\ taken = 0
    /\ stray = 0
    /\ late = 0
    /\ armed = FALSE

(* irq_controller_irq(line), then i8080_interrupt when it passes.          *)
Raise(line) ==
    /\ raises < MaxRaises
    /\ raises' = raises + 1
    /\ interrupt_request' = (interrupt_request \/ Latches(line))
    /\ interrupt_instruction' =
         IF Latches(line) THEN line ELSE interrupt_instruction
    /\ served' = IF Latches(line) THEN 0 ELSE served
    /\ windowed' = IF Latches(line) THEN at = "take" ELSE windowed
    /\ UNCHANGED <<guest, interrupt, interrupt_status, irq_status, wiring, at,
                   taken, stray, late, armed>>

(* HAL_TIM_PeriodElapsedCallback -> irq_rtc_fire.                          *)
RtcFire == Raise(rtc_interrupt_line)

(* CDC_Receive_FS -> serial1_add_data, with its receive interrupt enabled. *)
SerialReceive == Raise(serial1_interrupt_line)

-----------------------------------------------------------------------------
(* i8080_cycle, one step per access to state the handlers share.           *)

(* No request: fetch the instruction at pc.                                *)
Fetch ==
    /\ at = "test"
    /\ ~interrupt_request
    /\ data_bus' = code[pc]
    /\ at' = "execute"
    /\ UNCHANGED <<code, pc, stack, interrupt, interrupt_status, latch,
                   irq_status, wiring, history>>

(* A request: this cycle will inject an RST.                               *)
Notice ==
    /\ at = "test"
    /\ interrupt_request
    /\ at' = "clear"
    /\ taken' = taken + 1
    /\ stray' = IF interrupt THEN stray ELSE stray + 1
    /\ late' = IF EnableIrqController(irq_status) THEN late ELSE late + 1
    /\ UNCHANGED <<guest, interrupt, interrupt_status, latch, irq_status,
                   wiring, raises, served, windowed, armed>>

(* Mutant: the request is left standing when it is accepted.               *)
KeepRequest ==
    /\ at = "clear"
    /\ at' = "take"
    /\ UNCHANGED <<guest, interrupt, interrupt_status, latch, irq_status,
                   wiring, history>>

ClearRequest ==
    /\ at = "clear"
    /\ interrupt_request' = FALSE
    /\ at' = "take"
    /\ UNCHANGED <<guest, interrupt, interrupt_status, interrupt_instruction,
                   irq_status, wiring, history>>

TakeInstruction ==
    /\ at = "take"
    /\ data_bus' = [op |-> "RST", arg |-> interrupt_instruction]
    /\ served' = served + 1
    /\ at' = "mask"
    /\ UNCHANGED <<code, pc, stack, interrupt, interrupt_status, latch,
                   irq_status, wiring, raises, windowed, taken, stray, late,
                   armed>>

(* Mutant: interrupts stay on when a request is accepted.                  *)
MaskNothing ==
    /\ at = "mask"
    /\ pc' = IF TopByte # HltOpcode THEN Dec(pc) ELSE pc
    /\ at' = "execute"
    /\ UNCHANGED <<code, stack, data_bus, interrupt, interrupt_status, latch,
                   irq_status, wiring, history>>

(* Interrupts go off; pc is moved back for the RST that will push pc + 1,  *)
(* unless the byte under the stack pointer is a HLT opcode.                *)
Mask ==
    /\ at = "mask"
    /\ interrupt' = FALSE
    /\ pc' = IF TopByte # HltOpcode THEN Dec(pc) ELSE pc
    /\ at' = "execute"
    /\ UNCHANGED <<code, stack, data_bus, interrupt_status, latch, irq_status,
                   wiring, history>>

Executes(op) == at = "execute" /\ data_bus.op = op /\ at' = "zero"

Nop ==
    /\ Executes("NOP")
    /\ pc' = Inc(pc)
    /\ UNCHANGED <<code, stack, data_bus, interrupt, interrupt_status, latch,
                   irq_status, wiring, history>>

Ei ==
    /\ Executes("EI")
    /\ pc' = Inc(pc)
    /\ interrupt' = TRUE
    /\ taken' = 0
    /\ stray' = 0
    /\ armed' = TRUE
    /\ UNCHANGED <<code, stack, data_bus, interrupt_status, latch, irq_status,
                   wiring, raises, served, windowed, late>>

Di ==
    /\ Executes("DI")
    /\ pc' = Inc(pc)
    /\ interrupt' = FALSE
    /\ UNCHANGED <<code, stack, data_bus, interrupt_status, latch, irq_status,
                   wiring, history>>

(* Mutant: HLT waits inside the cycle, which then never ends.              *)
HltSpins ==
    /\ at = "execute"
    /\ data_bus.op = "HLT"
    /\ UNCHANGED vars

(* pc stays on the HLT, which is fetched again by the next cycle.          *)
Hlt ==
    /\ Executes("HLT")
    /\ UNCHANGED <<guest, interrupt, interrupt_status, latch, irq_status,
                   wiring, history>>

Rst ==
    /\ Executes("RST")
    /\ stack' = <<Inc(pc)>> \o stack
    /\ pc' = data_bus.arg * 8
    /\ UNCHANGED <<code, data_bus, interrupt, interrupt_status, latch,
                   irq_status, wiring, history>>

Call ==
    /\ Executes("CALL")
    /\ stack' = <<Inc(Inc(Inc(pc)))>> \o stack
    /\ pc' = data_bus.arg
    /\ UNCHANGED <<code, data_bus, interrupt, interrupt_status, latch,
                   irq_status, wiring, history>>

Ret ==
    /\ Executes("RET")
    /\ pc' = TopWord
    /\ stack' = IF stack = <<>> THEN stack ELSE Tail(stack)
    /\ UNCHANGED <<code, data_bus, interrupt, interrupt_status, latch,
                   irq_status, wiring, history>>

Jmp ==
    /\ Executes("JMP")
    /\ pc' = data_bus.arg
    /\ UNCHANGED <<code, stack, data_bus, interrupt, interrupt_status, latch,
                   irq_status, wiring, history>>

(* OUT to the port the controller is configured on: irq_controller_out.    *)
Out ==
    /\ Executes("OUT")
    /\ pc' = Inc(Inc(pc))
    /\ irq_status' = data_bus.arg
    /\ late' = IF EnableIrqController(data_bus.arg) THEN 0 ELSE late
    /\ UNCHANGED <<code, stack, data_bus, interrupt, interrupt_status, latch,
                   wiring, raises, served, windowed, taken, stray,
                   armed>>

Execute == Nop \/ Ei \/ Di \/ Hlt \/ Rst \/ Call \/ Ret \/ Jmp \/ Out

(* The status byte is saved and zeroed, its interrupt bit with it ...      *)
ZeroStatus ==
    /\ at = "zero"
    /\ interrupt_status' = interrupt
    /\ interrupt' = FALSE
    /\ at' = "restore"
    /\ UNCHANGED <<guest, latch, irq_status, wiring, history>>

(* ... and the bit is put back.                                            *)
RestoreInterrupt ==
    /\ at = "restore"
    /\ interrupt' = interrupt_status
    /\ at' = "test"
    /\ UNCHANGED <<guest, interrupt_status, latch, irq_status, wiring, history>>

Cycle == Fetch \/ Notice \/ ClearRequest \/ TakeInstruction \/ Mask \/ Execute
           \/ ZeroStatus \/ RestoreInterrupt

-----------------------------------------------------------------------------
(* The operator stops the machine between two cycles and presses RESET:    *)
(* config_read turns the controller off, then clears the CPU, then loads   *)
(* memory and the wiring from the configuration file.                      *)
ResetController ==
    /\ at = "test"
    /\ irq_status' = 0
    /\ at' = "reset"
    /\ UNCHANGED <<guest, interrupt, interrupt_status, latch, wiring, history>>

(* Mutant: only the registers are cleared by the reset.                    *)
KeepLatch == UNCHANGED latch

ClearLatch == interrupt_request' = FALSE /\ interrupt_instruction' = 0

ResetCpu ==
    /\ at = "reset"
    /\ code' \in Programs
    /\ rtc_interrupt_line' \in RtcLines
    /\ serial1_interrupt_line' \in SerialLines
    /\ pc' = 0
    /\ stack' = <<>>
    /\ interrupt' = FALSE
    /\ ClearLatch
    /\ data_bus' = [op |-> "NOP", arg |-> 0]
    /\ at' = "test"
    /\ served' = 1
    /\ windowed' = FALSE
    /\ taken' = 0
    /\ stray' = 0
    /\ late' = 0
    /\ armed' = FALSE
    /\ UNCHANGED <<interrupt_status, irq_status, raises>>

Reset == ResetController \/ ResetCpu

Next == RtcFire \/ SerialReceive \/ Cycle \/ Reset

Spec == Init /\ [][Next]_vars

(* The main loop always goes on; handlers and the operator owe nothing.    *)
FairSpec == Spec /\ WF_vars(Cycle \/ ResetCpu)

-----------------------------------------------------------------------------
(* DI leaves at most one interrupt in flight: after the guest has turned   *)
(* interrupts off, at most one more is accepted until its next EI, however *)
(* the handlers interleave with i8080_cycle.                               *)
AtMostOneStray == stray <= 1

(* One EI lets in one interrupt: whatever else is accepted before the next *)
(* EI is a stray, so a handler that never executes EI is entered on top of *)
(* itself at most once.                                                    *)
OneAcceptancePerEi == taken <= stray + 1

(* After irq_controller_out has turned the controller off, at most one     *)
(* interrupt is still accepted until it is turned on again.                *)
AtMostOneLate == late <= 1

(* A request is served.  Of the requests of all lines the latch holds the  *)
(* latest; one that was replaced there (intel8080.c:887-888) is never      *)
(* injected.  The RST of the latest one is injected before the latch is    *)
(* empty again, and injected once: only a request that comes between the   *)
(* clearing of interrupt_request and the reading of the vector (1295-1296) *)
(* is injected twice, now and in the cycle that finds its request still    *)
(* standing, and none a third time.  An empty latch injects nothing.       *)
RequestServedOnce ==
    /\ served <= IF windowed THEN 2 ELSE 1
    /\ ~interrupt_request /\ at # "take" => served >= 1

(* From power-on or RESET to its first EI the guest is not interrupted,    *)
(* whatever was pending when the operator pressed RESET and whichever      *)
(* handlers run while the configuration is read.                           *)
QuietUntilEi == ~armed => taken = 0

(* A latched request does not stand for ever: some cycle accepts it (or a  *)
(* reset discards it), however often the handlers interrupt the main loop. *)
RequestIsTaken == interrupt_request ~> ~interrupt_request

-----------------------------------------------------------------------------
(* What the comments of the code say and the code does not do.             *)

(* intel8080.h:138 calls i8080_interrupt safe to call from interrupts: a   *)
(* request that reaches the CPU while the guest has interrupts on is       *)
(* latched, at whatever step of the cycle it arrives.                      *)
GuestEnabled == interrupt \/ (at = "restore" /\ interrupt_status)
EnabledRaiseIsLatched ==
    [][\A line \in {rtc_interrupt_line, serial1_interrupt_line} :
         Raise(line) /\ Passes(line) /\ GuestEnabled => interrupt_request']_vars

(* intel8080.c:1300-1302: unless the CPU sits on a HLT, an accepted        *)
(* interrupt continues on the current instruction: the word its RST pushes *)
(* is the pc it was accepted at.                                           *)
ContinuesCurrentInstruction ==
    [][Mask /\ code[pc].op # "HLT" => Inc(pc') = pc]_vars
=============================================================================
