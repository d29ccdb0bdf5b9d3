----------------------------- MODULE SerialPort -----------------------------
(***************************************************************************)
(* Serial port 1 (serial.c) between a terminal at the other end of the USB *)
(* cable and a guest program that echoes what it reads.  The ring between  *)
(* them is module RxBuffer, whose actions are steps of this module's.      *)
(*                                                                         *)
(* The USB handler requests the serial interrupt once for each packet and  *)
(* then pushes its bytes; the main loop does not run until it is done.     *)
(* The guest either polls the status of the port, or serves interrupts:    *)
(* its serial routine reads until the status says that nothing is left.    *)
(* What it writes is copied to the transmit buffer before the driver is    *)
(* asked, for 20 ms, to send it (usb.c).                                   *)
(*                                                                         *)
(* The CPU latches one request.  The real time clock uses the same latch:  *)
(* its request replaces one of the serial port that has not been taken,    *)
(* and the other way round.  The guest knows the two by their vectors, and *)
(* its clock routine does nothing here.  An acceptance is cut where        *)
(* handlers can come between its accesses to the latch (module Interrupts);*)
(* a request latched there is taken again on the first instruction of the  *)
(* routine.  A routine that was called within another returns with         *)
(* interrupts off, the outer one turns them on.                            *)
(***************************************************************************)
EXTENDS RxBuffer

CONSTANT
    MaxPacket       \* bound: bytes of a packet, 64

ASSUME SerialPortAssumption == MaxPacket \in Nat \ {0}

VARIABLES
    guest,                  \* "polls" or "serves" interrupts
    pc,                     \* where the guest is
    interrupts,             \* the guest has interrupts enabled
    interrupt_request,      \* cpu.interrupt_request
    interrupt_instruction,  \* cpu.interrupt_instruction, by who asked
    routine, outer,         \* the routine the guest is in, and the one that
                            \* was interrupted by it
    rx_interrupt_enabled,   \* serial1_rx_interrupt_enabled
    packet,                 \* bytes that the handler has still to push
    missed,                 \* history: no request was latched for the latest
                            \* packet, or the clock's has replaced it
    tx_buffer,              \* UserTxBufferFS: the number of the byte there
    fifo,                   \* the byte in the endpoint's FIFO, 0 if TxState
                            \* is 0
    host,                   \* history: the byte the terminal has received last
    lost                    \* history: bytes given up after 20 ms

latch == <<interrupt_request, interrupt_instruction>>
nest  == <<routine, outer>>
irq   == <<interrupts, latch, nest, rx_interrupt_enabled, missed>>
tx    == <<tx_buffer, fifo, host, lost>>
serialVars == <<vars, guest, pc, packet, irq, tx>>

Numbers == 0 .. MaxBytes
Sources == {"none", "serial", "rtc"}

SerialTypeOK ==
    /\ TypeOK
    /\ guest \in {"polls", "serves"}
    /\ pc \in {"main", "take", "mask", "status", "in", "copy", "ask", "ret"}
    /\ step # "idle" => pc = "in"
    /\ interrupts \in BOOLEAN /\ interrupt_request \in BOOLEAN
    /\ interrupt_instruction \in Sources
    /\ routine \in Sources /\ outer \in Sources
    /\ rx_interrupt_enabled \in BOOLEAN
    /\ missed \in BOOLEAN
    /\ packet \in 0 .. MaxPacket
    /\ tx_buffer \in Numbers /\ fifo \in Numbers /\ host \in Numbers
    /\ lost \subseteq Numbers

SerialInit ==
    /\ Init
    /\ guest \in {"polls", "serves"}
    /\ pc = IF guest = "polls" THEN "status" ELSE "main"
    /\ interrupts = FALSE
    /\ interrupt_request = FALSE
    /\ interrupt_instruction = "none" /\ routine = "none" /\ outer = "none"
    /\ rx_interrupt_enabled = FALSE
    /\ packet = 0
    /\ missed = FALSE
    /\ tx_buffer = 0 /\ fifo = 0 /\ host = 0
    /\ lost = {}

-----------------------------------------------------------------------------
(* The handler: serial1_add_data.  Whatever request stands is replaced.    *)
Enabled == rx_interrupt_enabled /\ interrupts

Receive ==
    /\ packet = 0
    /\ accepted < MaxBytes
    /\ packet' \in 1 .. MaxPacket
    /\ \E latched \in {Enabled, FALSE} :
        /\ interrupt_request' = (interrupt_request \/ latched)
        /\ interrupt_instruction' =
             IF latched THEN "serial" ELSE interrupt_instruction
        /\ missed' = ~latched
    /\ UNCHANGED <<vars, guest, pc, interrupts, nest, rx_interrupt_enabled,
                   tx>>

PushByte ==
    /\ packet > 0
    /\ Push
    /\ packet' = packet - 1
    /\ UNCHANGED <<guest, pc, irq, tx>>

(* The first byte that is not accepted ends the loop (MaxBytes as well).   *)
PushFails ==
    /\ packet > 0
    /\ IsFull \/ accepted = MaxBytes
    /\ packet' = 0
    /\ UNCHANGED <<vars, guest, pc, irq, tx>>

(* A request of the port that i8080_cycle has not taken: it still stands,  *)
(* or has been cleared, but its instruction not yet read.                  *)
Pending ==
    interrupt_instruction = "serial" /\ (interrupt_request \/ pc = "take")

(* The other handler that writes the latch, the tick of the RTC.           *)
RtcFire ==
    /\ packet = 0
    /\ \E latched \in {interrupts, FALSE} :
        /\ interrupt_request' = (interrupt_request \/ latched)
        /\ interrupt_instruction' =
             IF latched THEN "rtc" ELSE interrupt_instruction
        /\ missed' = (missed \/ (latched /\ Pending /\ routine # "serial"))
    /\ UNCHANGED <<vars, guest, pc, interrupts, nest, rx_interrupt_enabled,
                   packet, tx>>

Handler == Receive \/ PushByte \/ PushFails \/ RtcFire

-----------------------------------------------------------------------------
(* The handler is not running and the guest is at p; with a request it is  *)
(* interrupted there before its next instruction.                          *)
At(p)   == packet = 0 /\ pc = p
Runs(p) == At(p) /\ ~interrupt_request

(* Mutants: the status tells of room in place of bytes; it overlooks the   *)
(* last byte.                                                              *)
RdrfIfRoom == ~IsFull
RdrfEarly == ~IsEmpty /\ head # Reduced(tail + 1)

(* serial1_status.                                                         *)
RDRF == ~IsEmpty

Status ==
    /\ Runs("status")
    /\ pc' = CASE RDRF -> "in"
               [] ~RDRF /\ guest = "polls" -> "status"
               [] OTHER -> "ret"
    /\ UNCHANGED <<vars, guest, packet, irq, tx>>

(* serial1_in: the steps of buffer_pop, after the last of which the guest  *)
(* has the byte.                                                           *)
In ==
    /\ At("in")
    /\ Pop
    /\ pc' = IF step = "wrap" THEN "copy" ELSE "in"
    /\ UNCHANGED <<guest, packet, irq, tx>>

(* serial1_out and usb_transmit: memcpy ...                                *)
CopyByte ==
    /\ At("copy")
    /\ tx_buffer' = popped
    /\ pc' = "ask"
    /\ UNCHANGED <<vars, guest, packet, irq, fifo, host, lost>>

(* Mutant: the driver sends while it is busy.                              *)
SendBusy ==
    /\ At("ask")
    /\ fifo' = tx_buffer
    /\ pc' = "status"
    /\ UNCHANGED <<vars, guest, packet, irq, tx_buffer, host, lost>>

(* ... and CDC_Transmit_FS, which puts a single byte into the FIFO at once *)
(* if TxState is 0 ...                                                     *)
Send ==
    /\ At("ask")
    /\ fifo = 0
    /\ fifo' = tx_buffer
    /\ pc' = "status"
    /\ UNCHANGED <<vars, guest, packet, irq, tx_buffer, host, lost>>

(* ... until 20 ms have passed; usb_transmit then says that all is well.   *)
GiveUp ==
    /\ At("ask")
    /\ fifo # 0
    /\ lost' = lost \cup {tx_buffer}
    /\ pc' = "status"
    /\ UNCHANGED <<vars, guest, packet, irq, tx_buffer, fifo, host>>

(* The guest outside of its routines.  DI may have begun when a request    *)
(* comes.                                                                  *)
EnableInterrupts ==
    /\ Runs("main")
    /\ interrupts' = TRUE
    /\ UNCHANGED <<vars, guest, pc, packet, latch, nest, rx_interrupt_enabled,
                   missed, tx>>

DisableInterrupts ==
    /\ At("main")
    /\ interrupts' = FALSE
    /\ UNCHANGED <<vars, guest, pc, packet, latch, nest, rx_interrupt_enabled,
                   missed, tx>>

(* serial1_control.                                                        *)
Control ==
    /\ Runs("main")
    /\ rx_interrupt_enabled' \in BOOLEAN
    /\ UNCHANGED <<vars, guest, pc, packet, interrupts, latch, nest, missed,
                   tx>>

-----------------------------------------------------------------------------
(* i8080_cycle accepts a request: it clears it ...                         *)
Clear ==
    /\ \E p \in {"main", "status", "ret"} : At(p)
    /\ interrupt_request
    /\ interrupt_request' = FALSE
    /\ pc' = "take"
    /\ UNCHANGED <<vars, guest, packet, interrupts, interrupt_instruction,
                   nest, rx_interrupt_enabled, missed, tx>>

(* ... reads the instruction, which another request may have replaced ...  *)
Take ==
    /\ At("take")
    /\ routine' = interrupt_instruction
    /\ outer' = routine
    /\ pc' = "mask"
    /\ UNCHANGED <<vars, guest, packet, interrupts, latch,
                   rx_interrupt_enabled, missed, tx>>

(* ... turns interrupts off, and executes it.                              *)
First(r) == IF r = "serial" THEN "status" ELSE "ret"

Mask ==
    /\ At("mask")
    /\ interrupts' = FALSE
    /\ pc' = First(routine)
    /\ UNCHANGED <<vars, guest, packet, latch, nest, rx_interrupt_enabled,
                   missed, tx>>

(* The end of a routine: of the outer one, the guest executes EI.          *)
Return ==
    /\ Runs("ret")
    /\ routine' = outer
    /\ outer' = "none"
    /\ interrupts' = (interrupts \/ outer = "none")
    /\ pc' = IF outer = "none" THEN "main" ELSE First(outer)
    /\ UNCHANGED <<vars, guest, packet, latch, rx_interrupt_enabled, missed,
                   tx>>

Accept == Clear \/ Take \/ Mask
Serve  == Status \/ In \/ CopyByte \/ Send \/ GiveUp \/ Return \/ Accept
Guest  == Serve \/ EnableInterrupts \/ DisableInterrupts \/ Control

(* The terminal takes the byte from the FIFO; USBD_CDC_DataIn.             *)
HostTakes ==
    /\ packet = 0
    /\ fifo # 0
    /\ host' = fifo
    /\ fifo' = 0
    /\ UNCHANGED <<vars, guest, pc, packet, irq, tx_buffer, lost>>

SerialNext == Handler \/ Guest \/ HostTakes

SerialSpec == SerialInit /\ [][SerialNext]_serialVars

(* A handler that has begun ends.  Packets leave time for the main loop    *)
(* between them, and a terminal that has the port open takes what is sent: *)
(* both are interrupted again and again, hence the strong fairness.        *)
SerialFairSpec ==
    /\ SerialSpec
    /\ WF_serialVars(PushByte \/ PushFails)
    /\ SF_serialVars(Serve)
    /\ SF_serialVars(HostTakes)

-----------------------------------------------------------------------------
(* RDRF holds until the guest reads: IN after a status with RDRF finds a   *)
(* byte, whatever arrives in between (serial.c:46-60).                     *)
RdrfMeansByte == pc = "in" /\ step = "idle" => ~IsEmpty

(* The guest is going to look for bytes: a request of the port will be     *)
(* taken, or a serial routine has not yet seen the ring empty.             *)
Attended ==
    Pending \/ (routine = "serial" /\ pc # "ret") \/ outer = "serial"

(* With a guest that serves interrupts no byte waits unless the guest is   *)
(* going to look, or the request of the latest packet was not latched, or  *)
(* was replaced by the clock's before the CPU took it (intel8080.c:887):   *)
(* the interrupt is raised once per packet and never again                 *)
(* (serial.c:85-88).                                                       *)
NoByteWaitsUnsignalled ==
    guest = "serves" /\ packet = 0 /\ ~IsEmpty /\ ~missed => Attended

(* Every byte accepted comes to a guest that polls, and to one that serves *)
(* interrupts unless the request of the latest packet was dropped or       *)
(* replaced; the ring may be lapped in either case.                        *)
Served ==
    \A n \in 1 .. MaxBytes :
        accepted >= n ~> \/ popped >= n \/ lapped
                         \/ guest = "serves" /\ missed

(* The terminal sees the bytes the guest has read in order, each at most   *)
(* once: what is being sent stays until the terminal has taken it,         *)
(* whatever is copied to the transmit buffer meanwhile (usb.c:25), and     *)
(* each byte it takes is newer than the one before.                        *)
EchoInOrder ==
    [][fifo # 0 /\ fifo' # fifo => host < fifo /\ host' = fifo]_serialVars

(* It sees all of them, except for what was given up after 20 ms.          *)
Echoed ==
    \A n \in 1 .. MaxBytes : popped = n ~> host = n \/ n \in lost
=============================================================================
