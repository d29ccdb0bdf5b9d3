-------------------------------- MODULE Leds --------------------------------
(***************************************************************************)
(* The LEDs of the front panel.  SysTick ORs the buses of the CPU into     *)
(* three accumulators (callbacks.c); the loops of altair_main.c send the   *)
(* accumulators and clear them; SPI_write_leds (spi.c) puts four bytes     *)
(* into a buffer, pulls the latch low and starts a DMA transfer of the     *)
(* buffer, whose end raises the latch: the LEDs then show what the shift   *)
(* register holds.  Nothing is locked and nothing waits for the DMA.       *)
(*                                                                         *)
(* The main loop is cut at every access to an accumulator, the buffer, the *)
(* latch or the driver.  An accumulator is the set of the samples whose    *)
(* bits it has: the Samples, whose way is followed, and "other" for any    *)
(* number of others.  A byte in the buffer, in the shift register or at    *)
(* the LEDs is the argument of the latest call that it comes from, or      *)
(* "old".                                                                  *)
(***************************************************************************)
EXTENDS Integers, Sequences

CONSTANTS
    Samples,    \* bound: the samples of the buses that are followed
    Marks,      \* bound: the accumulators in which such a sample has bits
    Flashes     \* rounds of the pattern that read_cfg flashes, 5

Fields == {"address", "data", "status"}

ASSUME LedsAssumption ==
    /\ Flashes \in Nat
    /\ Marks \subseteq (SUBSET Fields) \ {{}}
    /\ "other" \notin Samples

(* Mutant: the buffer begins with the data.                                *)
LayoutSwapped == <<"data", "status", "address", "address">>

(* The order of the bytes in the buffer.                                   *)
Layout == <<"status", "data", "address", "address">>

(* The order of the bytes in the shift registers of the panel.             *)
Panel == <<"status", "data", "address", "address">>
Dark == [f \in Fields |-> {}]
Old == [i \in 1 .. 4 |-> "old"]

VARIABLES
    acc,        \* the accumulators address, data and status
    step,       \* the next step of the main loop
    arg,        \* the arguments of the call that is being prepared
    unread,     \* the accumulators that a call has still to read
    script,     \* the calls that a RESET has still to make, and the latest
    ending,     \* where it goes on then
    led_data,   \* the buffer
    stored,     \* how many bytes a call has stored there
    spi,        \* the state of the driver
    fetched,    \* how many bytes the DMA has taken from the buffer
    shift,      \* the shift register
    latch,      \* the level of the LATCH line
    shown,      \* what the LEDs show
    calm,       \* history: the driver was ready when the latest call began to
                \* store, and its transfer has not failed
    bits,       \* history: where each sample had bits
    window,     \* history: samples taken while the accumulators were sent, or
                \* thrown away by a RESET
    sent        \* history: the bits of each sample that each call was given

main == <<step, unread, arg, script, ending>>
wire == <<led_data, stored, spi, fetched, shift, latch, shown, calm>>
samples == <<bits, window, sent>>
ledsVars == <<acc, main, wire, samples>>

(* A pattern that flashes is followed by a delay.                          *)
Calls == {"flash", "plain"}
Buffers == [1 .. 4 -> Fields \cup {"old"}]

LedsTypeOK ==
    /\ acc \in [Fields -> SUBSET (Samples \cup {"other"})]
    /\ step \in {"idle", "test_data", "test_status", "read", "call", "store",
               "latch", "transmit", "next", "delay",
               "clear_status", "clear_data", "clear_address"}
    /\ unread \subseteq Fields
    /\ arg \in [Fields -> SUBSET (Samples \cup {"other"})]
    /\ script \in Seq(Calls) /\ script # <<>>
    /\ ending \in {"idle", "clear_status"}
    /\ led_data \in Buffers /\ shift \in Buffers /\ shown \in Buffers
    /\ stored \in 0 .. 3 /\ fetched \in 0 .. 4
    /\ spi \in {"ready", "busy_tx"}
    /\ latch \in {"low", "high"}
    /\ calm \in BOOLEAN
    /\ bits \in [Samples -> SUBSET Fields]
    /\ window \subseteq Samples
    /\ sent \in [Samples -> Seq(SUBSET Fields)]

-----------------------------------------------------------------------------
(* What read_cfg sends: the flashing patterns and a dark one if the        *)
(* configuration cannot be read, and nothing otherwise.                    *)
ConfigScripts == {<<>>, [i \in 1 .. 2 * Flashes |-> "flash"] \o <<"plain">>}

(* altair_main darkens the panel and reads the configuration.              *)
LedsInit ==
    /\ acc = Dark
    /\ step = "next"
    /\ unread = {} /\ arg = Dark
    /\ \E s \in ConfigScripts : script = <<"plain", "plain">> \o s
    /\ ending = "idle"
    /\ led_data = Old /\ stored = 0
    /\ spi = "ready" /\ fetched = 0
    /\ shift = Old
    /\ latch = "low"
    /\ shown = Old
    /\ calm = FALSE
    /\ bits = [s \in Samples |-> {}]
    /\ window = {}
    /\ sent = [s \in Samples |-> <<>>]

(* Between the test of the first accumulator and the clearing of the last, *)
(* or while a RESET sends its patterns, after which they are cleared.      *)
InWindow == ending = "clear_status" /\ step # "idle"

(* HAL_SYSTICK_Callback, for a sample that is followed and for another.    *)
Accumulate(s, b) ==
    acc' = [f \in Fields |-> IF f \in b THEN acc[f] \cup {s} ELSE acc[f]]

SysTick ==
    \E s \in {x \in Samples : bits[x] = {}}, b \in Marks :
        /\ Accumulate(s, b)
        /\ bits' = [bits EXCEPT ![s] = b]
        /\ window' = IF InWindow THEN window \cup {s} ELSE window
        /\ UNCHANGED <<main, wire, sent>>

SysTickOther ==
    /\ Accumulate("other", Fields)
    /\ UNCHANGED <<main, wire, samples>>

-----------------------------------------------------------------------------
(* Mutant: && in place of ||.                                              *)
TestAll(here, f, otherwise) ==
    /\ step = here
    /\ step' = IF acc[f] = {} THEN "clear_status"
             ELSE IF here = "test_status" THEN "read" ELSE otherwise
    /\ unread' = Fields
    /\ ending' = "clear_status"
    /\ UNCHANGED <<acc, arg, script, wire, samples>>

(* if(address || data || status): the first that is not zero decides.      *)
Test(here, f, otherwise) ==
    /\ step = here
    /\ IF acc[f] # {} THEN step' = "read" /\ unread' = Fields
                      ELSE step' = otherwise /\ UNCHANGED unread
    /\ ending' = "clear_status"
    /\ UNCHANGED <<acc, arg, script, wire, samples>>

TestAddress == Test("idle", "address", "test_data")
TestData    == Test("test_data", "data", "test_status")
TestStatus  == Test("test_status", "status", "clear_status")

(* The arguments are read in an order that C leaves to the compiler.       *)
ReadArgument ==
    /\ step = "read"
    /\ \E f \in unread :
        /\ unread' = unread \ {f}
        /\ arg' = [arg EXCEPT ![f] = acc[f]]
    /\ step' = IF unread' = {} THEN "call" ELSE "read"
    /\ UNCHANGED <<acc, script, ending, wire, samples>>

(* The samples that are in the arguments of a call.                        *)
Call ==
    /\ step = "call"
    /\ sent' = [s \in Samples |->
                  LET fs == {f \in Fields : s \in arg[f]}
                  IN  IF fs = {} THEN sent[s] ELSE Append(sent[s], fs)]
    /\ arg' = Dark
    /\ step' = "store"
    /\ UNCHANGED <<acc, unread, script, ending, wire, bits, window>>

-----------------------------------------------------------------------------
(* SPI_write_leds: four stores ...                                         *)
StoreByte ==
    /\ step = "store"
    /\ IF stored = 0
       THEN /\ led_data' = [Old EXCEPT ![1] = Layout[1]]
            /\ shift' = Old /\ shown' = Old
            /\ calm' = (spi = "ready")
       ELSE /\ led_data' = [led_data EXCEPT ![stored + 1] = Layout[stored + 1]]
            /\ UNCHANGED <<shift, shown, calm>>
    /\ stored' = (stored + 1) % 4
    /\ step' = IF stored = 3 THEN "latch" ELSE "store"
    /\ UNCHANGED <<acc, unread, arg, script, ending, spi, fetched, latch, samples>>

(* ... the latch ...                                                       *)
LatchLow ==
    /\ step = "latch"
    /\ latch' = "low"
    /\ step' = "transmit"
    /\ UNCHANGED <<acc, unread, arg, script, ending, led_data, stored, spi,
                   fetched, shift, shown, calm, samples>>

(* ... and the transfer, unless one is under way (HAL_BUSY, which nobody   *)
(* looks at).  read_cfg waits after a pattern that flashes.                *)
Transmit ==
    /\ step = "transmit"
    /\ IF spi = "ready" THEN spi' = "busy_tx" /\ fetched' = 0
                        ELSE UNCHANGED <<spi, fetched>>
    /\ step' = IF Head(script) = "flash" THEN "delay" ELSE "next"
    /\ UNCHANGED <<acc, unread, arg, script, ending, led_data, stored, shift,
                   latch, shown, calm, samples>>

(* HAL_Delay(100), which outlasts a transfer of four bytes.                *)
Delay ==
    /\ step = "delay"
    /\ spi = "ready"
    /\ step' = "next"
    /\ UNCHANGED <<acc, unread, arg, script, ending, wire, samples>>

(* read_cfg and RESET make their next call, or are done.                   *)
NextCall ==
    /\ step = "next"
    /\ IF Len(script) = 1
       THEN step' = ending /\ UNCHANGED script
       ELSE step' = "store" /\ script' = Tail(script)
    /\ UNCHANGED <<acc, unread, arg, ending, wire, samples>>

(* RESET: read_cfg, the buses of the CPU, and the accumulators are cleared *)
(* without being sent.                                                     *)
Reset ==
    /\ step = "idle"
    /\ \E s \in ConfigScripts : script' = <<"plain">> \o s \o <<"plain">>
    /\ step' = "next"
    /\ ending' = "clear_status"
    /\ window' = window \cup UNION {acc[f] \ {"other"} : f \in Fields}
    /\ UNCHANGED <<acc, unread, arg, wire, bits, sent>>

(* address = data = status = 0, from the right to the left.                *)
Clear(here, f, after) ==
    /\ step = here
    /\ acc' = [acc EXCEPT ![f] = {}]
    /\ step' = after
    /\ UNCHANGED <<unread, arg, script, ending, wire, samples>>

ClearStatus  == Clear("clear_status", "status", "clear_data")
ClearData    == Clear("clear_data", "data", "clear_address")
ClearAddress == Clear("clear_address", "address", "idle")

-----------------------------------------------------------------------------
(* The DMA takes a byte from the buffer for the shift register.            *)
Fetch ==
    /\ spi = "busy_tx" /\ fetched < 4
    /\ shift' = [i \in 1 .. 4 |-> IF i < 4 THEN shift[i + 1]
                                           ELSE led_data[fetched + 1]]
    /\ fetched' = fetched + 1
    /\ UNCHANGED <<acc, main, led_data, stored, spi, latch, shown, calm, samples>>

(* The rising edge of the latch shows the shift register.                  *)
RaiseLatch ==
    /\ latch' = "high"
    /\ shown' = IF latch = "low" THEN shift ELSE shown

(* SPI_DMATransmitCplt and HAL_SPI_TxCpltCallback.                         *)
Complete ==
    /\ spi = "busy_tx" /\ fetched = 4
    /\ spi' = "ready"
    /\ RaiseLatch
    /\ UNCHANGED <<acc, main, led_data, stored, fetched, shift, calm, samples>>

(* Mutant: a failure leaves the latch alone, as the end of an abort does.  *)
TransferErrorLow ==
    /\ spi = "busy_tx" /\ fetched < 4
    /\ spi' = "ready"
    /\ calm' = FALSE
    /\ UNCHANGED <<acc, main, led_data, stored, fetched, shift, latch, shown,
                   samples>>

(* SPI_DMAError and HAL_SPI_ErrorCallback.                                 *)
TransferError ==
    /\ spi = "busy_tx" /\ fetched < 4
    /\ spi' = "ready"
    /\ RaiseLatch
    /\ calm' = FALSE
    /\ UNCHANGED <<acc, main, led_data, stored, fetched, shift, samples>>

Main == \/ TestAddress \/ TestData \/ TestStatus \/ ReadArgument \/ Call
        \/ StoreByte \/ LatchLow \/ Transmit \/ Delay \/ NextCall
        \/ ClearStatus \/ ClearData \/ ClearAddress
Dma  == Fetch \/ Complete \/ TransferError

LedsNext == Main \/ Reset \/ SysTick \/ SysTickOther \/ Dma

LedsSpec == LedsInit /\ [][LedsNext]_ledsVars

(* The main loop and the DMA always go on.                                 *)
LedsFairSpec == LedsSpec /\ WF_ledsVars(Main) /\ WF_ledsVars(Dma)

-----------------------------------------------------------------------------
(* A call that begins when the driver is ready is shown, as a whole, once  *)
(* its transfer has ended, until the next call begins (spi.c:9-12).  Calls *)
(* that overlap a transfer, as the one at altair_main.c:125 does after a   *)
(* failed configuration, may be shown in part or not at all.               *)
CalmCallShows ==
    calm /\ spi = "ready" /\ step \notin {"latch", "transmit"} /\ stored = 0
        => shown = Panel

(* However SysTick falls between the tests, the reads and the clearing of  *)
(* the accumulators, no sample appears in two patterns; and one that comes *)
(* outside of that window is in one pattern, with all of its bits, once it *)
(* has left the accumulators.                                              *)
SamplesOnce ==
    \A s \in Samples :
        /\ Len(sent[s]) <= 1
        /\ bits[s] # {} /\ s \notin window /\ step = "idle" =>
             LET held == {f \in Fields : s \in acc[f]}
             IN  \/ held = bits[s] /\ sent[s] = <<>>
                 \/ held = {} /\ sent[s] = <<bits[s]>>

(* The latch is never left low: whoever finds the driver busy relies on    *)
(* the end, or the failure, of the transfer before.                        *)
LatchComesBack == latch = "low" ~> latch = "high"
=============================================================================
