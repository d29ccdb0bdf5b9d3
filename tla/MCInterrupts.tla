---------------------------- MODULE MCInterrupts ----------------------------
(* Guest programs for TLC: images of 128 bytes in which every byte that is *)
(* not given is a NOP, as the operand bytes of the longer instructions are.*)
EXTENDS Interrupts, TLC

MCSpace == 128

Op(op) == [op |-> op, arg |-> 0]
OpArg(op, arg) == [op |-> op, arg |-> arg]

Image(bytes) ==
    [a \in 0 .. MCSpace - 1 |->
        IF a \in DOMAIN bytes THEN bytes[a] ELSE Op("NOP")]

(* The handlers of lines 6 and 7 (RST 6 and RST 7): the first returns with *)
(* interrupts on, the second first turns the controller off and on.        *)
Handlers ==
    (48 :> Op("EI")) @@ (49 :> Op("RET")) @@
    (56 :> OpArg("OUT", 0)) @@ (58 :> OpArg("OUT", 192)) @@
    (60 :> Op("EI")) @@ (61 :> Op("RET"))

(* Turns the controller on, calls a subroutine with a critical section     *)
(* (from 73H, so that the return address ends in 76H), then halts.         *)
Caller ==
    Image(Handlers @@
      (0 :> OpArg("OUT", 192)) @@ (2 :> Op("EI")) @@ (3 :> OpArg("JMP", 115)) @@
      (115 :> OpArg("CALL", 96)) @@ (118 :> Op("HLT")) @@
      (119 :> OpArg("JMP", 115)) @@
      (96 :> Op("DI")) @@ (97 :> Op("EI")) @@ (98 :> Op("RET")))

(* A tight loop of critical sections at the start of memory, with level    *)
(* checking on: only lines below 7 pass.                                   *)
Loop ==
    Image(Handlers @@
      (0 :> Op("EI")) @@ (1 :> OpArg("OUT", 207)) @@ (3 :> Op("DI")) @@
      (4 :> OpArg("RST", 4)) @@ (5 :> OpArg("JMP", 0)) @@
      (32 :> Op("RET")))

MCPrograms == {Caller, Loop}
MCRtcLines == {6, 255}
MCSerialLines == {7}
=============================================================================
