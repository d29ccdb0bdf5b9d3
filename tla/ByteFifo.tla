------------------------------ MODULE ByteFifo ------------------------------
(***************************************************************************)
(* What the receive buffer of serial port 1 promises, without its ring: a  *)
(* bounded first-in first-out queue of the bytes it accepted, numbered     *)
(* 1, 2, 3, ... in the order of their arrival.  The one deviation is named *)
(* Lap: a byte that arrives at the wrong moment empties the queue, and may *)
(* take the place of the byte that is just being read.                     *)
(***************************************************************************)
EXTENDS Naturals, Sequences

CONSTANTS
    Capacity,   \* bytes the queue holds
    MaxBytes    \* bound: bytes accepted in one behaviour

VARIABLES
    queue,      \* the bytes that were accepted and not yet taken
    got,        \* the byte taken last, 0 if none
    accepted    \* how many bytes were accepted

vars == <<queue, got, accepted>>

Init == queue = <<>> /\ got = 0 /\ accepted = 0

Accept == accepted < MaxBytes /\ accepted' = accepted + 1

Put ==
    /\ Len(queue) < Capacity
    /\ Accept
    /\ queue' = Append(queue, accepted')
    /\ UNCHANGED got

Get ==
    /\ queue # <<>>
    /\ got' = Head(queue)
    /\ queue' = Tail(queue)
    /\ UNCHANGED accepted

Lap ==
    /\ Len(queue) = Capacity
    /\ Accept
    /\ queue' = <<>>
    /\ got' \in {got, accepted'}

Next == Put \/ Get \/ Lap

Spec == Init /\ [][Next]_vars
=============================================================================
