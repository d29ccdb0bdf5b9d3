------------------------------ MODULE RxBuffer ------------------------------
(***************************************************************************)
(* The ring buffer of sys/buffer.c as serial port 1 uses it: the USB       *)
(* receive interrupt pushes (serial1_add_data), the guest's IN instruction *)
(* pops in the main loop (serial1_in).  Nothing locks the ring.            *)
(*                                                                         *)
(* The handler runs to its end between two steps of the main loop.  It     *)
(* pushes a packet byte by byte and gives up at the first byte that finds  *)
(* the ring full; nothing in between can make room, so a packet leaves     *)
(* what its bytes, arriving one at a time, would leave.  An action Push is *)
(* one byte.                                                               *)
(*                                                                         *)
(* buffer_pop is cut at each access to the volatile ring.  In              *)
(* data[tail++] C leaves it open whether the new tail is stored before or  *)
(* after the byte is read; both orders are modelled.  Bytes are numbered   *)
(* in the order they are accepted.                                         *)
(***************************************************************************)
EXTENDS Integers

CONSTANTS
    BufferSize,     \* BUFFER_SIZE; 256 in the code
    MaxBytes        \* bound: bytes pushed in one behaviour

ASSUME RxBufferAssumption ==
    /\ BufferSize \in Nat /\ BufferSize > 1
    /\ MaxBytes \in Nat

Slots == 0 .. BufferSize - 1

VARIABLES
    head,       \* buffer->head
    tail,       \* buffer->tail; BufferSize before pop has reduced it
    data,       \* buffer->data
    step,       \* where the main loop is in buffer_pop
    byte,       \* *c, the byte pop has read
    popped,     \* history: the byte the last finished pop returned, 0 if none
    accepted,   \* history: how many bytes were pushed
    lapped      \* history: a push has overrun the ring

vars == <<head, tail, data, step, byte, popped, accepted, lapped>>

(* How far the accesses of pop have come: it has found the ring not empty  *)
(* ("pop"); it has read the byte and must store tail + 1 ("advance"), or   *)
(* the other way round ("read"); it must reduce tail ("wrap").             *)
Steps == {"idle", "pop", "advance", "read", "wrap"}

TypeOK ==
    /\ head \in Slots
    /\ tail \in Slots \/ (tail = BufferSize /\ step \in {"read", "wrap"})
    /\ step = "read" => tail > 0
    /\ data \in [Slots -> Nat]
    /\ step \in Steps
    /\ byte \in Nat
    /\ popped \in Nat
    /\ accepted \in 0 .. MaxBytes
    /\ lapped \in BOOLEAN

-----------------------------------------------------------------------------
(* i % BUFFER_SIZE, for the i that occur.                                  *)
Reduced(i) == IF i = BufferSize THEN 0 ELSE i

IsEmpty == head = tail

(* Mutant: head + 1 is not reduced before it is compared.                  *)
IsFullUnreduced == head + 1 = tail

IsFull == Reduced(head + 1) = tail

Init ==
    /\ head = 0
    /\ tail = 0
    /\ data = [i \in Slots |-> 0]
    /\ step = "idle"
    /\ byte = 0
    /\ popped = 0
    /\ accepted = 0
    /\ lapped = FALSE

(* buffer_push, in the handler.  A full ring leaves everything as it is.   *)
Push ==
    /\ accepted < MaxBytes
    /\ ~IsFull
    /\ accepted' = accepted + 1
    /\ data' = [data EXCEPT ![head] = accepted']
    /\ head' = Reduced(head + 1)
    /\ lapped' = (lapped \/ Reduced(head + 1) = Reduced(tail))
    /\ UNCHANGED <<tail, step, byte, popped>>

(* buffer_pop, in the main loop; an empty ring returns at once.            *)
PopTest ==
    /\ step = "idle"
    /\ ~IsEmpty
    /\ step' = "pop"
    /\ UNCHANGED <<head, tail, data, byte, popped, accepted, lapped>>

ReadFirst ==
    /\ step = "pop"
    /\ byte' = data[tail]
    /\ step' = "advance"
    /\ UNCHANGED <<head, tail, data, popped, accepted, lapped>>

ThenAdvance ==
    /\ step = "advance"
    /\ tail' = tail + 1
    /\ step' = "wrap"
    /\ UNCHANGED <<head, data, byte, popped, accepted, lapped>>

AdvanceFirst ==
    /\ step = "pop"
    /\ tail' = tail + 1
    /\ step' = "read"
    /\ UNCHANGED <<head, data, byte, popped, accepted, lapped>>

(* Mutant: the byte is read at the advanced index (data[++tail]).          *)
ReadNext ==
    /\ step = "read"
    /\ byte' = data[Reduced(tail)]
    /\ step' = "wrap"
    /\ UNCHANGED <<head, tail, data, popped, accepted, lapped>>

ThenRead ==
    /\ step = "read"
    /\ byte' = data[tail - 1]
    /\ step' = "wrap"
    /\ UNCHANGED <<head, tail, data, popped, accepted, lapped>>

Wrap ==
    /\ step = "wrap"
    /\ tail' = Reduced(tail)
    /\ popped' = byte
    /\ step' = "idle"
    /\ UNCHANGED <<head, data, byte, accepted, lapped>>

Pop == PopTest \/ ReadFirst \/ ThenAdvance \/ AdvanceFirst \/ ThenRead \/ Wrap

Next == Push \/ Pop

Spec == Init /\ [][Next]_vars

-----------------------------------------------------------------------------
(* The bytes in the ring, oldest first: slot i holds the byte that is      *)
(* Distance(i) places behind the oldest.                                   *)
DistanceFrom(t, i) == IF i >= t THEN i - t ELSE i - t + BufferSize
Distance(i) == DistanceFrom(Reduced(tail), i)
Count == Distance(head)

(* The byte taken out of the ring last: pop has stored its new tail, even  *)
(* if it has not read the byte yet.                                        *)
Got == CASE step = "read" -> data[tail - 1]
         [] step = "wrap" -> byte
         [] OTHER         -> popped

(* The ring never shows the guest a slot that was not filled for it: the   *)
(* slots from tail to head hold consecutive bytes that end with the newest *)
(* accepted one, and the byte being popped is older than all of them.      *)
RingInOrder ==
    /\ \A i \in Slots :
         Distance(i) < Count => data[i] = accepted - Count + 1 + Distance(i)
    /\ Got <= accepted - Count

(* No byte is lost between push and pop, with a handler that pushes at any *)
(* step of pop and no lock, until a push laps the ring: everything         *)
(* accepted is either popped or still in the ring.                         *)
NothingLostBeforeLap == ~lapped => Got = accepted - Count

(* The ring is lapped only by a push that interrupts pop between its store *)
(* of tail = BUFFER_SIZE and the reduction of that tail to 0.              *)
LapsOnlyInWindow ==
    [][lapped' /\ ~lapped => tail = BufferSize /\ step \in {"read", "wrap"}]_vars

(* The guest sees the bytes in the order they arrived, none twice and none *)
(* invented, even when the ring is lapped.                                 *)
DeliveredInOrder == [][popped' # popped => popped < popped' /\ popped' <= accepted']_vars

(* The ring implements the queue of module ByteFifo.                       *)
Place(k) == IF Reduced(tail) + k > BufferSize
              THEN Reduced(tail) + k - 1 - BufferSize
              ELSE Reduced(tail) + k - 1
Queue == [k \in 1 .. Count |-> data[Place(k)]]

Fifo == INSTANCE ByteFifo
          WITH Capacity <- BufferSize - 1, queue <- Queue, got <- Got

ImplementsFifo == Fifo!Spec
=============================================================================
