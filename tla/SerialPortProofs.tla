-------------------------- MODULE SerialPortProofs --------------------------
(***************************************************************************)
(* Proofs about the ring of module RxBuffer, for every size of the ring    *)
(* and every number of bytes, and about module SerialPort, which uses it,  *)
(* for every size of a packet.                                             *)
(***************************************************************************)
EXTENDS SerialPort, SequenceTheorems, TLAPS

-----------------------------------------------------------------------------
(* Reducing an index, and stepping to the next slot, stays in the ring.    *)
LEMMA Slot ==
  /\ \A i \in Slots : i + 1 \in Nat /\ Reduced(i + 1) \in Slots /\ Reduced(i) = i
  /\ Reduced(BufferSize) = 0 /\ 0 \in Slots
BY RxBufferAssumption DEF Slots, Reduced

(* Type correctness: no push and no pop ever leaves the array, not even    *)
(* while tail is BUFFER_SIZE.                                              *)
THEOREM TypeCorrect == Spec => []TypeOK
<1>1. Init => TypeOK
  <2> SUFFICES ASSUME Init PROVE TypeOK
    OBVIOUS
  <2>1. lapped \in BOOLEAN /\ step \in Steps /\ step # "read"
    BY DEF Init, Steps
  <2>2. data \in [Slots -> Nat]
    BY DEF Init
  <2>3. /\ head \in Slots /\ tail \in Slots /\ byte \in Nat /\ popped \in Nat
        /\ accepted \in 0 .. MaxBytes
    BY RxBufferAssumption, Slot DEF Init
  <2> QED
    BY <2>1, <2>2, <2>3 DEF TypeOK
<1>2. TypeOK /\ [Next]_vars => TypeOK'
  <2> SUFFICES ASSUME TypeOK, [Next]_vars PROVE TypeOK'
    OBVIOUS
  <2>1. CASE Push
    <3>1. head' \in Slots
      BY <2>1, Slot DEF TypeOK, Push
    <3>2. accepted' \in 0 .. MaxBytes
      BY <2>1, RxBufferAssumption DEF TypeOK, Push
    <3>4. lapped' \in BOOLEAN
      BY <2>1 DEF TypeOK, Push
    <3>3. data' \in [Slots -> Nat]
      BY <2>1, <3>2 DEF TypeOK, Push
    <3> QED
      BY <2>1, <3>1, <3>2, <3>3, <3>4 DEF TypeOK, Push
  <2>2. CASE PopTest
    BY <2>2 DEF TypeOK, PopTest, Steps
  <2>3. CASE ReadFirst
    BY <2>3 DEF TypeOK, ReadFirst, Steps
  <2>4. CASE ThenAdvance
    BY <2>4, RxBufferAssumption DEF TypeOK, ThenAdvance, Steps, Slots
  <2>5. CASE AdvanceFirst
    BY <2>5, RxBufferAssumption DEF TypeOK, AdvanceFirst, Steps, Slots
  <2>6. CASE ThenRead
    <3>1. tail - 1 \in Slots
      BY <2>6, RxBufferAssumption DEF TypeOK, ThenRead, Slots
    <3> QED
      BY <2>6, <3>1 DEF TypeOK, ThenRead, Steps
  <2>7. CASE Wrap
    BY <2>7, Slot DEF TypeOK, Wrap, Steps
  <2>8. CASE UNCHANGED vars
    BY <2>8 DEF TypeOK, vars
  <2> QED
    BY <2>1, <2>2, <2>3, <2>4, <2>5, <2>6, <2>7, <2>8 DEF Next, Pop
<1> QED
  BY <1>1, <1>2, PTL DEF Spec

-----------------------------------------------------------------------------
(* The inductive invariant.  RingInOrder and NothingLostBeforeLap need to  *)
(* know, at each step of a pop, that there is a byte to pop, that the byte *)
(* read is the oldest one, and that it is newer than the last one popped.  *)
Oldest == accepted - Count + 1

PopInv ==
    /\ step \in {"pop", "advance"} => Count > 0
    /\ step = "advance" => byte = Oldest
    /\ step = "read" => popped < data[tail - 1]
    /\ step = "wrap" => popped < byte

IInv == RingInOrder /\ NothingLostBeforeLap /\ PopInv

(* Distances round the ring, from any slot t: they stay below its size,    *)
(* name each slot once, and change by one when either end moves on.        *)
LEMMA Distances ==
  ASSUME NEW t \in Slots
  PROVE  /\ \A i \in Slots : DistanceFrom(t, i) \in Slots
         /\ DistanceFrom(t, t) = 0
         /\ \A i, j \in Slots : DistanceFrom(t, i) = DistanceFrom(t, j) => i = j
         /\ \A i \in Slots : DistanceFrom(t, Reduced(i + 1)) =
              IF Reduced(i + 1) = t THEN 0 ELSE DistanceFrom(t, i) + 1
         /\ \A i \in Slots : DistanceFrom(Reduced(t + 1), i) =
              IF i = t THEN BufferSize - 1 ELSE DistanceFrom(t, i) - 1
BY RxBufferAssumption DEF DistanceFrom, Slots, Reduced

(* The slot the next pop reads, also while tail is BUFFER_SIZE.            *)
LEMMA TailSlot ==
  ASSUME TypeOK
  PROVE  Reduced(tail) \in Slots /\ (step = "read" => tail - 1 \in Slots)
<1>1. tail \in Slots \/ tail = BufferSize
  BY DEF TypeOK
<1>2. Reduced(tail) \in Slots
  BY <1>1, Slot
<1>3. ASSUME step = "read" PROVE tail - 1 \in Slots
  <2>1. tail > 0
    BY <1>3 DEF TypeOK
  <2> QED
    BY <1>1, <2>1, RxBufferAssumption DEF Slots
<1> QED
  BY <1>2, <1>3

LEMMA CountRange ==
  ASSUME TypeOK
  PROVE  Count \in Slots /\ \A i \in Slots : Distance(i) \in Slots
BY TailSlot, Distances DEF TypeOK, Count, Distance

LEMMA PushInv ==
  ASSUME TypeOK, IInv, Push
  PROVE  IInv'
<1> DEFINE t == Reduced(tail)
<1>1. /\ head \in Slots /\ t \in Slots /\ accepted \in Nat
      /\ popped \in Nat /\ byte \in Nat /\ data \in [Slots -> Nat]
  BY TailSlot DEF TypeOK
<1>2. /\ Reduced(tail)' = Reduced(tail) /\ accepted' = accepted + 1
      /\ head' = Reduced(head + 1)
      /\ data' = [data EXCEPT ![head] = accepted + 1]
      /\ UNCHANGED <<tail, step, byte, popped>>
  BY DEF Push, Reduced
<1>3. \A i \in Slots : Distance(i)' = Distance(i)
  BY <1>2 DEF Distance, DistanceFrom
<1>4. Count' = DistanceFrom(t, Reduced(head + 1)) /\ Count = DistanceFrom(t, head)
  BY <1>2 DEF Count, Distance, DistanceFrom
<1>5. Count \in Nat /\ \A i \in Slots : Distance(i) \in Nat
  BY CountRange DEF Slots
<1>6. CASE Reduced(head + 1) = t
  \* The ring is lapped: it looks empty now.
  <2>1. Count' = 0
    BY <1>1, <1>4, <1>6, Distances
  <2>2. lapped'
    BY <1>6 DEF Push
  <2>3. tail = BufferSize /\ step \in {"read", "wrap"}
    BY <1>6, Slot DEF Push, IsFull, TypeOK
  <2>4. head = BufferSize - 1
    BY <1>1, <1>6, <2>3, RxBufferAssumption DEF Slots, Reduced
  <2>5. CASE step = "read"
    <3>1. data[tail - 1] \in Nat /\ data[tail - 1] <= accepted - Count
      BY <1>1, <2>5, TailSlot DEF IInv, RingInOrder, Got
    <3>2. data'[tail - 1] = accepted + 1
      BY <1>1, <1>2, <2>3, <2>4
    <3>3. Got' = accepted + 1
      BY <1>2, <2>5, <3>2 DEF Got
    <3>4. RingInOrder'
      BY <1>1, <1>2, <1>3, <1>5, <2>1, <3>3 DEF RingInOrder
    <3>5. PopInv'
      BY <1>1, <1>2, <1>5, <2>5, <3>1, <3>2 DEF PopInv, IInv
    <3> QED
      BY <2>2, <3>4, <3>5 DEF IInv, NothingLostBeforeLap
  <2>6. CASE step = "wrap"
    <3>1. Got' = byte /\ byte <= accepted - Count
      BY <1>2, <2>6 DEF IInv, RingInOrder, Got
    <3>2. RingInOrder'
      BY <1>1, <1>2, <1>3, <1>5, <2>1, <3>1 DEF RingInOrder
    <3>3. PopInv'
      BY <1>2, <2>6 DEF PopInv, IInv
    <3> QED
      BY <2>2, <3>2, <3>3 DEF IInv, NothingLostBeforeLap
  <2> QED
    BY <2>3, <2>5, <2>6
<1>7. CASE Reduced(head + 1) # t
  <2>1. Count' = Count + 1
    BY <1>1, <1>4, <1>7, Distances
  <2>2. ~lapped' => ~lapped
    BY DEF Push
  <2>3. \A i \in Slots : i # head => Distance(i) # Count
    BY <1>1, <1>4, Distances DEF Distance
  <2>4. ASSUME step = "read" PROVE tail - 1 \in Slots /\ tail - 1 # head
    <3>1. tail - 1 \in Slots /\ tail \in Nat
      BY <2>4, TailSlot, RxBufferAssumption DEF TypeOK, Slots
    <3>2. Reduced(head + 1) # tail
      BY DEF Push, IsFull
    <3> QED
      BY <1>7, <3>1, <3>2 DEF Reduced
  <2>5. Got' = Got /\ (step = "read" => data'[tail - 1] = data[tail - 1])
    <3>1. ASSUME step = "read" PROVE data'[tail - 1] = data[tail - 1]
      BY <1>1, <1>2, <2>4, <3>1
    <3> QED
      BY <1>2, <3>1 DEF Got
  <2>6. RingInOrder'
    <3>1. ASSUME NEW i \in Slots, Distance(i) < Count + 1
          PROVE  data'[i] = accepted + 1 - (Count + 1) + 1 + Distance(i)
      <4>1. CASE i = head
        BY <1>1, <1>2, <1>5, <4>1 DEF Count
      <4>2. CASE i # head
        <5>1. Distance(i) < Count
          BY <1>5, <2>3, <3>1, <4>2
        <5>2. data'[i] = data[i] /\ data[i] = accepted - Count + 1 + Distance(i)
          BY <1>1, <1>2, <4>2, <5>1 DEF IInv, RingInOrder
        <5> QED
          BY <1>1, <1>5, <5>2
      <4> QED
        BY <4>1, <4>2
    <3>2. Got <= accepted - Count
      BY DEF IInv, RingInOrder
    <3>3. Got' <= accepted' - Count'
      BY <1>1, <1>2, <1>5, <2>1, <2>5, <3>2
    <3>4. ASSUME NEW i \in Slots, (Distance(i) < Count)'
          PROVE  (data[i] = accepted - Count + 1 + Distance(i))'
      <4>1. Distance(i)' = Distance(i)
        BY <1>3
      <4>2. Distance(i) < Count + 1
        BY <2>1, <3>4, <4>1
      <4>3. data'[i] = accepted + 1 - (Count + 1) + 1 + Distance(i)
        BY <3>1, <4>2
      <4>4. accepted' - Count' + 1 + Distance(i)'
              = accepted + 1 - (Count + 1) + 1 + Distance(i)
        <5>1. accepted' = accepted + 1
          BY <1>2
        <5> QED
          BY <1>1, <1>5, <2>1, <4>1, <5>1
      <4> QED
        BY <4>3, <4>4
    <3> QED
      BY <3>3, <3>4 DEF RingInOrder
  <2>7. NothingLostBeforeLap'
    BY <1>1, <1>2, <1>5, <2>1, <2>2, <2>5 DEF IInv, NothingLostBeforeLap
  <2>8. PopInv'
    BY <1>1, <1>2, <1>5, <2>1, <2>5 DEF IInv, PopInv, Oldest
  <2> QED
    BY <2>6, <2>7, <2>8 DEF IInv
<1> QED
  BY <1>6, <1>7

(* Storing the new tail takes the oldest byte out of the ring, whichever   *)
(* of the two orders is used.                                              *)
LEMMA AdvanceRing ==
  ASSUME TypeOK, IInv, step \in {"pop", "advance"}, tail' = tail + 1,
         UNCHANGED <<head, data, accepted>>
  PROVE  /\ tail \in Slots /\ data[tail] = Oldest /\ Oldest \in Int
         /\ Oldest = accepted - Count' /\ popped < Oldest
         /\ \A i \in Slots : Distance(i)' < Count' =>
              data[i] = accepted - Count' + 1 + Distance(i)'
<1>1. /\ tail \in Slots /\ head \in Slots /\ accepted \in Nat /\ popped \in Nat
      /\ Reduced(tail) = tail /\ Reduced(tail)' = Reduced(tail + 1)
  BY Slot DEF TypeOK, Reduced
<1>2. /\ Count = DistanceFrom(tail, head) /\ Count \in Slots /\ Count \in Nat
      /\ \A i \in Slots : /\ Distance(i) = DistanceFrom(tail, i)
                          /\ Distance(i) \in Nat
  BY <1>1, CountRange DEF Count, Distance, Slots
<1>3. Count > 0 /\ head # tail
  BY <1>1, <1>2, Distances DEF IInv, PopInv
<1>4. \A i \in Slots : Distance(i)' = DistanceFrom(Reduced(tail + 1), i)
  BY <1>1 DEF Distance, DistanceFrom
<1>5. \A i \in Slots :
        Distance(i)' = IF i = tail THEN BufferSize - 1 ELSE Distance(i) - 1
  BY <1>1, <1>2, <1>4, Distances
<1>6. Count' = Count - 1
  <2>1. Count' = DistanceFrom(Reduced(tail + 1), head)
    BY <1>1 DEF Count, Distance, DistanceFrom
  <2> QED
    BY <1>1, <1>2, <1>3, <2>1, Distances
<1>7. data[tail] = Oldest
  <2>1. Distance(tail) = 0
    BY <1>1, <1>2, Distances
  <2>2. data[tail] = accepted - Count + 1 + 0
    BY <1>1, <1>3, <2>1 DEF IInv, RingInOrder
  <2> QED
    BY <1>1, <1>2, <2>2 DEF Oldest
<1>8. Oldest \in Int /\ Oldest = accepted - Count' /\ popped < Oldest
  <2>1. popped <= accepted - Count
    BY DEF IInv, RingInOrder, Got
  <2> QED
    BY <1>1, <1>2, <1>6, <2>1 DEF Oldest
<1>9. ASSUME NEW i \in Slots, Distance(i)' < Count'
      PROVE  data[i] = accepted - Count' + 1 + Distance(i)'
  <2>1. i # tail
    BY <1>2, <1>5, <1>6, <1>9, RxBufferAssumption DEF Slots
  <2>2. Distance(i)' = Distance(i) - 1
    BY <1>5, <2>1
  <2>3. Distance(i) < Count
    BY <1>2, <1>6, <1>9, <2>2
  <2>4. data[i] = accepted - Count + 1 + Distance(i)
    BY <2>3 DEF IInv, RingInOrder
  <2> QED
    BY <1>1, <1>2, <1>6, <2>2, <2>4
<1> QED
  BY <1>1, <1>7, <1>8, <1>9

LEMMA AdvanceInv ==
  ASSUME TypeOK, IInv, ThenAdvance \/ AdvanceFirst
  PROVE  IInv'
<1>1. /\ step \in {"pop", "advance"} /\ tail' = tail + 1
      /\ UNCHANGED <<head, data, byte, popped, accepted, lapped>>
  BY DEF ThenAdvance, AdvanceFirst
<1>2. /\ data[tail] = Oldest /\ Oldest = accepted - Count' /\ popped < Oldest
      /\ \A i \in Slots : Distance(i)' < Count' =>
              data[i] = accepted - Count' + 1 + Distance(i)'
  BY <1>1, AdvanceRing
<1>3. Got' = accepted - Count' /\ accepted - Count' \in Int
  <2>1. CASE ThenAdvance
    BY <1>1, <1>2, <2>1, AdvanceRing DEF ThenAdvance, Got, IInv, PopInv
  <2>2. CASE AdvanceFirst
    <3>1. tail' - 1 = tail
      BY <1>1, AdvanceRing, RxBufferAssumption DEF Slots
    <3>2. Got' = data[tail]
      BY <1>1, <2>2, <3>1 DEF AdvanceFirst, Got
    <3> QED
      BY <1>1, <1>2, <3>2, AdvanceRing
  <2> QED
    BY <2>1, <2>2
<1>4. RingInOrder' /\ NothingLostBeforeLap'
  BY <1>1, <1>2, <1>3 DEF RingInOrder, NothingLostBeforeLap
<1>5. PopInv'
  <2>1. CASE ThenAdvance
    BY <1>1, <1>2, <2>1 DEF ThenAdvance, IInv, PopInv
  <2>2. CASE AdvanceFirst
    <3>1. tail' - 1 = tail
      BY <1>1, AdvanceRing, RxBufferAssumption DEF Slots
    <3> QED
      BY <1>1, <1>2, <2>2, <3>1 DEF AdvanceFirst, PopInv
  <2> QED
    BY <2>1, <2>2
<1> QED
  BY <1>4, <1>5 DEF IInv

(* The steps of pop that leave tail where it is, or reduce it.             *)
LEMMA ReadInv ==
  ASSUME TypeOK, IInv, PopTest \/ ReadFirst \/ ThenRead \/ Wrap
  PROVE  IInv'
<1>1. /\ Reduced(tail)' = Reduced(tail)
      /\ UNCHANGED <<head, data, accepted, lapped>>
  BY Slot DEF PopTest, ReadFirst, ThenRead, Wrap, Reduced, TypeOK
<1>2. Count' = Count /\ \A i \in Slots : Distance(i)' = Distance(i)
  BY <1>1 DEF Count, Distance, DistanceFrom
<1>3. Got' = Got
  BY <1>1 DEF PopTest, ReadFirst, ThenRead, Wrap, Got
<1>4. RingInOrder' /\ NothingLostBeforeLap'
  BY <1>1, <1>2, <1>3 DEF IInv, RingInOrder, NothingLostBeforeLap
<1>5. PopInv'
  <2>1. CASE PopTest
    <3>1. tail \in Slots /\ head \in Slots /\ Reduced(tail) = tail /\ head # tail
      BY <2>1, Slot DEF PopTest, IsEmpty, TypeOK
    <3>2. Count > 0
      BY <3>1, Distances, CountRange DEF Count, Distance, Slots
    <3> QED
      BY <1>2, <2>1, <3>2 DEF PopTest, PopInv
  <2>2. CASE ReadFirst
    <3>1. data[tail] = Oldest
      <4>1. tail \in Slots /\ Reduced(tail) = tail /\ accepted \in Nat
        BY <2>2, Slot DEF ReadFirst, TypeOK
      <4>2. Distance(tail) = 0 /\ Count > 0 /\ Count \in Nat
        BY <2>2, <4>1, Distances, CountRange
        DEF Distance, IInv, PopInv, ReadFirst, Slots
      <4>3. data[tail] = accepted - Count + 1 + 0
        BY <4>1, <4>2 DEF IInv, RingInOrder
      <4> QED
        BY <4>1, <4>2, <4>3 DEF Oldest
    <3>2. Oldest' = Oldest
      BY <1>1, <1>2 DEF Oldest
    <3> QED
      BY <1>2, <2>2, <3>1, <3>2 DEF ReadFirst, IInv, PopInv
  <2>3. CASE ThenRead
    BY <2>3 DEF ThenRead, IInv, PopInv
  <2>4. CASE Wrap
    BY <2>4 DEF Wrap, PopInv
  <2> QED
    BY <2>1, <2>2, <2>3, <2>4
<1> QED
  BY <1>4, <1>5 DEF IInv

(* The ring holds what it should, and nothing is lost before it is lapped. *)
THEOREM Invariance == Spec => [](RingInOrder /\ NothingLostBeforeLap /\ PopInv)
<1>1. Init => IInv
  <2> SUFFICES ASSUME Init PROVE IInv
    OBVIOUS
  <2>1. Count = 0 /\ accepted = 0 /\ Got = 0
    BY Slot, Distances DEF Init, Count, Distance, Got
  <2>2. \A i \in Slots : Distance(i) \in Nat
    BY Slot, Distances DEF Init, Distance, Slots
  <2> QED
    BY <2>1, <2>2 DEF Init, IInv, RingInOrder, NothingLostBeforeLap, PopInv
<1>2. TypeOK /\ IInv /\ [Next]_vars => IInv'
  <2> SUFFICES ASSUME TypeOK, IInv, [Next]_vars PROVE IInv'
    OBVIOUS
  <2>1. CASE UNCHANGED vars
    BY <2>1 DEF vars, IInv, RingInOrder, NothingLostBeforeLap, PopInv, Oldest,
                Got, Count, Distance, DistanceFrom, Reduced
  <2> QED
    BY <2>1, PushInv, AdvanceInv, ReadInv DEF Next, Pop
<1> QED
  BY <1>1, <1>2, TypeCorrect, PTL DEF Spec, IInv

(* RingInOrder and NothingLostBeforeLap, in every reachable state.         *)
THEOREM RingContents == Spec => [](RingInOrder /\ NothingLostBeforeLap)
BY Invariance, PTL

(* The only push that laps the ring interrupts pop between its two stores  *)
(* of tail.                                                                *)
THEOREM LapWindow == Spec => LapsOnlyInWindow
<1>1. TypeOK /\ [Next]_vars =>
        (lapped' /\ ~lapped => tail = BufferSize /\ step \in {"read", "wrap"})
  <2> SUFFICES ASSUME TypeOK, [Next]_vars, lapped', ~lapped
               PROVE  tail = BufferSize /\ step \in {"read", "wrap"}
    OBVIOUS
  <2>1. CASE Push
    BY <2>1, Slot DEF Push, IsFull, TypeOK
  <2>2. CASE Pop \/ UNCHANGED vars
    BY <2>2 DEF vars, Pop, PopTest, ReadFirst, ThenAdvance, AdvanceFirst,
                ThenRead, Wrap
  <2> QED
    BY <2>1, <2>2 DEF Next
<1> QED
  BY <1>1, TypeCorrect, PTL DEF Spec, LapsOnlyInWindow

(* The guest is given the bytes in the order of their arrival, each once,  *)
(* lapped or not.                                                          *)
THEOREM InOrder == Spec => DeliveredInOrder
<1>1. TypeOK /\ RingInOrder /\ PopInv /\ [Next]_vars =>
        (popped' # popped => popped < popped' /\ popped' <= accepted')
  <2> SUFFICES ASSUME TypeOK, RingInOrder, PopInv, [Next]_vars, popped' # popped
               PROVE  popped < popped' /\ popped' <= accepted'
    OBVIOUS
  <2>1. Wrap
    BY DEF vars, Next, Push, Pop, PopTest, ReadFirst, ThenAdvance,
           AdvanceFirst, ThenRead
  <2>2. popped < byte /\ popped' = byte /\ accepted' = accepted
    BY <2>1 DEF Wrap, PopInv
  <2>3. byte <= accepted - Count
    BY <2>1 DEF Wrap, RingInOrder, Got
  <2>4. Count \in Nat /\ accepted \in Nat /\ byte \in Nat
    BY CountRange DEF Slots, TypeOK
  <2> QED
    BY <2>2, <2>3, <2>4
<1> QED
  BY <1>1, TypeCorrect, Invariance, PTL DEF Spec, DeliveredInOrder

-----------------------------------------------------------------------------
(* The queue the ring implements.                                          *)

(* A function on 1 .. n is a sequence of length n.                         *)
LEMMA FunctionIsSequence ==
  ASSUME NEW n \in Nat, NEW f \in [1 .. n -> Nat]
  PROVE  f \in Seq(Nat) /\ Len(f) = n
OBVIOUS

(* The queue that the ring stands for is made of consecutive bytes.        *)
Run(last, n) == [k \in 1 .. n |-> last - n + k]

LEMMA RunType ==
  ASSUME NEW last \in Nat, NEW n \in Nat, n <= last
  PROVE  Run(last, n) \in Seq(Nat) /\ Len(Run(last, n)) = n
<1>1. \A k \in 1 .. n : last - n + k \in Nat
  OBVIOUS
<1>2. Run(last, n) \in [1 .. n -> Nat]
  BY <1>1 DEF Run
<1> QED
  BY <1>2, FunctionIsSequence

LEMMA RunGrows ==
  ASSUME NEW last \in Nat, NEW n \in Nat, n <= last
  PROVE  Run(last + 1, n + 1) = Append(Run(last, n), last + 1)
<1> DEFINE s == Run(last, n)  e == last + 1
<1>1. s \in Seq(Nat) /\ Len(s) = n /\ e \in Nat
  BY RunType
<1>2. /\ Append(s, e) \in Seq(Nat) /\ Len(Append(s, e)) = n + 1
      /\ \A k \in 1 .. n + 1 : Append(s, e)[k] = IF k <= n THEN s[k] ELSE e
  BY <1>1, AppendProperties
<1>3. Run(last + 1, n + 1) \in Seq(Nat) /\ Len(Run(last + 1, n + 1)) = n + 1
  BY RunType
<1>4. ASSUME NEW k \in 1 .. n + 1
      PROVE  Run(last + 1, n + 1)[k] = Append(s, e)[k]
  BY <1>2 DEF Run
<1> HIDE DEF s, e
<1>5. Run(last + 1, n + 1) = Append(s, e)
  BY <1>2, <1>3, <1>4, SeqEqual
<1> QED
  BY <1>5 DEF s, e

LEMMA RunShrinks ==
  ASSUME NEW last \in Nat, NEW n \in Nat, n <= last, n > 0
  PROVE  /\ Run(last, n) # <<>>
         /\ Head(Run(last, n)) = last - n + 1
         /\ Tail(Run(last, n)) = Run(last, n - 1)
<1> DEFINE s == Run(last, n)
<1>1. s \in Seq(Nat) /\ Len(s) = n /\ s # <<>>
  BY RunType, EmptySeq
<1>2. /\ Tail(s) \in Seq(Nat) /\ Len(Tail(s)) = n - 1
      /\ \A k \in 1 .. n - 1 : Tail(s)[k] = s[k + 1]
  BY <1>1, HeadTailProperties
<1>3. Run(last, n - 1) \in Seq(Nat) /\ Len(Run(last, n - 1)) = n - 1
  BY RunType
<1>4. ASSUME NEW k \in 1 .. n - 1 PROVE Run(last, n - 1)[k] = Tail(s)[k]
  BY <1>2 DEF Run
<1>5. Head(s) = last - n + 1
  BY <1>1 DEF Run
<1> HIDE DEF s
<1>6. Tail(s) = Run(last, n - 1)
  BY <1>2, <1>3, <1>4, SeqEqual
<1> QED
  BY <1>1, <1>5, <1>6 DEF s

(* What the ring stands for: Place(k) is the slot k - 1 places behind the  *)
(* oldest byte.                                                            *)
QueueIsRun ==
    /\ Queue = Run(accepted, Count)
    /\ Count \in Slots /\ Count <= accepted

LEMMA RingIsRun ==
  TypeOK /\ RingInOrder => QueueIsRun
<1> SUFFICES ASSUME TypeOK, RingInOrder PROVE QueueIsRun
  OBVIOUS
<1> DEFINE t == Reduced(tail)
<1>1. t \in Slots /\ Count \in Slots /\ accepted \in Nat
  BY TailSlot, CountRange DEF TypeOK
<1>2. ASSUME NEW k \in 1 .. Count
      PROVE  data[Place(k)] = accepted - Count + k
  <2>1. Place(k) \in Slots /\ Distance(Place(k)) = k - 1
    BY <1>1, RxBufferAssumption DEF Place, Distance, DistanceFrom, Slots
  <2>2. data[Place(k)] = accepted - Count + 1 + (k - 1)
    BY <1>1, <2>1 DEF RingInOrder, Slots
  <2> QED
    BY <1>1, <2>2 DEF Slots
<1>3. Count <= accepted
  <2>1. Got \in Nat /\ Got <= accepted - Count
    BY TailSlot DEF TypeOK, Got, RingInOrder
  <2> QED
    BY <1>1, <2>1 DEF Slots
<1> QED
  BY <1>1, <1>2, <1>3 DEF QueueIsRun, Queue, Run

LEMMA PushImplements ==
  ASSUME TypeOK, IInv, QueueIsRun, QueueIsRun', Push
  PROVE  Fifo!Put \/ Fifo!Lap
<1> DEFINE t == Reduced(tail)
<1>1. /\ head \in Slots /\ t \in Slots /\ accepted \in Nat
      /\ data \in [Slots -> Nat] /\ accepted' = accepted + 1
      /\ UNCHANGED <<tail, step, byte, popped>>
      /\ data' = [data EXCEPT ![head] = accepted + 1]
      /\ Count = DistanceFrom(t, head)
  BY TailSlot DEF TypeOK, Push, Count, Distance
<1>2. Count' = DistanceFrom(t, Reduced(head + 1))
  BY <1>1 DEF Push, Count, Distance, DistanceFrom, Reduced
<1>3. /\ Queue = Run(accepted, Count) /\ Queue' = Run(accepted + 1, Count')
      /\ Count <= accepted /\ Count \in Nat /\ accepted < MaxBytes
  BY <1>1 DEF QueueIsRun, Slots, Push
<1>4. Len(Queue) = Count
  BY <1>1, <1>3, RunType
<1>5. CASE Reduced(head + 1) = t
  <2>1. Count' = 0
    BY <1>1, <1>2, <1>5, Distances
  <2>0. Count = BufferSize - 1
    <3> HIDE DEF t
    <3>1. head \in Slots /\ t \in Slots /\ Count = DistanceFrom(t, head)
      BY <1>1
    <3> QED
      BY <1>5, <3>1, RxBufferAssumption DEF DistanceFrom, Slots, Reduced
  <2>2. Queue' = <<>>
    BY <1>3, <2>1, SMT DEF Run
  <2>3. Got' \in {Got, accepted'}
    <3>1. CASE step = "read"
      <4>1. tail - 1 \in Slots /\ data'[tail - 1] \in {data[tail - 1], accepted'}
        BY <1>1, <3>1, TailSlot
      <4> QED
        BY <1>1, <3>1, <4>1 DEF Got
    <3>2. CASE step # "read"
      BY <1>1, <3>2 DEF Got
    <3> QED
      BY <3>1, <3>2
  <2> QED
    BY <1>1, <1>3, <1>4, <2>0, <2>2, <2>3 DEF Fifo!Lap, Fifo!Accept
<1>6. CASE Reduced(head + 1) # t
  <2>1. Count' = Count + 1 /\ Count < BufferSize - 1
    <3>1. Count' = Count + 1 /\ Count' \in Slots
      BY <1>1, <1>2, <1>6, Distances, Slot DEF QueueIsRun
    <3> QED
      BY <1>3, <3>1, RxBufferAssumption DEF Slots
  <2>2. Queue' = Append(Queue, accepted')
    BY <1>1, <1>3, <2>1, RunGrows
  <2>3. Got' = Got
    <3>1. ASSUME step = "read" PROVE data'[tail - 1] = data[tail - 1]
      <4>1. tail - 1 \in Slots /\ tail \in Nat
        BY <3>1, TailSlot, RxBufferAssumption DEF TypeOK, Slots
      <4>2. Reduced(head + 1) # tail
        BY DEF Push, IsFull
      <4>3. tail - 1 # head
        BY <1>6, <4>1, <4>2 DEF Reduced
      <4> QED
        BY <1>1, <4>1, <4>3
    <3> QED
      BY <1>1, <3>1 DEF Got
  <2> QED
    BY <1>1, <1>3, <1>4, <2>1, <2>2, <2>3 DEF Fifo!Put, Fifo!Accept
<1> QED
  BY <1>5, <1>6

LEMMA AdvanceImplements ==
  ASSUME TypeOK, IInv, QueueIsRun, QueueIsRun', ThenAdvance \/ AdvanceFirst
  PROVE  Fifo!Get
<1>1. /\ step \in {"pop", "advance"} /\ tail' = tail + 1
      /\ UNCHANGED <<head, data, byte, popped, accepted, lapped>>
  BY DEF ThenAdvance, AdvanceFirst
<1>2. /\ tail \in Slots /\ data[tail] = Oldest /\ Oldest = accepted - Count'
  BY <1>1, AdvanceRing
<1>3. /\ Queue = Run(accepted, Count) /\ Queue' = Run(accepted, Count')
      /\ Count <= accepted /\ Count \in Nat /\ Count' \in Nat /\ accepted \in Nat
  BY <1>1 DEF QueueIsRun, Slots, TypeOK
<1>4. Count' = Count - 1 /\ Count > 0
  <2>1. accepted - Count + 1 = accepted - Count'
    BY <1>2 DEF Oldest
  <2>2. Count > 0
    BY <1>1 DEF IInv, PopInv
  <2>3. Count \in Nat /\ Count' \in Nat /\ accepted \in Nat
    BY <1>3
  <2>4. \A a, c, d \in Nat : a - c + 1 = a - d => d = c - 1
    OBVIOUS
  <2> QED
    BY <2>1, <2>2, <2>3, <2>4
<1>5. Got' = Oldest
  <2>1. CASE ThenAdvance
    BY <1>1, <2>1 DEF ThenAdvance, Got, IInv, PopInv
  <2>2. CASE AdvanceFirst
    <3>1. tail' - 1 = tail
      BY <1>1, <1>2, RxBufferAssumption DEF Slots
    <3> QED
      BY <1>1, <1>2, <2>2, <3>1 DEF AdvanceFirst, Got
  <2> QED
    BY <2>1, <2>2
<1>6. Queue # <<>> /\ Head(Queue) = Oldest /\ Tail(Queue) = Queue'
  BY <1>3, <1>4, RunShrinks DEF Oldest
<1> QED
  BY <1>1, <1>5, <1>6 DEF Fifo!Get

LEMMA OtherStutters ==
  ASSUME TypeOK, PopTest \/ ReadFirst \/ ThenRead \/ Wrap \/ UNCHANGED vars
  PROVE  UNCHANGED Fifo!vars
<1>1. Reduced(tail)' = Reduced(tail) /\ UNCHANGED <<head, data, accepted>>
  BY Slot DEF PopTest, ReadFirst, ThenRead, Wrap, vars, Reduced, TypeOK
<1>2. Queue' = Queue
  BY <1>1 DEF Queue, Place, Count, Distance, DistanceFrom
<1>3. Got' = Got
  BY <1>1 DEF PopTest, ReadFirst, ThenRead, Wrap, vars, Got
<1> QED
  BY <1>1, <1>2, <1>3 DEF Fifo!vars

(* The ring is a bounded queue whose one deviation is the lap: pushes are  *)
(* puts or laps, storing the new tail takes the oldest byte, and no other  *)
(* step of pop can be seen.                                                *)
THEOREM RingIsFifo == Spec => ImplementsFifo
<1>1. Init => Fifo!Init
  <2> SUFFICES ASSUME Init PROVE Fifo!Init
    OBVIOUS
  <2>1. Count = 0
    BY Slot, Distances DEF Init, Count, Distance
  <2>2. Queue = <<>>
    BY <2>1, SMT DEF Queue
  <2> QED
    BY <2>2 DEF Init, Got, Fifo!Init
<1>2. TypeOK /\ IInv /\ QueueIsRun /\ QueueIsRun' /\ [Next]_vars
        => [Fifo!Next]_(Fifo!vars)
  BY PushImplements, AdvanceImplements, OtherStutters
     DEF Next, Pop, Fifo!Next
<1>3. Spec => []IInv
  BY Invariance DEF IInv
<1> QED
  BY <1>1, <1>2, <1>3, RingIsRun, TypeCorrect, Invariance, PTL
     DEF Spec, ImplementsFifo, Fifo!Spec

-----------------------------------------------------------------------------
(* The port.                                                               *)

(* The port uses the ring by pushes and pops only ...                      *)
LEMMA RingStep == [SerialNext]_serialVars => [Next]_vars
BY DEF SerialNext, serialVars, Handler, Receive, PushByte, PushFails, RtcFire,
       Guest, Serve, Status, In, CopyByte, Send, GiveUp, Return, Accept, Clear,
       Take, Mask, EnableInterrupts, DisableInterrupts, Control, HostTakes, Next

(* ... and so inherits what is proved of it.                               *)
THEOREM UsesRing == SerialSpec => Spec
BY RingStep, PTL DEF SerialSpec, SerialInit, Spec

(* The ring of the port is lapped only in the window of pop ...            *)
THEOREM SerialLapWindow == SerialSpec => LapsOnlyInWindow
BY UsesRing, LapWindow

(* ... it gives the guest the bytes in the order of their arrival ...      *)
THEOREM SerialInOrder == SerialSpec => DeliveredInOrder
BY UsesRing, InOrder

(* ... through a bounded queue.                                            *)
THEOREM SerialIsFifo == SerialSpec => ImplementsFifo
BY UsesRing, RingIsFifo

(* A status with RDRF stays true until the guest reads: no push and no     *)
(* step of the port empties the ring.                                      *)
THEOREM StatusIsTrue == SerialSpec => []RdrfMeansByte
<1>1. SerialInit => RdrfMeansByte
  BY DEF SerialInit, RdrfMeansByte
<1>2. RdrfMeansByte /\ [SerialNext]_serialVars => RdrfMeansByte'
  <2> SUFFICES ASSUME RdrfMeansByte, [SerialNext]_serialVars,
                      pc' = "in", step' = "idle"
               PROVE  ~IsEmpty'
    BY DEF RdrfMeansByte
  <2>1. CASE PushByte
    BY <2>1 DEF PushByte, Push, IsFull, IsEmpty
  <2>2. CASE Status
    BY <2>2 DEF Status, At, RDRF, IsEmpty, vars
  <2>3. CASE In
    BY <2>3 DEF In, At, Pop, PopTest, ReadFirst, ThenAdvance, AdvanceFirst,
                ThenRead, Wrap
  <2>4. CASE Receive \/ PushFails \/ RtcFire \/ EnableInterrupts
             \/ DisableInterrupts \/ Control \/ HostTakes \/ UNCHANGED serialVars
    BY <2>4 DEF RdrfMeansByte, IsEmpty, vars, serialVars, Receive, PushFails,
                RtcFire, EnableInterrupts, DisableInterrupts, Control, HostTakes
  <2>5. CASE CopyByte \/ Send \/ GiveUp \/ Return \/ Accept
    BY <2>5 DEF CopyByte, Send, GiveUp, Return, Accept, Clear, Take, Mask, First
  <2> QED
    BY <2>1, <2>2, <2>3, <2>4, <2>5 DEF SerialNext, Handler, Guest, Serve
<1> QED
  BY <1>1, <1>2, PTL DEF SerialSpec

(* Routines nest once: a second request is latched only until interrupts   *)
(* are turned off for the first.                                           *)
Nesting ==
    /\ pc \notin {"main", "take", "mask"} => ~interrupts
    /\ pc = "main" => routine = "none" /\ outer = "none"
    /\ pc = "take" /\ routine # "none" => ~interrupts /\ ~interrupt_request
    /\ outer # "none" => ~interrupts /\ ~interrupt_request /\ pc # "take"
    /\ guest = "serves" /\ pc \in {"status", "in", "copy", "ask"} =>
         routine = "serial"

(* A tick latches a request, or leaves the latch as it is.                 *)
LEMMA TickLatches ==
  ASSUME RtcFire
  PROVE  \/ /\ interrupts /\ interrupt_request'
            /\ interrupt_instruction' = "rtc"
            /\ missed' <=> missed \/ (Pending /\ routine # "serial")
         \/ /\ interrupt_request' <=> interrupt_request
            /\ interrupt_instruction' = interrupt_instruction
            /\ missed' <=> missed
<1>1. PICK latched \in {interrupts, FALSE} :
        /\ interrupt_request' = (interrupt_request \/ latched)
        /\ interrupt_instruction' =
             IF latched THEN "rtc" ELSE interrupt_instruction
        /\ missed' = (missed \/ (latched /\ Pending /\ routine # "serial"))
  BY DEF RtcFire
<1>2. CASE latched
  <2>1. interrupts
    BY <1>1, <1>2
  <2>2. interrupt_request' /\ interrupt_instruction' = "rtc"
    BY <1>1, <1>2
  <2>3. missed' <=> missed \/ (Pending /\ routine # "serial")
    BY <1>1, <1>2
  <2> QED
    BY <2>1, <2>2, <2>3
<1>3. CASE ~latched
  <2>1. interrupt_request' <=> interrupt_request
    BY <1>1, <1>3
  <2>2. interrupt_instruction' = interrupt_instruction
    BY <1>1, <1>3
  <2>3. missed' <=> missed
    BY <1>1, <1>3
  <2> QED
    BY <2>1, <2>2, <2>3
<1> QED
  BY <1>2, <1>3

LEMMA NestingStep == Nesting /\ [SerialNext]_serialVars => Nesting'
<1> SUFFICES ASSUME Nesting, [SerialNext]_serialVars PROVE Nesting'
  OBVIOUS
<1> USE DEF Nesting, irq, latch, nest
<1>1. CASE Receive
  BY <1>1 DEF Receive, Enabled
<1>2. CASE PushByte \/ PushFails
  BY <1>2 DEF PushByte, PushFails
<1>3. CASE RtcFire
  BY <1>3, TickLatches DEF RtcFire
<1>4. CASE Status \/ In \/ CopyByte \/ Send \/ GiveUp
  BY <1>4 DEF Status, In, CopyByte, Send, GiveUp, At, Runs
<1>5. CASE Return
  BY <1>5 DEF Return, Runs, At, First
<1>6. CASE Clear
  BY <1>6 DEF Clear, At
<1>7. CASE Take
  BY <1>7 DEF Take, At
<1>8. CASE Mask
  BY <1>8 DEF Mask, At, First
<1>9. CASE EnableInterrupts \/ DisableInterrupts \/ Control
  BY <1>9 DEF EnableInterrupts, DisableInterrupts, Control, Runs, At
<1>10. CASE HostTakes \/ UNCHANGED serialVars
  BY <1>10 DEF HostTakes, serialVars
<1> QED
  BY <1>1, <1>2, <1>3, <1>4, <1>5, <1>6, <1>7, <1>8, <1>9, <1>10
     DEF SerialNext, Handler, Guest, Serve, Accept

(* NoByteWaitsUnsignalled holds while the handler is still pushing, too.   *)
Signalled ==
    guest = "serves" /\ (packet # 0 \/ ~IsEmpty) /\ ~missed => Attended

LEMMA SignalledStep ==
  Nesting /\ Signalled /\ [SerialNext]_serialVars => Signalled'
<1> SUFFICES ASSUME Nesting, Signalled, [SerialNext]_serialVars,
                    guest' = "serves", packet' # 0 \/ ~IsEmpty', ~missed'
             PROVE  Attended'
  BY DEF Signalled
<1> USE DEF Attended, Pending, irq, latch, nest
<1>1. CASE Receive
  BY <1>1 DEF Receive
<1>2. CASE PushByte \/ PushFails
  <2>1. packet # 0
    BY <1>2 DEF PushByte, PushFails
  <2> QED
    BY <1>2, <2>1 DEF PushByte, PushFails, Signalled
<1>3. CASE RtcFire
  <2>1. /\ IsEmpty' = IsEmpty /\ packet' = packet /\ guest = "serves"
        /\ pc' = pc /\ routine' = routine /\ outer' = outer
    BY <1>3 DEF RtcFire, IsEmpty, vars
  <2>2. ~missed
    BY <1>3, TickLatches
  <2>3. Attended
    BY <2>1, <2>2 DEF Signalled
  <2> QED
    BY <1>3, <2>1, <2>2, <2>3, TickLatches DEF Nesting
<1>4. CASE Status
  BY <1>4 DEF Status, Runs, At, RDRF, IsEmpty, vars, Nesting
<1>5. CASE In \/ CopyByte \/ Send \/ GiveUp
  BY <1>5 DEF In, CopyByte, Send, GiveUp, At, Nesting
<1>6. CASE Return
  <2>1. Attended
    BY <1>6 DEF Return, IsEmpty, vars, Signalled
  <2>2. outer = "serial"
    BY <1>6, <2>1 DEF Return, Runs, At
  <2> QED
    BY <1>6, <2>2 DEF Return, First
<1>7. CASE Clear
  BY <1>7 DEF Clear, At, IsEmpty, vars, Signalled
<1>8. CASE Take
  BY <1>8 DEF Take, At, IsEmpty, vars, Signalled, Nesting
<1>9. CASE Mask
  BY <1>9 DEF Mask, At, First, IsEmpty, vars, Signalled
<1>10. CASE EnableInterrupts \/ DisableInterrupts \/ Control \/ HostTakes
            \/ UNCHANGED serialVars
  BY <1>10 DEF EnableInterrupts, DisableInterrupts, Control, HostTakes,
               serialVars, IsEmpty, vars, Signalled
<1> QED
  BY <1>1, <1>2, <1>3, <1>4, <1>5, <1>6, <1>7, <1>8, <1>9, <1>10
     DEF SerialNext, Handler, Guest, Serve, Accept

(* A guest that serves interrupts is never left with bytes whose request   *)
(* was latched, unless the clock's request has replaced it: the request    *)
(* stands, or a serial routine goes on until the status says that nothing  *)
(* is left.                                                                *)
THEOREM NothingUnsignalled == SerialSpec => []NoByteWaitsUnsignalled
<1>1. SerialInit => Nesting /\ Signalled
  BY DEF SerialInit, Init, IsEmpty, Nesting, Signalled
<1>2. Signalled => NoByteWaitsUnsignalled
  BY DEF Signalled, NoByteWaitsUnsignalled
<1> QED
  BY <1>1, <1>2, NestingStep, SignalledStep, PTL DEF SerialSpec

(* No byte is given to the guest that was not accepted.                    *)
LEMMA PoppedAccepted ==
  TypeOK /\ RingInOrder /\ PopInv => popped <= accepted
<1> SUFFICES ASSUME TypeOK, RingInOrder, PopInv PROVE popped <= accepted
  OBVIOUS
<1>1. popped \in Nat /\ byte \in Nat /\ accepted \in Nat /\ Count \in Nat
  BY CountRange DEF TypeOK, Slots
<1>2. Got <= accepted - Count /\ Got \in Nat
  BY TailSlot DEF RingInOrder, Got, TypeOK
<1>3. popped <= Got
  <2>1. CASE step = "read"
    BY <1>1, <1>2, <2>1 DEF Got, PopInv
  <2>2. CASE step = "wrap"
    BY <1>1, <2>2 DEF Got, PopInv
  <2>3. CASE step \notin {"read", "wrap"}
    BY <1>1, <2>3 DEF Got
  <2> QED
    BY <2>1, <2>2, <2>3
<1> QED
  BY <1>1, <1>2, <1>3

(* Type correctness of the port.                                           *)
THEOREM SerialTypeCorrect == SerialSpec => []SerialTypeOK
<1>1. SerialInit /\ TypeOK => SerialTypeOK
  <2> SUFFICES ASSUME SerialInit, TypeOK PROVE SerialTypeOK
    OBVIOUS
  <2>1. /\ 0 \in Numbers /\ 0 \in 0 .. MaxPacket
    BY RxBufferAssumption, SerialPortAssumption DEF Numbers
  <2>2. /\ interrupts \in BOOLEAN /\ interrupt_request \in BOOLEAN
        /\ rx_interrupt_enabled \in BOOLEAN /\ missed \in BOOLEAN
        /\ interrupt_instruction \in Sources /\ routine \in Sources
        /\ outer \in Sources
    BY DEF SerialInit, Sources
  <2>3. lost \subseteq Numbers /\ (step # "idle" => pc = "in")
    BY DEF SerialInit, Init
  <2> QED
    BY <2>1, <2>2, <2>3 DEF SerialInit, SerialTypeOK
<1>2. SerialTypeOK /\ TypeOK' /\ popped <= accepted /\ [SerialNext]_serialVars
        => SerialTypeOK'
  <2> SUFFICES ASSUME SerialTypeOK, TypeOK', popped <= accepted,
                      [SerialNext]_serialVars
               PROVE  SerialTypeOK'
    OBVIOUS
  <2> USE RxBufferAssumption, SerialPortAssumption DEF SerialTypeOK
  <2>1. popped \in Numbers
    BY DEF TypeOK, Numbers
  <2>2. CASE Receive
    BY <2>2 DEF Receive, vars, tx, nest, Enabled, Sources
  <2>3. CASE PushByte
    BY <2>3 DEF PushByte, Push, irq, latch, nest, tx
  <2>4. CASE PushFails
    BY <2>4 DEF PushFails, vars, irq, latch, nest, tx
  <2>5. CASE Status
    BY <2>5 DEF Status, Runs, At, vars, irq, latch, nest, tx
  <2>6. CASE Accept \/ Return
    BY <2>6 DEF Accept, Clear, Take, Mask, Return, First, Runs, At, vars, latch,
                nest, tx, Sources
  <2>7. CASE EnableInterrupts
    BY <2>7 DEF EnableInterrupts, Runs, At, vars, latch, nest, tx
  <2>8. CASE DisableInterrupts
    BY <2>8 DEF DisableInterrupts, At, vars, latch, nest, tx
  <2>9. CASE Control
    BY <2>9 DEF Control, Runs, At, vars, latch, nest, tx
  <2>10. CASE UNCHANGED serialVars
    BY <2>10 DEF vars, irq, latch, nest, tx, serialVars
  <2>11. CASE In
    BY <2>11 DEF In, At, Pop, PopTest, ReadFirst, ThenAdvance, AdvanceFirst, ThenRead,
                Wrap, irq, latch, nest, tx
  <2>12. CASE CopyByte
    BY <2>1, <2>12 DEF CopyByte, At, vars, irq, latch, nest
  <2>13. CASE Send \/ GiveUp
    BY <2>13 DEF Send, GiveUp, At, vars, irq, latch, nest
  <2>14. CASE HostTakes
    BY <2>14 DEF HostTakes, vars, irq, latch, nest, Numbers
  <2>15. CASE RtcFire
    <3>1. PICK latched \in {interrupts, FALSE} :
            /\ interrupt_request' = (interrupt_request \/ latched)
            /\ interrupt_instruction' =
                 IF latched THEN "rtc" ELSE interrupt_instruction
            /\ missed' =
                 (missed \/ (latched /\ Pending /\ routine # "serial"))
      BY <2>15 DEF RtcFire
    <3>2. interrupt_request' \in BOOLEAN /\ missed' \in BOOLEAN
      BY ONLY <3>1
    <3>3. interrupt_instruction' \in Sources
      BY <3>1 DEF Sources
    <3> QED
      BY <2>15, <3>2, <3>3 DEF RtcFire, vars, tx, nest
  <2> QED
    BY <2>2, <2>3, <2>4, <2>5, <2>6, <2>7, <2>8, <2>9, <2>10, <2>11, <2>12, <2>13,
       <2>14, <2>15 DEF SerialNext, Handler, Guest, Serve
<1> QED
  BY <1>1, <1>2, UsesRing, TypeCorrect, Invariance, PoppedAccepted, PTL
     DEF SerialSpec

(* The echo: what is in the FIFO is newer than what the terminal has, and  *)
(* older than the byte that is about to be sent.                           *)
EchoInv ==
    /\ fifo # 0 => host < fifo
    /\ fifo <= popped /\ host <= popped
    /\ pc \in {"copy", "ask"} => fifo < popped /\ host < popped
    /\ pc = "ask" => tx_buffer = popped

LEMMA EchoStep ==
  ASSUME SerialTypeOK, PopInv, EchoInv, [SerialNext]_serialVars
  PROVE  EchoInv'
<1>1. fifo \in Nat /\ host \in Nat /\ popped \in Nat /\ byte \in Nat
  BY RxBufferAssumption DEF SerialTypeOK, TypeOK, Numbers
<1>2. CASE In
  <2>1. CASE step = "wrap"
    <3>1. popped < popped' /\ UNCHANGED <<fifo, host>>
      BY <1>2, <2>1 DEF In, Pop, PopTest, ReadFirst, ThenAdvance, AdvanceFirst,
                        ThenRead, Wrap, PopInv, tx
    <3>2. pc' = "copy"
      BY <1>2, <2>1 DEF In
    <3> QED
      BY <1>1, <1>2, <3>1, <3>2 DEF EchoInv, In, Pop, PopTest, ReadFirst,
         ThenAdvance, AdvanceFirst, ThenRead, Wrap
  <2>2. CASE step # "wrap"
    BY <1>2, <2>2 DEF In, Pop, PopTest, ReadFirst, ThenAdvance, AdvanceFirst,
                      ThenRead, Wrap, EchoInv, tx
  <2> QED
    BY <2>1, <2>2
<1>3. CASE CopyByte
  BY <1>3 DEF CopyByte, At, EchoInv, vars
<1>4. CASE Send
  BY <1>1, <1>4 DEF Send, At, EchoInv, vars
<1>5. CASE GiveUp
  BY <1>5 DEF GiveUp, At, EchoInv, vars
<1>6. CASE HostTakes
  BY <1>1, <1>6 DEF HostTakes, EchoInv, vars
<1>7. CASE PushByte
  BY <1>7 DEF PushByte, Push, EchoInv, tx
<1>8. CASE Receive \/ PushFails \/ RtcFire \/ Status \/ Accept \/ Return
           \/ EnableInterrupts \/ DisableInterrupts \/ Control
           \/ UNCHANGED serialVars
  BY <1>8 DEF Receive, PushFails, RtcFire, Status, Accept, Clear, Take, Mask,
              Return, First, EnableInterrupts, DisableInterrupts, Control, Runs,
              At, EchoInv, vars, tx, serialVars
<1> QED
  BY <1>2, <1>3, <1>4, <1>5, <1>6, <1>7, <1>8
     DEF SerialNext, Handler, Guest, Serve

(* The terminal gets the echo in order and once, whatever it leaves in the *)
(* FIFO and however often the guest gives up.                              *)
THEOREM EchoOrdered == SerialSpec => EchoInOrder
<1>1. SerialInit => EchoInv
  BY DEF SerialInit, Init, EchoInv
<1>2. SerialTypeOK /\ EchoInv /\ [SerialNext]_serialVars =>
        (fifo # 0 /\ fifo' # fifo => host < fifo /\ host' = fifo)
  BY DEF EchoInv, SerialNext, serialVars, Handler, Receive, PushByte, PushFails,
         RtcFire, Guest, Serve, Status, In, CopyByte, Send, GiveUp, Return,
         Accept, Clear, Take, Mask, EnableInterrupts, DisableInterrupts, Control,
         HostTakes, tx
<1>3. SerialTypeOK /\ PopInv /\ EchoInv /\ [SerialNext]_serialVars => EchoInv'
  BY EchoStep
<1> QED
  BY <1>1, <1>2, <1>3, UsesRing, Invariance, SerialTypeCorrect, PTL
     DEF SerialSpec, EchoInOrder
=============================================================================
