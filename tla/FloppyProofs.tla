---------------------------- MODULE FloppyProofs ----------------------------
(***************************************************************************)
(* Proofs about the floppy controller, for any number of drives, sectors,  *)
(* bytes and tracks, and for every order of port accesses and resets.      *)
(*                                                                         *)
(* The inductive invariant adds to the type what links a drive's sector    *)
(* counter to its file: while nothing has disturbed the drive, and if the  *)
(* file took the seek of the poll, it is at the start of the sector before *)
(* the counter; in an enabled write it is no further into that sector than *)
(* bytes were sent, and the write counter has counted the same bytes.      *)
(***************************************************************************)
EXTENDS Floppy, TLAPS

(* While the drive is undisturbed the counter is past zero and the file is *)
(* where the counter says, unless it refused to go there.                  *)
Aligned ==
    mark # "disturbed" =>
        /\ current \in valid
        /\ sector[current] # 0
        /\ mark = "sought" =>
             pos[current] = SectorStart(track[current], sector[current] - 1)

AnswerIsCurrent ==
    answer.true /\ mark # "disturbed" => answer.number = sector[current] - 1

(* n bytes of an enabled write have been sent.                             *)
Within(d, n) ==
    LET start == SectorStart(track[d], sector[d] - 1)
    IN  pos[d] \in start .. start + n

Written(d) ==
    /\ sector[d] # 0
    /\ burst[d] <= SectorBytes =>
         write_status[d] = burst[d] /\ Within(d, burst[d])
    /\ burst[d] = SectorBytes + 1 =>
         write_status[d] = 0 /\ Within(d, SectorBytes)
    /\ burst[d] > SectorBytes => "enwd" \notin status[d]

BurstsBounded == \A d \in Drives : burst[d] # NoBurst => Written(d)

IInv ==
    /\ TypeOK
    /\ HeadOnDrive
    /\ Aligned
    /\ AnswerIsCurrent
    /\ BurstsBounded

-----------------------------------------------------------------------------
(* The product in a sector's offset is only ever used as a natural number. *)
LEMMA StartInNat ==
    ASSUME NEW t \in Nat, NEW s \in Nat
    PROVE  SectorStart(t, s) \in Nat
<1>1. TrackBytes \in Nat
  BY FloppyAssumption DEF TrackBytes
<1>2. t * TrackBytes \in Nat
  BY <1>1
<1>3. s * SectorBytes \in Nat
  BY FloppyAssumption
<1> QED  BY <1>2, <1>3 DEF SectorStart

LEMMA SteppedTrack ==
    ASSUME NEW cmd, NEW t \in 0 .. TrackValues - 1
    PROVE  /\ Stepped(cmd, t) \in 0 .. TrackValues - 1
           /\ ~Steps(cmd) => Stepped(cmd, t) = t
<1>1. NextTrack(t) \in 0 .. TrackValues - 1
  BY FloppyAssumption DEF NextTrack
<1>2. SteppedIn(cmd, t) \in 0 .. TrackValues - 1
  BY <1>1 DEF SteppedIn
<1>3. Stepped(cmd, t) \in 0 .. TrackValues - 1
  BY <1>2, FloppyAssumption DEF Stepped, SteppedOut
<1>4. ASSUME ~Steps(cmd) PROVE Stepped(cmd, t) = t
  <2>1. "step_in" \notin cmd /\ "step_out" \notin cmd
    BY <1>4 DEF Steps
  <2> QED  BY <2>1 DEF Stepped, SteppedOut, SteppedIn
<1> QED  BY <1>3, <1>4

LEMMA FunctionBitsType ==
    ASSUME NEW cmd, NEW t, NEW s \in SUBSET Bits
    PROVE  /\ FunctionBits(cmd, t, s) \in SUBSET Bits
           /\ "write_enable" \notin cmd /\ "enwd" \notin s =>
                "enwd" \notin FunctionBits(cmd, t, s)
BY DEF FunctionBits, Bits

(* A write goes on as before on a drive a step does not touch.             *)
LEMMA Untouched ==
    ASSUME NEW d, Written(d),
           track'[d] = track[d], sector'[d] = sector[d], pos'[d] = pos[d],
           write_status'[d] = write_status[d], burst'[d] = burst[d],
           "enwd" \notin status[d] => "enwd" \notin status'[d]
    PROVE  Written(d)'
BY DEF Written, Within

(* What is known of the selection where a handler looks at it.             *)
LEMMA DriveFacts ==
    ASSUME TypeOK, Aligned
    PROVE  /\ OnDrive => current \in Drives /\ current \in valid
           /\ mark # "disturbed" => current # Null
           /\ floppy_valid /\ ~OnDrive => current = Null
BY FloppyAssumption DEF TypeOK, OnDrive, floppy_valid, Aligned

-----------------------------------------------------------------------------
LEMMA InitInv == Init => IInv
<1> SUFFICES ASSUME Init PROVE IInv
  OBVIOUS
<1>1. TypeOK
  <2>1. /\ track \in [Drives -> 0 .. TrackValues - 1]
        /\ sector \in [Drives -> 0 .. SectorsPerTrack]
        /\ write_status \in [Drives -> 0 .. SectorBytes]
        /\ pos \in [Drives -> Nat]
        /\ moves \in 0 .. MaxMoves
    BY FloppyAssumption DEF Init
  <2>2. status \in [Drives -> SUBSET Bits]
    BY DEF Init
  <2>3. answer \in [number : Int, true : BOOLEAN]
    BY DEF Init, NoAnswer
  <2>4. /\ valid \subseteq Drives
        /\ current \in Drives \cup {NoDisk, Null}
        /\ head_loaded \in BOOLEAN
        /\ flip_flop \in BOOLEAN
        /\ mark \in {"sought", "refused", "disturbed"}
    BY DEF Init
  <2>5. burst \in [Drives -> NoBurst .. SectorBytes + 2]
    <3>1. NoBurst \in NoBurst .. SectorBytes + 2
      BY FloppyAssumption DEF NoBurst
    <3> QED  BY <3>1 DEF Init
  <2> QED  BY <2>1, <2>2, <2>3, <2>4, <2>5 DEF TypeOK
<1>2. HeadOnDrive /\ Aligned /\ AnswerIsCurrent /\ BurstsBounded
  BY DEF Init, HeadOnDrive, Aligned, AnswerIsCurrent, BurstsBounded, NoAnswer
<1> QED  BY <1>1, <1>2 DEF IInv

-----------------------------------------------------------------------------
(* Each port handler preserves the invariant.                              *)

LEMMA MoveType ==
    ASSUME TypeOK, Move
    PROVE  moves' \in 0 .. MaxMoves /\ answer' = NoAnswer
BY FloppyAssumption DEF TypeOK, Move

LEMMA NoAnswerType == NoAnswer \in [number : Int, true : BOOLEAN]
BY DEF NoAnswer

LEMMA SelectInv ==
    ASSUME IInv, NEW d \in Drives \cup {NoDisk}, Select(d)
    PROVE  IInv'
<1>0. TypeOK /\ HeadOnDrive /\ BurstsBounded
  BY DEF IInv
<1> USE DEF Select, disk
<1>1. moves' \in 0 .. MaxMoves /\ answer' = NoAnswer
  BY <1>0, MoveType
<1>2. current' \in Drives \cup {NoDisk} /\ head_loaded' \in BOOLEAN
  BY <1>0 DEF TypeOK
<1>3. TypeOK'
  BY <1>0, <1>1, <1>2, NoAnswerType DEF TypeOK
<1>4. HeadOnDrive'
  BY <1>0 DEF HeadOnDrive, TypeOK
<1>5. Aligned' /\ AnswerIsCurrent'
  BY <1>1 DEF Aligned, AnswerIsCurrent
<1>6. BurstsBounded'
  BY <1>0 DEF BurstsBounded, Written, Within
<1> QED  BY <1>3, <1>4, <1>5, <1>6 DEF IInv

LEMMA StatusInv ==
    ASSUME IInv, Status
    PROVE  IInv'
<1>0. TypeOK /\ HeadOnDrive /\ Aligned /\ BurstsBounded
  BY DEF IInv
<1> USE DEF Status
<1>1. /\ status' \in [Drives -> SUBSET Bits]
      /\ \A e \in Drives : "enwd" \notin status[e] => "enwd" \notin status'[e]
  <2>1. CASE OnDrive
    <3>1. current \in Drives
      BY <1>0, <2>1, DriveFacts
    <3>2. /\ StatusBits \in SUBSET Bits
          /\ "enwd" \notin status[current] => "enwd" \notin StatusBits
      BY <1>0, <3>1 DEF StatusBits, TypeOK, Bits
    <3> QED  BY <1>0, <2>1, <3>1, <3>2 DEF TypeOK
  <2>2. CASE ~OnDrive
    BY <1>0, <2>2 DEF TypeOK
  <2> QED  BY <2>1, <2>2
<1>2. TypeOK'
  BY <1>0, <1>1, NoAnswerType DEF TypeOK
<1>3. HeadOnDrive' /\ Aligned' /\ AnswerIsCurrent'
  BY <1>0 DEF HeadOnDrive, Aligned, AnswerIsCurrent, NoAnswer
<1>4. BurstsBounded'
  BY <1>0, <1>1, Untouched DEF BurstsBounded
<1> QED  BY <1>2, <1>3, <1>4 DEF IInv

(* A function byte on the selected drive: the types of what it sets.       *)
LEMMA FunctionTypes ==
    ASSUME TypeOK, current \in Drives, NEW cmd, FunctionOnDrive(cmd)
    PROVE  /\ track' \in [Drives -> 0 .. TrackValues - 1]
           /\ status' \in [Drives -> SUBSET Bits]
           /\ pos' \in [Drives -> Nat]
           /\ write_status' \in [Drives -> 0 .. SectorBytes]
           /\ burst' \in [Drives -> NoBurst .. SectorBytes + 2]
           /\ mark' \in {"sought", "refused", "disturbed"}
<1>1. track[current] \in 0 .. TrackValues - 1
  BY DEF TypeOK
<1>2. Stepped(cmd, track[current]) \in 0 .. TrackValues - 1
  BY <1>1, SteppedTrack
<1>3. SteppedIn(cmd, track[current]) \in 0 .. TrackValues - 1
  BY <1>1, FloppyAssumption DEF SteppedIn, NextTrack
<1>4. track' \in [Drives -> 0 .. TrackValues - 1]
  BY <1>2 DEF FunctionOnDrive, TypeOK
<1>5. status' \in [Drives -> SUBSET Bits]
  BY FunctionBitsType DEF FunctionOnDrive, TypeOK
<1>6. pos' \in [Drives -> Nat]
  <2>1. TrackBytes \in Nat
    BY FloppyAssumption DEF TrackBytes
  <2>2. /\ TrackBytes * SteppedIn(cmd, track[current]) \in Nat
        /\ TrackBytes * Stepped(cmd, track[current]) \in Nat
    BY <2>1, <1>2, <1>3
  <2>3. SteppedTo(cmd) \subseteq Nat
    BY <2>2 DEF SteppedTo, TypeOK
  <2> QED  BY <2>3 DEF FunctionOnDrive, TypeOK
<1>7. write_status' \in [Drives -> 0 .. SectorBytes]
  BY FloppyAssumption DEF FunctionOnDrive, TypeOK
<1>8. burst' \in [Drives -> NoBurst .. SectorBytes + 2]
  <2>1. /\ NoBurst \in NoBurst .. SectorBytes + 2
        /\ 0 \in NoBurst .. SectorBytes + 2
    BY FloppyAssumption DEF NoBurst
  <2>2. BurstAfter(cmd, burst[current]) \in NoBurst .. SectorBytes + 2
    BY <2>1 DEF BurstAfter, TypeOK
  <2> QED  BY <2>2 DEF FunctionOnDrive, TypeOK
<1> QED  BY <1>4, <1>5, <1>6, <1>7, <1>8 DEF FunctionOnDrive, TypeOK

(* ... a byte without a step leaves the head where it is ...               *)
LEMMA FunctionStays ==
    ASSUME TypeOK, current \in Drives, NEW cmd, FunctionOnDrive(cmd),
           ~Steps(cmd)
    PROVE  track' = track /\ pos' = pos /\ mark' = mark
<1>1. Stepped(cmd, track[current]) = track[current]
  BY SteppedTrack DEF TypeOK
<1>2. cmd \cap {"step_in"} = {} /\ cmd \cap {"step_out"} = {}
  BY DEF Steps
<1>3. SteppedTo(cmd) = {pos[current]}
  BY <1>2 DEF SteppedTo
<1> QED  BY <1>1, <1>3 DEF FunctionOnDrive, TypeOK

(* ... and a write goes on, or begins where the sector polls said.         *)
LEMMA FunctionBursts ==
    ASSUME TypeOK, Aligned, BurstsBounded, current \in Drives,
           sector' = sector, NEW cmd, FunctionOnDrive(cmd)
    PROVE  BurstsBounded'
<1> SUFFICES ASSUME NEW e \in Drives, burst'[e] # NoBurst
             PROVE  Written(e)'
  BY DEF BurstsBounded
<1>1. CASE e # current
  <2>1. /\ track'[e] = track[e] /\ pos'[e] = pos[e]
        /\ write_status'[e] = write_status[e] /\ burst'[e] = burst[e]
        /\ status'[e] = status[e]
    BY <1>1 DEF FunctionOnDrive, TypeOK
  <2> QED  BY <2>1, Untouched DEF BurstsBounded
<1>2. CASE e = current
  <2>1. burst'[e] = BurstAfter(cmd, burst[e])
    BY <1>2 DEF FunctionOnDrive, TypeOK
  <2>2. ~Steps(cmd)
    BY <2>1 DEF BurstAfter
  <2>3. track' = track /\ pos' = pos
    BY <2>2, FunctionStays
  <2>4. CASE "write_enable" \in cmd
    <3>1. mark = "sought" /\ burst'[e] = 0
      BY <2>1, <2>2, <2>4 DEF BurstAfter
    <3>2. write_status'[e] = 0
      BY <1>2, <2>4 DEF FunctionOnDrive, TypeOK
    <3>3. /\ sector[e] # 0
          /\ pos[e] = SectorStart(track[e], sector[e] - 1)
      BY <1>2, <3>1 DEF Aligned
    <3>4. pos[e] \in Nat
      BY DEF TypeOK
    <3>5. Within(e, 0)'
      BY <2>3, <3>3, <3>4 DEF Within
    <3> QED  BY <2>3, <3>1, <3>2, <3>3, <3>5, FloppyAssumption DEF Written
  <2>5. CASE "write_enable" \notin cmd
    <3>1. burst'[e] = burst[e] /\ write_status' = write_status
      BY <2>1, <2>2, <2>5 DEF BurstAfter, FunctionOnDrive
    <3>2. "enwd" \notin status[e] => "enwd" \notin status'[e]
      BY <2>5, FunctionBitsType DEF FunctionOnDrive, TypeOK
    <3> QED  BY <2>3, <3>1, <3>2, Untouched DEF BurstsBounded
  <2> QED  BY <2>4, <2>5
<1> QED  BY <1>1, <1>2

LEMMA FunctionInv ==
    ASSUME IInv, NEW cmd \in Commands, Function(cmd)
    PROVE  IInv'
<1>0. TypeOK /\ HeadOnDrive /\ Aligned /\ BurstsBounded
  BY DEF IInv
<1>1. moves' \in 0 .. MaxMoves /\ answer' = NoAnswer
  BY <1>0, MoveType DEF Function
<1>2. /\ head_loaded' \in BOOLEAN
      /\ UNCHANGED <<valid, sector, current, flip_flop>>
  BY <1>0 DEF Function, HeadAfter, TypeOK
<1>3. AnswerIsCurrent'
  BY <1>1 DEF AnswerIsCurrent, NoAnswer
<1>4. HeadOnDrive'
  BY <1>0, <1>2, DriveFacts DEF Function, HeadOnDrive
<1>5. CASE OnDrive
  <2>1. current \in Drives /\ FunctionOnDrive(cmd)
    BY <1>0, <1>5, DriveFacts DEF Function
  <2>2. TypeOK'
    BY <1>0, <1>1, <1>2, <2>1, FunctionTypes, NoAnswerType DEF TypeOK
  <2>3. Aligned'
    <3> SUFFICES ASSUME mark' # "disturbed" PROVE Aligned'
      BY DEF Aligned
    <3>1. ~Steps(cmd)
      BY <2>1 DEF FunctionOnDrive
    <3>2. track' = track /\ pos' = pos /\ mark' = mark
      BY <1>0, <2>1, <3>1, FunctionStays
    <3> QED  BY <1>0, <1>2, <3>2 DEF Aligned
  <2>4. BurstsBounded'
    BY <1>0, <1>2, <2>1, FunctionBursts
  <2> QED  BY <1>3, <1>4, <2>2, <2>3, <2>4 DEF IInv
<1>6. CASE ~OnDrive
  <2>1. UNCHANGED <<track, status, pos, write_status, mark, burst>>
    BY <1>6 DEF Function
  <2>2. TypeOK'
    BY <1>0, <1>1, <1>2, <2>1, NoAnswerType DEF TypeOK
  <2>3. Aligned' /\ BurstsBounded'
    BY <1>0, <1>2, <2>1 DEF Aligned, BurstsBounded, Written, Within
  <2> QED  BY <1>3, <1>4, <2>2, <2>3 DEF IInv
<1> QED  BY <1>5, <1>6

-----------------------------------------------------------------------------
(* What a poll through the null pointer answers has the type of an answer. *)
LEMMA GarbageType ==
    ASSUME NEW half \in BOOLEAN
    PROVE  Garbage(half) \subseteq [number : Int, true : BOOLEAN]
<1>1. -1 .. SectorsPerTrack \subseteq Int
  BY FloppyAssumption
<1> QED  BY <1>1 DEF Garbage

LEMMA SectorMarkInv ==
    ASSUME IInv, SectorMark
    PROVE  IInv'
<1>0. TypeOK /\ HeadOnDrive /\ Aligned /\ BurstsBounded
  BY DEF IInv
<1>1. HeadOnDrive'
  BY <1>0 DEF HeadOnDrive, SectorMark
<1>2. CASE OnDrive
  <2> DEFINE s == NextSector(sector[current])
  <2>0. current \in Drives /\ current \in valid
    BY <1>0, <1>2, DriveFacts
  <2>1. s \in 0 .. SectorsPerTrack - 1
    BY <1>0, <2>0, FloppyAssumption DEF NextSector, TypeOK
  <2>2. /\ SectorStart(track[current], s) \in Nat
        /\ s + 1 \in 1 .. SectorsPerTrack
    <3>1. track[current] \in Nat
      BY <1>0, <2>0 DEF TypeOK
    <3> HIDE DEF s
    <3>2. s \in Nat /\ s + 1 \in 1 .. SectorsPerTrack
      BY <2>1, FloppyAssumption
    <3> QED  BY <3>1, <3>2, StartInNat
  <2>3. /\ \/ /\ mark' = "sought"
              /\ pos' = [pos EXCEPT ![current] = SectorStart(track[current], s)]
           \/ mark' = "refused" /\ pos' = pos
        /\ sector' = [sector EXCEPT ![current] = s + 1]
        /\ answer' = [number |-> s, true |-> FALSE]
        /\ burst' = [burst EXCEPT ![current] = NoBurst]
        /\ UNCHANGED <<valid, track, write_status, status, current>>
    <3>1. MarkOnDrive
      BY <1>2 DEF SectorMark
    <3>2. UNCHANGED <<valid, track, write_status, status, current>>
      BY DEF SectorMark
    <3> QED  BY ONLY <3>1, <3>2 DEF MarkOnDrive
  <2> HIDE DEF s
  <2>4. pos' \in [Drives -> Nat] /\ sector' \in [Drives -> 0 .. SectorsPerTrack]
    BY <1>0, <2>0, <2>2, <2>3, FloppyAssumption DEF TypeOK
  <2>5. answer' \in [number : Int, true : BOOLEAN]
    BY <2>1, <2>3
  <2>6. burst' \in [Drives -> NoBurst .. SectorBytes + 2]
    <3>1. NoBurst \in NoBurst .. SectorBytes + 2
      BY FloppyAssumption DEF NoBurst
    <3> QED  BY <1>0, <2>3, <3>1 DEF TypeOK
  <2>7. TypeOK'
    BY <1>0, <2>3, <2>4, <2>5, <2>6 DEF TypeOK, SectorMark
  <2>8. Aligned'
    <3>1. sector'[current] = s + 1 /\ s + 1 # 0 /\ (s + 1) - 1 = s
      BY <1>0, <2>0, <2>1, <2>3 DEF TypeOK
    <3>2. mark' = "sought" => pos'[current] = SectorStart(track[current], s)
      BY <1>0, <2>0, <2>3 DEF TypeOK
    <3> QED  BY <2>0, <2>3, <3>1, <3>2 DEF Aligned
  <2>9. AnswerIsCurrent'
    BY <2>3 DEF AnswerIsCurrent
  <2>10. BurstsBounded'
    <3> SUFFICES ASSUME NEW e \in Drives, burst'[e] # NoBurst PROVE Written(e)'
      BY DEF BurstsBounded
    <3>1. e # current
      BY <1>0, <2>3 DEF TypeOK
    <3>2. /\ pos'[e] = pos[e] /\ sector'[e] = sector[e]
          /\ burst'[e] = burst[e]
      BY <1>0, <2>3, <3>1 DEF TypeOK
    <3> QED  BY <1>0, <2>3, <3>2, Untouched DEF BurstsBounded
  <2> QED  BY <1>1, <2>7, <2>8, <2>9, <2>10 DEF IInv
<1>3. CASE ~OnDrive
  <2>1. /\ answer'.true = FALSE
        /\ answer' \in [number : Int, true : BOOLEAN]
    <3>1. CASE floppy_valid
      <4>1. answer' \in Garbage(FALSE)
        BY <1>3, <3>1 DEF SectorMark
      <4> QED  BY <4>1, GarbageType DEF Garbage
    <3>2. CASE ~floppy_valid
      <4>1. answer' = NoAnswer
        BY <1>3, <3>2 DEF SectorMark
      <4> QED  BY <4>1, NoAnswerType DEF NoAnswer
    <3> QED  BY <3>1, <3>2
  <2>2. /\ mark' = "disturbed"
        /\ UNCHANGED <<valid, track, sector, write_status, status, pos, burst>>
    BY <1>3 DEF SectorMark
  <2>3. TypeOK'
    BY <1>0, <2>1, <2>2 DEF TypeOK, SectorMark
  <2>4. Aligned' /\ AnswerIsCurrent'
    BY <2>2 DEF Aligned, AnswerIsCurrent
  <2>5. BurstsBounded'
    BY <1>0, <2>2 DEF BurstsBounded, Written, Within
  <2> QED  BY <1>1, <2>3, <2>4, <2>5 DEF IInv
<1> QED  BY <1>2, <1>3

LEMMA SectorTrueInv ==
    ASSUME IInv, SectorTrue
    PROVE  IInv'
<1>0. TypeOK /\ HeadOnDrive /\ Aligned /\ BurstsBounded
  BY DEF IInv
<1> USE DEF SectorTrue, Announce, disk
<1>1. current = Null \/ current \in Drives
  BY <1>0 DEF HeadOnDrive
<1>2. answer' \in [number : Int, true : BOOLEAN]
  <2>1. CASE current = Null
    BY <2>1, GarbageType
  <2>2. CASE current # Null
    <3>1. sector[current] - 1 \in Int
      BY <1>0, <1>1, <2>2 DEF TypeOK
    <3>2. answer' = [number |-> sector[current] - 1, true |-> TRUE]
      BY <2>2
    <3> QED  BY <3>1, <3>2
  <2> QED  BY <2>1, <2>2
<1>3. TypeOK'
  BY <1>0, <1>2 DEF TypeOK
<1>4. HeadOnDrive' /\ Aligned'
  BY <1>0 DEF HeadOnDrive, Aligned
<1>5. AnswerIsCurrent'
  BY <1>0, DriveFacts DEF AnswerIsCurrent
<1>6. BurstsBounded'
  BY <1>0 DEF BurstsBounded, Written, Within
<1> QED  BY <1>3, <1>4, <1>5, <1>6 DEF IInv

-----------------------------------------------------------------------------
LEMMA AdvanceType ==
    ASSUME TypeOK, current \in Drives, Advance
    PROVE  /\ pos' \in [Drives -> Nat]
           /\ pos'[current] \in {pos[current], pos[current] + 1}
           /\ \A e \in Drives : e # current => pos'[e] = pos[e]
           /\ answer' = NoAnswer
           /\ mark' = "disturbed"
<1>1. pos \in [Drives -> Nat]
  BY DEF TypeOK
<1>2. PICK p \in {pos[current], pos[current] + 1} :
         pos' = [pos EXCEPT ![current] = p]
  BY DEF Advance
<1>3. p \in Nat
  BY <1>1, <1>2
<1> QED  BY <1>1, <1>2, <1>3 DEF Advance

(* One more byte sent is still within the count.                           *)
LEMMA SentType ==
    ASSUME TypeOK, current \in Drives, Sent
    PROVE  /\ burst' \in [Drives -> NoBurst .. SectorBytes + 2]
           /\ burst'[current] = Counted(burst[current])
           /\ \A e \in Drives : e # current => burst'[e] = burst[e]
<1>1. burst[current] \in NoBurst .. SectorBytes + 2
  BY DEF TypeOK
<1>2. Counted(burst[current]) \in NoBurst .. SectorBytes + 2
  BY <1>1, FloppyAssumption DEF Counted, NoBurst
<1> QED  BY <1>2 DEF Sent, TypeOK

LEMMA ReadInv ==
    ASSUME IInv, Read
    PROVE  IInv'
<1>0. TypeOK /\ HeadOnDrive /\ Aligned /\ BurstsBounded
  BY DEF IInv
<1>1. current \in Drives
  BY <1>0, DriveFacts DEF Read
<1>2. /\ pos' \in [Drives -> Nat]
      /\ \A e \in Drives : e # current => pos'[e] = pos[e]
      /\ answer' = NoAnswer
      /\ mark' = "disturbed"
  BY <1>0, <1>1, AdvanceType DEF Read
<1>3. burst' \in [Drives -> NoBurst .. SectorBytes + 2]
  <2>1. NoBurst \in NoBurst .. SectorBytes + 2
    BY FloppyAssumption DEF NoBurst
  <2> QED  BY <1>0, <2>1 DEF TypeOK, Read
<1>4. TypeOK'
  BY <1>0, <1>2, <1>3, NoAnswerType DEF TypeOK, Read, disk
<1>5. HeadOnDrive' /\ Aligned' /\ AnswerIsCurrent'
  BY <1>0, <1>2 DEF HeadOnDrive, Read, Aligned, AnswerIsCurrent
<1>6. BurstsBounded'
  <2> SUFFICES ASSUME NEW e \in Drives, burst'[e] # NoBurst PROVE Written(e)'
    BY DEF BurstsBounded
  <2>1. e # current
    BY <1>0 DEF TypeOK, Read
  <2>2. burst'[e] = burst[e] /\ pos'[e] = pos[e]
    BY <1>0, <1>2, <2>1 DEF TypeOK, Read
  <2> QED  BY <1>0, <2>2, Untouched DEF BurstsBounded, Read, disk
<1> QED  BY <1>4, <1>5, <1>6 DEF IInv

(* A byte counted before the sector is full takes the file no further than *)
(* the count.                                                              *)
LEMMA OneByteFurther ==
    ASSUME NEW start \in Nat, NEW n \in Nat, NEW p \in start .. start + n,
           NEW q \in {p, p + 1}
    PROVE  q \in start .. start + (n + 1)
OBVIOUS

LEMMA WriteByteInv ==
    ASSUME IInv, WriteByte
    PROVE  IInv'
<1>0. TypeOK /\ HeadOnDrive /\ Aligned /\ BurstsBounded
  BY DEF IInv
<1>1. current \in Drives
  BY <1>0, DriveFacts DEF WriteByte
<1>2. /\ pos' \in [Drives -> Nat]
      /\ pos'[current] \in {pos[current], pos[current] + 1}
      /\ \A e \in Drives : e # current => pos'[e] = pos[e]
      /\ answer' = NoAnswer
      /\ mark' = "disturbed"
  BY <1>0, <1>1, AdvanceType DEF WriteByte
<1>3. /\ burst' \in [Drives -> NoBurst .. SectorBytes + 2]
      /\ burst'[current] = Counted(burst[current])
      /\ \A e \in Drives : e # current => burst'[e] = burst[e]
  BY <1>0, <1>1, SentType DEF WriteByte
<1>4. /\ write_status' \in [Drives -> 0 .. SectorBytes]
      /\ write_status'[current] = write_status[current] + 1
      /\ \A e \in Drives : e # current => write_status'[e] = write_status[e]
  BY <1>0, <1>1, FloppyAssumption DEF WriteByte, TypeOK
<1>5. TypeOK'
  BY <1>0, <1>2, <1>3, <1>4, NoAnswerType DEF TypeOK, WriteByte
<1>6. HeadOnDrive' /\ Aligned' /\ AnswerIsCurrent'
  BY <1>0, <1>2 DEF HeadOnDrive, Aligned, AnswerIsCurrent, WriteByte
<1>7. BurstsBounded'
  <2> SUFFICES ASSUME NEW e \in Drives, burst'[e] # NoBurst PROVE Written(e)'
    BY DEF BurstsBounded
  <2>0. UNCHANGED <<track, sector, status>>
    BY DEF WriteByte
  <2>1. CASE e # current
    BY <1>0, <1>2, <1>3, <1>4, <2>0, <2>1, Untouched DEF BurstsBounded
  <2>2. CASE e = current
    <3>1. burst[e] # NoBurst /\ Written(e)
      BY <1>0, <1>3, <2>2 DEF Counted, BurstsBounded
    <3>2. /\ burst[e] \in 0 .. SectorBytes + 2
          /\ write_status[e] \in 0 .. SectorBytes
          /\ write_status[e] # SectorBytes
      BY <1>0, <2>2, <3>1 DEF TypeOK, NoBurst, WriteByte
    <3>3. CASE burst[e] <= SectorBytes
      <4>1. burst[e] = write_status[e] /\ Within(e, burst[e])
        BY <3>1, <3>3 DEF Written
      <4>2. burst'[e] = burst[e] + 1 /\ burst'[e] <= SectorBytes
        BY <1>3, <2>2, <3>2, <4>1, FloppyAssumption DEF Counted, NoBurst
      <4>3. write_status'[e] = burst'[e]
        BY <1>4, <2>2, <4>1, <4>2
      <4>4. Within(e, burst[e])'
        <5> DEFINE start == SectorStart(track[e], sector[e] - 1)
        <5>1. sector[e] - 1 \in Nat /\ track[e] \in Nat
          BY <1>0, <3>1, FloppyAssumption DEF TypeOK, Written
        <5>2. start \in Nat
          BY <5>1, StartInNat
        <5>3. pos[e] \in start .. start + burst[e]
          BY <4>1 DEF Within
        <5> HIDE DEF start
        <5>4. burst[e] \in Nat
          BY <3>2, FloppyAssumption
        <5>5. pos'[e] \in start .. start + (burst[e] + 1)
          BY <1>2, <2>2, <5>2, <5>3, <5>4, OneByteFurther
        <5> QED  BY <2>0, <4>2, <5>5 DEF Within, start
      <4> QED  BY <2>0, <3>1, <3>2, <4>2, <4>3, <4>4, FloppyAssumption
               DEF Written
    <3>4. CASE burst[e] > SectorBytes
      <4>1. burst'[e] = SectorBytes + 2
        BY <1>3, <2>2, <3>2, <3>4, FloppyAssumption DEF Counted, NoBurst
      <4>2. "enwd" \notin status[e] /\ sector[e] # 0
        BY <3>1, <3>4 DEF Written
      <4> QED  BY <2>0, <4>1, <4>2, FloppyAssumption DEF Written
    <3> QED  BY <3>2, <3>3, <3>4, FloppyAssumption
  <2> QED  BY <2>1, <2>2
<1> QED  BY <1>5, <1>6, <1>7 DEF IInv

LEMMA WriteEndInv ==
    ASSUME IInv, WriteEnd
    PROVE  IInv'
<1>0. TypeOK /\ HeadOnDrive /\ Aligned /\ BurstsBounded
  BY DEF IInv
<1>1. current \in Drives
  BY <1>0, DriveFacts DEF WriteEnd
<1>2. /\ burst' \in [Drives -> NoBurst .. SectorBytes + 2]
      /\ burst'[current] = Counted(burst[current])
      /\ \A e \in Drives : e # current => burst'[e] = burst[e]
  BY <1>0, <1>1, SentType DEF WriteEnd
<1>3. /\ write_status' \in [Drives -> 0 .. SectorBytes]
      /\ write_status'[current] = 0
      /\ \A e \in Drives : e # current => write_status'[e] = write_status[e]
  BY <1>0, <1>1, FloppyAssumption DEF WriteEnd, TypeOK
<1>4. /\ status' \in [Drives -> SUBSET Bits]
      /\ status'[current] = status[current] \ {"enwd"}
      /\ \A e \in Drives : e # current => status'[e] = status[e]
  BY <1>0, <1>1 DEF WriteEnd, TypeOK
<1>5. TypeOK'
  BY <1>0, <1>2, <1>3, <1>4, NoAnswerType DEF TypeOK, WriteEnd
<1>6. HeadOnDrive' /\ Aligned'
  BY <1>0 DEF HeadOnDrive, Aligned, WriteEnd
<1>7. AnswerIsCurrent'
  BY DEF AnswerIsCurrent, NoAnswer, WriteEnd
<1>8. BurstsBounded'
  <2> SUFFICES ASSUME NEW e \in Drives, burst'[e] # NoBurst PROVE Written(e)'
    BY DEF BurstsBounded
  <2>0. UNCHANGED <<track, sector, pos>>
    BY DEF WriteEnd
  <2>1. CASE e # current
    BY <1>0, <1>2, <1>3, <1>4, <2>0, <2>1, Untouched DEF BurstsBounded
  <2>2. CASE e = current
    <3>1. burst[e] # NoBurst /\ Written(e)
      BY <1>0, <1>2, <2>2 DEF Counted, BurstsBounded
    <3>2. /\ burst[e] \in 0 .. SectorBytes + 2
          /\ write_status[e] = SectorBytes
      BY <1>0, <2>2, <3>1 DEF TypeOK, NoBurst, WriteEnd
    <3>3. "enwd" \notin status'[e]
      BY <1>4, <2>2
    <3>4. CASE burst[e] <= SectorBytes
      <4>1. burst[e] = SectorBytes /\ Within(e, SectorBytes)
        BY <3>1, <3>2, <3>4 DEF Written
      <4>2. burst'[e] = SectorBytes + 1
        BY <1>2, <2>2, <4>1, FloppyAssumption DEF Counted, NoBurst
      <4>3. Within(e, SectorBytes)'
        BY <2>0, <4>1 DEF Within
      <4> QED  BY <1>3, <2>0, <2>2, <3>1, <3>3, <4>2, <4>3, FloppyAssumption
               DEF Written
    <3>5. CASE burst[e] > SectorBytes
      <4>1. burst[e] # SectorBytes + 1
        BY <3>1, <3>2, FloppyAssumption DEF Written
      <4>2. burst'[e] = SectorBytes + 2
        BY <1>2, <2>2, <3>2, <3>5, <4>1, FloppyAssumption DEF Counted, NoBurst
      <4> QED  BY <2>0, <3>1, <3>3, <4>2, FloppyAssumption DEF Written
    <3> QED  BY <3>2, <3>4, <3>5, FloppyAssumption
  <2> QED  BY <2>1, <2>2
<1> QED  BY <1>5, <1>6, <1>7, <1>8 DEF IInv

LEMMA ResetInv ==
    ASSUME IInv, Reset
    PROVE  IInv'
<1>0. TypeOK /\ HeadOnDrive /\ BurstsBounded
  BY DEF IInv
<1>1. moves' \in 0 .. MaxMoves /\ answer' = NoAnswer
  BY <1>0, MoveType DEF Reset
<1>2. PICK configured \in SUBSET Drives : \E opened \in SUBSET configured :
         /\ valid' = (valid \ configured) \cup opened
         /\ track' = Zeroed(track, configured)
         /\ sector' = Zeroed(sector, configured)
         /\ write_status' = Zeroed(write_status, configured)
         /\ pos' = Zeroed(pos, configured)
         /\ status' = [d \in Drives |->
                         IF d \in configured THEN Bits ELSE status[d]]
         /\ burst' = [d \in Drives |->
                         IF d \in configured THEN NoBurst ELSE burst[d]]
  BY DEF Reset
<1>3. /\ track' \in [Drives -> 0 .. TrackValues - 1]
      /\ sector' \in [Drives -> 0 .. SectorsPerTrack]
      /\ write_status' \in [Drives -> 0 .. SectorBytes]
      /\ pos' \in [Drives -> Nat]
  BY <1>0, <1>2, FloppyAssumption DEF TypeOK, Zeroed
<1>4. status' \in [Drives -> SUBSET Bits] /\ valid' \subseteq Drives
  BY <1>0, <1>2 DEF TypeOK
<1>5. burst' \in [Drives -> NoBurst .. SectorBytes + 2]
  <2>1. NoBurst \in NoBurst .. SectorBytes + 2
    BY FloppyAssumption DEF NoBurst
  <2> QED  BY <1>0, <1>2, <2>1 DEF TypeOK
<1>6. TypeOK'
  BY <1>0, <1>1, <1>3, <1>4, <1>5, NoAnswerType DEF TypeOK, Reset
<1>7. HeadOnDrive' /\ Aligned' /\ AnswerIsCurrent'
  BY <1>0, <1>1 DEF HeadOnDrive, Aligned, AnswerIsCurrent, Reset
<1>8. BurstsBounded'
  <2> SUFFICES ASSUME NEW e \in Drives, burst'[e] # NoBurst PROVE Written(e)'
    BY DEF BurstsBounded
  <2>1. e \notin configured
    BY <1>2
  <2>2. /\ track'[e] = track[e] /\ sector'[e] = sector[e]
        /\ write_status'[e] = write_status[e] /\ pos'[e] = pos[e]
        /\ status'[e] = status[e] /\ burst'[e] = burst[e]
    BY <1>2, <2>1 DEF Zeroed
  <2> QED  BY <1>0, <2>2, Untouched DEF BurstsBounded
<1> QED  BY <1>6, <1>7, <1>8 DEF IInv

-----------------------------------------------------------------------------
LEMMA NextInv == IInv /\ [Next]_vars => IInv'
<1> SUFFICES ASSUME IInv, [Next]_vars PROVE IInv'
  OBVIOUS
<1>1. ASSUME NEW d \in Drives \cup {NoDisk}, Select(d) PROVE IInv'
  BY <1>1, SelectInv
<1>2. CASE Status
  BY <1>2, StatusInv
<1>3. ASSUME NEW cmd \in Commands, Function(cmd) PROVE IInv'
  BY <1>3, FunctionInv
<1>4. CASE SectorMark
  BY <1>4, SectorMarkInv
<1>5. CASE SectorTrue
  BY <1>5, SectorTrueInv
<1>6. CASE Read
  BY <1>6, ReadInv
<1>7. CASE WriteByte
  BY <1>7, WriteByteInv
<1>8. CASE WriteEnd
  BY <1>8, WriteEndInv
<1>9. CASE Reset
  BY <1>9, ResetInv
<1>10. CASE UNCHANGED vars
  BY <1>10 DEF vars, disk, history, IInv, TypeOK, HeadOnDrive, Aligned,
               AnswerIsCurrent, BurstsBounded, Written, Within
<1> QED
  BY <1>1, <1>2, <1>3, <1>4, <1>5, <1>6, <1>7, <1>8, <1>9, <1>10 DEF Next

(* The inductive invariant holds of every behaviour of the controller.     *)
THEOREM Invariance == Spec => []IInv
<1> QED  BY InitInv, NextInv, PTL DEF Spec

(* Tracks, sector counters and write counters keep the ranges their uint8_t *)
(* fields are used with, for every order of port accesses.                 *)
THEOREM TypeCorrect == Spec => []TypeOK
<1>1. IInv => TypeOK
  BY DEF IInv
<1> QED  BY <1>1, Invariance, PTL

(* From the first select on the head is only ever loaded on a drive, so    *)
(* the second half of a sector poll, which does not ask (88dcdd.c:139-145),*)
(* neither follows the null pointer nor announces a sector of the slot     *)
(* without a drive.                                                        *)
THEOREM PollOnDrive == Spec => []HeadOnDrive
<1>1. IInv => HeadOnDrive
  BY DEF IInv
<1> QED  BY <1>1, Invariance, PTL

(* A sector that is announced under an undisturbed head exists, and the    *)
(* image is positioned at its first byte, unless the file refused the seek *)
(* of that very poll (88dcdd.c:161).                                       *)
THEOREM AnnouncedIsPositioned == Spec => []TrueSectorAtPosition
<1>1. IInv => TrueSectorAtPosition
  <2> SUFFICES ASSUME IInv, answer.true, mark # "disturbed"
               PROVE  /\ current \in valid
                      /\ answer.number \in 0 .. SectorsPerTrack - 1
                      /\ mark = "sought" =>
                           pos[current] =
                             SectorStart(track[current], answer.number)
    BY DEF TrueSectorAtPosition
  <2>1. /\ current \in valid
        /\ sector[current] # 0
        /\ mark = "sought" =>
             pos[current] = SectorStart(track[current], sector[current] - 1)
        /\ answer.number = sector[current] - 1
    BY DEF IInv, Aligned, AnswerIsCurrent
  <2>2. sector[current] \in 0 .. SectorsPerTrack
    BY <2>1 DEF IInv, TypeOK
  <2>3. sector[current] - 1 \in 0 .. SectorsPerTrack - 1
    BY <2>1, <2>2, FloppyAssumption
  <2> QED  BY <2>1, <2>3
<1> QED  BY <1>1, Invariance, PTL

(* An enabled write that began where the polls said stays in its sector    *)
(* until the byte that turns ENWD off, and ENWD stays off for every byte   *)
(* after that, whether transfers and other seeks are refused or not.       *)
THEOREM WriteStaysInSector == Spec => []EnabledWriteStaysInSector
<1>1. IInv => EnabledWriteStaysInSector
  <2> SUFFICES ASSUME IInv, NEW d \in Drives, burst[d] # NoBurst
               PROVE  /\ burst[d] <= SectorBytes + 1 => Within(d, SectorBytes)
                      /\ burst[d] > SectorBytes => "enwd" \notin status[d]
    BY DEF EnabledWriteStaysInSector, Within
  <2>1. Written(d) /\ TypeOK
    BY DEF IInv, BurstsBounded
  <2>2. "enwd" \notin status[d] \/ ~(burst[d] > SectorBytes)
    BY <2>1 DEF Written
  <2>3. burst[d] \in 0 .. SectorBytes + 2
    BY <2>1 DEF TypeOK, NoBurst
  <2>4. CASE burst[d] <= SectorBytes
    <3> DEFINE start == SectorStart(track[d], sector[d] - 1)
    <3>1. sector[d] - 1 \in Nat /\ track[d] \in Nat
      BY <2>1, FloppyAssumption DEF TypeOK, Written
    <3>2. start \in Nat
      BY <3>1, StartInNat
    <3>3. pos[d] \in start .. start + burst[d]
      BY <2>1, <2>4 DEF Written, Within
    <3> HIDE DEF start
    <3>4. pos[d] \in start .. start + SectorBytes
      BY <2>3, <2>4, <3>2, <3>3, FloppyAssumption
    <3> QED  BY <2>2, <3>4 DEF Within, start
  <2>5. CASE burst[d] = SectorBytes + 1
    BY <2>1, <2>2, <2>5 DEF Written
  <2>6. CASE burst[d] = SectorBytes + 2
    BY <2>2, <2>6, FloppyAssumption
  <2> QED  BY <2>3, <2>4, <2>5, <2>6, FloppyAssumption
<1> QED  BY <1>1, Invariance, PTL
=============================================================================
