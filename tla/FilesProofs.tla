----------------------------- MODULE FilesProofs -----------------------------
(***************************************************************************)
(* Proofs about module Files, for every size of sectors and files: that no *)
(* more than the sector in the buffer is at risk, and that the drive's     *)
(* image is the array of bytes of module ImageFile.                        *)
(***************************************************************************)
EXTENDS Files, TLAPS

-----------------------------------------------------------------------------
(* Sectors and places.                                                     *)

LEMMA Division ==
  ASSUME NEW p \in Nat
  PROVE  /\ Offset(p) \in 0 .. SectorSize - 1
         /\ p \div SectorSize \in Nat
         /\ SectorSize * (p \div SectorSize) + Offset(p) = p
BY FilesAssumption DEF Offset

LEMMA DivisionUnique ==
  ASSUME NEW d \in Nat, NEW r \in Nat, NEW e \in Nat, NEW q \in Nat,
         r < SectorSize, q < SectorSize,
         SectorSize * d + r = SectorSize * e + q
  PROVE  d = e /\ r = q
BY FilesAssumption

(* A byte of the file is in one of its sectors, and is found there again.  *)
LEMMA Placed ==
  ASSUME NEW p \in Places
  PROVE  /\ SectorOf(p) \in 1 .. Sectors
         /\ Offset(p) \in 0 .. SectorSize - 1
         /\ SectorSize * (SectorOf(p) - 1) + Offset(p) = p
<1>1. PICK n \in Nat \ {0}, k \in Nat \ {0} : n = SectorSize /\ k = Sectors
  BY FilesAssumption
<1>2. p \in Nat /\ p < n * k
  BY <1>1 DEF Places, Size
<1>3. p \div n \in Nat /\ p \div n < k
  BY <1>2
<1>4. SectorOf(p) \in 1 .. Sectors /\ SectorOf(p) - 1 = p \div SectorSize
  BY <1>1, <1>3 DEF SectorOf
<1> QED
  BY <1>2, <1>4, Division

LEMMA PlaceUnique ==
  ASSUME NEW p \in Places, NEW q \in Places,
         SectorOf(p) = SectorOf(q), Offset(p) = Offset(q)
  PROVE  p = q
BY Placed

LEMMA SizeType == Size \in Nat /\ Places = 0 .. Size - 1
<1>1. PICK n \in Nat, k \in Nat : n = SectorSize /\ k = Sectors
  BY FilesAssumption
<1> QED
  BY <1>1 DEF Size, Places

(* Unless it is the first, a byte is in the sector of the one before.      *)
LEMMA NextPlace ==
  ASSUME NEW p \in Nat, Offset(p + 1) # 0
  PROVE  SectorOf(p + 1) = SectorOf(p)
<1> DEFINE d == p \div SectorSize
           e == (p + 1) \div SectorSize
           r == Offset(p)
           q == Offset(p + 1)
<1>0. SectorSize \in Nat
  BY FilesAssumption
<1>1. d \in Nat /\ r \in 0 .. SectorSize - 1 /\ SectorSize * d + r = p
  BY Division
<1>2. p + 1 \in Nat
  OBVIOUS
<1>3. e \in Nat /\ q \in 0 .. SectorSize - 1 /\ SectorSize * e + q = p + 1
  BY <1>2, Division
<1>4. q # 0
  OBVIOUS
<1> HIDE DEF d, e, r, q
<1>5. q - 1 \in Nat /\ q - 1 < SectorSize /\ SectorSize * e + (q - 1) = p
  BY <1>0, <1>3, <1>4
<1>6. r \in Nat /\ r < SectorSize
  BY <1>0, <1>1
<1>7. SectorSize * d + r = SectorSize * e + (q - 1)
  BY <1>1, <1>5
<1>8. d = e
  BY <1>1, <1>3, <1>5, <1>6, <1>7, DivisionUnique
<1> QED
  BY <1>8 DEF SectorOf, d, e

(* The end of the file is the start of a sector.                           *)
LEMMA EndOffset == Offset(Size) = 0
<1>0. SectorSize \in Nat /\ SectorSize > 0 /\ Sectors \in Nat
  BY FilesAssumption
<1> DEFINE d == Size \div SectorSize
<1>1. d \in Nat /\ Offset(Size) \in 0 .. SectorSize - 1
        /\ SectorSize * d + Offset(Size) = Size
  BY SizeType, Division
<1> HIDE DEF d
<1>2. SectorSize * d + Offset(Size) = SectorSize * Sectors + 0
  BY <1>0, <1>1 DEF Size
<1>3. Offset(Size) \in Nat /\ Offset(Size) < SectorSize
  BY <1>0, <1>1
<1> QED
  BY <1>0, <1>1, <1>2, <1>3, DivisionUnique

(* A position that is not the start of a sector is that of a byte.         *)
LEMMA InsidePlace ==
  ASSUME NEW p \in 0 .. Size, Offset(p) # 0 PROVE p \in Places
BY SizeType, EndOffset

-----------------------------------------------------------------------------
(* The buffer.                                                             *)

(* What a usable drive holds: the sector of its position unless that is    *)
(* the start of one, in its buffer the sector as the guest wrote it, and   *)
(* nothing to be saved of any other.                                       *)
Held ==
    Usable(drive) =>
        /\ Offset(drive.fptr) # 0 => drive.sect = SectorOf(drive.fptr)
        /\ \A p \in Places :
              SectorOf(p) = drive.sect => drive.buf[Offset(p)] = wrote[p]
        /\ \A p \in Places :
              card[p] = wrote[p] \/ (drive.dirty /\ SectorOf(p) = drive.sect)

(* Objects are of mounts that have been.  The drive config_read has just   *)
(* opened has nothing to save.                                             *)
Ids   == drive.id <= id
Fresh == phase = "open" /\ Valid(drive) => ~drive.dirty

IInv == TypeOK /\ Held /\ Ids /\ Fresh

LEMMA StoredType ==
  ASSUME TypeOK PROVE Stored(drive) \in [Places -> Bytes]
<1>1. ASSUME NEW p \in Places PROVE drive.buf[Offset(p)] \in Bytes
  BY Placed DEF TypeOK, Objects, Buffers
<1> QED
  BY <1>1 DEF TypeOK, Stored

(* Writing the buffer saves all there is to save.                          *)
LEMMA StoredIsWrote ==
  ASSUME TypeOK, Held, Usable(drive) PROVE Stored(drive) = wrote
<1>1. Stored(drive) \in [Places -> Bytes] /\ wrote \in [Places -> Bytes]
  BY StoredType DEF TypeOK
<1>2. ASSUME NEW p \in Places PROVE Stored(drive)[p] = wrote[p]
  BY DEF Held, Stored, TypeOK
<1> QED
  BY <1>1, <1>2

LEMMA PageType ==
  ASSUME NEW c \in [Places -> Bytes], NEW s \in 1 .. Sectors
  PROVE  /\ Page(c, s) \in Buffers
         /\ \A p \in Places : SectorOf(p) = s => Page(c, s)[Offset(p)] = c[p]
<1>1. PICK n \in Nat \ {0}, k \in Nat \ {0} : n = SectorSize /\ k = Sectors
  BY FilesAssumption
<1>2. ASSUME NEW j \in 0 .. SectorSize - 1
      PROVE  SectorSize * (s - 1) + j \in Places
  <2>1. n * (s - 1) + n <= n * k
    BY <1>1
  <2>2. j \in Nat /\ j < n /\ n * (s - 1) \in Nat
    BY <1>1, <1>2
  <2> QED
    BY <1>1, <2>1, <2>2 DEF Places, Size
<1>3. Page(c, s) \in Buffers
  BY <1>2 DEF Page, Buffers
<1> QED
  BY <1>3, Placed DEF Page

(* The buffer that has been turned to a sector holds it as written.        *)
LEMMA TurnedHolds ==
  ASSUME TypeOK, Held, Usable(drive), NEW s \in 1 .. Sectors
  PROVE  LET f == Turned(drive, s)
         IN  /\ f \in Objects
             /\ ~f.dirty /\ f.sect = s
             /\ f.open = drive.open /\ f.id = drive.id /\ f.err = drive.err
             /\ f.fptr = drive.fptr
             /\ \A p \in Places : SectorOf(p) = s => f.buf[Offset(p)] = wrote[p]
<1>1. wrote \in [Places -> Bytes] /\ drive \in Objects
  BY DEF TypeOK
<1>2. CASE drive.sect = s
  BY <1>1, <1>2 DEF Turned, Held, Objects
<1>3. CASE drive.sect # s
  <2>1. Turned(drive, s)
          = [drive EXCEPT !.dirty = FALSE, !.sect = s, !.buf = Page(wrote, s)]
    BY <1>3, StoredIsWrote DEF Turned
  <2>2. s \in 0 .. Sectors
    BY FilesAssumption
  <2> DEFINE b == Page(wrote, s)
  <2>3. b \in Buffers
          /\ \A p \in Places : SectorOf(p) = s => b[Offset(p)] = wrote[p]
    BY <1>1, PageType
  <2>4. Turned(drive, s) = [drive EXCEPT !.dirty = FALSE, !.sect = s, !.buf = b]
    BY <2>1
  <2> HIDE DEF b
  <2>5. Turned(drive, s)
          = [open |-> drive.open, id |-> drive.id, fptr |-> drive.fptr,
             sect |-> s, buf |-> b, dirty |-> FALSE, err |-> drive.err]
    BY <1>1, <2>4 DEF Objects
  <2> QED
    BY <1>1, <2>2, <2>3, <2>5 DEF Objects
<1> QED
  BY <1>2, <1>3

(* A transfer that breaks leaves the object unusable, and on the card      *)
(* nothing that was not there or written by the guest.                     *)
LEMMA Broken ==
  ASSUME TypeOK, Held, Usable(drive), NEW q \in 0 .. Size,
         Breaks([drive EXCEPT !.fptr = q])
  PROVE  /\ drive' \in Objects /\ drive'.id = drive.id
         /\ drive'.err /\ drive'.fptr = q
         /\ card' \in {card, wrote}
         /\ wrote' = wrote /\ answer' = NoByte
<1> DEFINE f == [drive EXCEPT !.fptr = q]
<1>1. drive \in Objects
  BY DEF TypeOK
<1>2. f = [open |-> drive.open, id |-> drive.id, fptr |-> q,
           sect |-> drive.sect, buf |-> drive.buf, dirty |-> drive.dirty,
           err |-> drive.err]
  BY <1>1 DEF Objects
<1>3. Stored(f) = Stored(drive)
  BY <1>2 DEF Stored
<1>4. Stored(f) = wrote
  BY <1>3, StoredIsWrote
<1>5. Breaks(f)
  OBVIOUS
<1> HIDE DEF f
<1>6. wrote' = wrote /\ answer' = NoByte /\ card' \in {card, wrote}
  BY <1>4, <1>5 DEF Breaks
<1>7. f \in Objects /\ f.id = drive.id /\ f.fptr = q
  BY <1>1, <1>2 DEF Objects
<1>8. CASE drive' = [f EXCEPT !.err = TRUE]
  BY <1>6, <1>7, <1>8 DEF Objects
<1>9. ASSUME NEW b \in Buffers,
             drive' = [f EXCEPT !.dirty = FALSE, !.buf = b, !.err = TRUE]
      PROVE  drive' \in Objects /\ drive'.id = drive.id /\ drive'.err
               /\ drive'.fptr = q
  BY <1>7, <1>9 DEF Objects
<1> QED
  BY <1>5, <1>6, <1>8, <1>9 DEF Breaks

LEMMA BrokenInPlace ==
  ASSUME TypeOK, Held, Usable(drive), Breaks(drive)
  PROVE  /\ drive' \in Objects /\ drive'.id = drive.id
         /\ drive'.err /\ drive'.fptr = drive.fptr
         /\ card' \in {card, wrote}
         /\ wrote' = wrote /\ answer' = NoByte
<1>1. drive \in Objects /\ drive.fptr \in 0 .. Size
  BY DEF TypeOK, Objects
<1>2. drive = [drive EXCEPT !.fptr = drive.fptr]
  BY <1>1 DEF Objects
<1>3. Breaks([drive EXCEPT !.fptr = drive.fptr])
  BY <1>2
<1> QED
  BY <1>1, <1>3, Broken

(* The step of a drive leaves the rest alone.                              *)
LEMMA DriveStep ==
  ASSUME IInv, Drive, drive' \in Objects, drive'.id = drive.id,
         card' \in [Places -> Bytes], wrote' \in [Places -> Bytes],
         answer' \in Bytes \cup {NoByte}, Held'
  PROVE  IInv'
<1>1. TypeOK'
  BY DEF IInv, TypeOK, Drive, Guest, volume
<1>2. Ids'
  BY DEF IInv, Ids, Drive, Guest, volume
<1>3. Fresh'
  BY DEF IInv, Fresh, Drive, Guest
<1> QED
  BY <1>1, <1>2, <1>3 DEF IInv

LEMMA DriveBreaks ==
  ASSUME IInv, Drive, drive' \in Objects, drive'.id = drive.id, drive'.err,
         card' \in {card, wrote}, wrote' = wrote, answer' = NoByte
  PROVE  IInv' /\ ~Usable(drive)'
<1>1. ~Usable(drive)'
  BY DEF Usable
<1>2. Held'
  BY <1>1 DEF Held
<1> QED
  BY <1>1, <1>2, DriveStep DEF IInv, TypeOK

-----------------------------------------------------------------------------
(* The operations of the drive, each with what it is for the image.        *)

LEMMA SameSizes == Image!Size = Size /\ Image!Places = Places
BY DEF Image!Size, Image!Places, Size, Places

LEMMA SeekStep ==
  ASSUME IInv, NEW p \in 0 .. Size, Seek(p)
  PROVE  IInv' /\ (Image!Seek(p) \/ Image!Break)
<1> DEFINE near == Offset(p) = 0 \/ SectorOf(p) = drive.sect
           f    == IF near THEN drive ELSE Turned(drive, SectorOf(p))
<1>1. TypeOK /\ Held /\ Usable(drive) /\ Drive
  BY DEF IInv, Seek
<1>2. drive \in Objects /\ card \in [Places -> Bytes] /\ wrote \in [Places -> Bytes]
  BY <1>1 DEF TypeOK
<1>3. CASE Breaks([drive EXCEPT !.fptr = p])
  <2>1. IInv' /\ ~Usable(drive)'
    BY <1>1, <1>3, Broken, DriveBreaks
  <2>2. drive'.fptr = p /\ card' \in {card, wrote} /\ wrote' = wrote
          /\ answer' = NoByte
    BY <1>1, <1>3, Broken
  <2>3. Image!Break
    BY <1>1, <2>1, <2>2, SameSizes DEF Image!Break, Image!Saves
  <2> QED
    BY <2>1, <2>3
<1>4. CASE /\ drive' = [f EXCEPT !.fptr = p]
           /\ card' = IF near THEN card ELSE Stored(drive)
           /\ answer' = NoByte
           /\ UNCHANGED wrote
  <2>1. card' \in {card, wrote} /\ (~near => card' = wrote)
    BY <1>1, <1>4, StoredIsWrote
  <2>2. /\ f \in Objects
        /\ f.open = drive.open /\ f.id = drive.id /\ f.err = drive.err
        /\ Offset(p) # 0 => f.sect = SectorOf(p)
        /\ \A q \in Places : SectorOf(q) = f.sect => f.buf[Offset(q)] = wrote[q]
        /\ \A q \in Places :
              card'[q] = wrote[q] \/ (f.dirty /\ SectorOf(q) = f.sect)
    <3>1. CASE near
      BY <1>1, <1>2, <1>4, <3>1 DEF Held
    <3>2. CASE ~near
      <4>1. SectorOf(p) \in 1 .. Sectors
        BY <3>2, InsidePlace, Placed
      <4> QED
        BY <1>1, <2>1, <3>2, <4>1, TurnedHolds
    <3> QED
      BY <3>1, <3>2
  <2> HIDE DEF f, near
  <2>3. drive' = [open |-> f.open, id |-> f.id, fptr |-> p, sect |-> f.sect,
                  buf |-> f.buf, dirty |-> f.dirty, err |-> f.err]
    BY <1>4, <2>2 DEF Objects
  <2>4. drive' \in Objects /\ drive'.id = drive.id
    BY <2>2, <2>3 DEF Objects
  <2>5. Usable(drive)'
    BY <1>1, <2>2, <2>3 DEF Usable, Valid, Drive, Guest, volume
  <2>6. Held'
    BY <1>4, <2>2, <2>3 DEF Held
  <2>7. IInv'
    BY <1>1, <1>2, <1>4, <2>1, <2>4, <2>6, DriveStep
  <2>8. Image!Seek(p)
    BY <1>1, <1>4, <2>1, <2>3, <2>5 DEF Image!Seek, Image!Saves
  <2> QED
    BY <2>7, <2>8
<1> QED
  BY <1>3, <1>4 DEF Seek

(* The buffer after the sector of the position, where it is not there yet, *)
(* has been fetched.                                                       *)
LEMMA Fetched ==
  ASSUME TypeOK, Held, Usable(drive), drive.fptr \in Places, NEW near,
         near \in BOOLEAN, near => drive.sect = SectorOf(drive.fptr)
  PROVE  LET p == drive.fptr
             f == IF near THEN drive ELSE Turned(drive, SectorOf(p))
         IN  /\ f \in Objects
             /\ f.open = drive.open /\ f.id = drive.id /\ f.err = drive.err
             /\ f.fptr = p /\ f.sect = SectorOf(p)
             /\ \A q \in Places : SectorOf(q) = f.sect => f.buf[Offset(q)] = wrote[q]
             /\ \A q \in Places :
                   \/ (IF near THEN card ELSE Stored(drive))[q] = wrote[q]
                   \/ f.dirty /\ SectorOf(q) = f.sect
<1>1. drive \in Objects
  BY DEF TypeOK
<1>2. CASE near
  BY <1>1, <1>2 DEF Held
<1>3. CASE ~near
  <2>1. SectorOf(drive.fptr) \in 1 .. Sectors
    BY Placed
  <2> QED
    BY <1>3, <2>1, TurnedHolds, StoredIsWrote
<1> QED
  BY <1>2, <1>3

LEMMA ReadStep ==
  ASSUME IInv, Read
  PROVE  IInv' /\ (Image!Read \/ Image!Break)
<1> DEFINE p    == drive.fptr
           near == Offset(p) # 0 \/ SectorOf(p) = drive.sect
           f    == IF near THEN drive ELSE Turned(drive, SectorOf(p))
<1>1. TypeOK /\ Held /\ Usable(drive) /\ Drive
  BY DEF IInv, Read
<1>2. drive \in Objects /\ card \in [Places -> Bytes] /\ wrote \in [Places -> Bytes]
  BY <1>1 DEF TypeOK
<1>3. p \in Places /\ p \in Nat /\ p < Size /\ {p, p + 1} \subseteq 0 .. Size
  BY <1>2, SizeType DEF Read, Objects
<1>4. CASE Breaks(drive)
  <2>1. IInv' /\ ~Usable(drive)'
    BY <1>1, <1>4, BrokenInPlace, DriveBreaks
  <2>2. drive'.fptr = p /\ card' \in {card, wrote} /\ wrote' = wrote
          /\ answer' = NoByte
    BY <1>1, <1>4, BrokenInPlace
  <2>3. Image!Break
    BY <1>1, <1>3, <2>1, <2>2, SameSizes DEF Image!Break, Image!Saves
  <2> QED
    BY <2>1, <2>3
<1>5. CASE /\ drive' = [f EXCEPT !.fptr = p + 1]
           /\ card' = IF near THEN card ELSE Stored(drive)
           /\ answer' = f.buf[Offset(p)]
           /\ UNCHANGED wrote
  <2>1. card' \in {card, wrote}
    BY <1>1, <1>5, StoredIsWrote
  <2>2. near \in BOOLEAN /\ (near => drive.sect = SectorOf(p))
    BY <1>1 DEF Held
  <2>3. /\ f \in Objects
        /\ f.open = drive.open /\ f.id = drive.id /\ f.err = drive.err
        /\ f.sect = SectorOf(p)
        /\ \A q \in Places : SectorOf(q) = f.sect => f.buf[Offset(q)] = wrote[q]
        /\ \A q \in Places :
              card'[q] = wrote[q] \/ (f.dirty /\ SectorOf(q) = f.sect)
    BY <1>1, <1>3, <1>5, <2>2, Fetched
  <2>4. Offset(p + 1) # 0 => SectorOf(p + 1) = SectorOf(p)
    BY <1>3, NextPlace
  <2> HIDE DEF f, near
  <2>5. drive' = [open |-> f.open, id |-> f.id, fptr |-> p + 1, sect |-> f.sect,
                  buf |-> f.buf, dirty |-> f.dirty, err |-> f.err]
    BY <1>5, <2>3 DEF Objects
  <2>6. drive' \in Objects /\ drive'.id = drive.id
    BY <1>3, <2>3, <2>5 DEF Objects
  <2>7. Usable(drive)'
    BY <1>1, <2>3, <2>5 DEF Usable, Valid, Drive, Guest, volume
  <2>8. Held'
    BY <1>5, <2>3, <2>4, <2>5 DEF Held
  <2>9. answer' = wrote[p] /\ answer' \in Bytes
    BY <1>2, <1>3, <1>5, <2>3
  <2>10. IInv'
    BY <1>1, <1>2, <1>5, <2>1, <2>6, <2>8, <2>9, DriveStep
  <2>11. Image!Read
    BY <1>1, <1>3, <1>5, <2>1, <2>5, <2>7, <2>9, SameSizes
    DEF Image!Read, Image!Saves
  <2> QED
    BY <2>10, <2>11
<1> QED
  BY <1>4, <1>5 DEF Read

LEMMA WriteStep ==
  ASSUME IInv, NEW b \in Bytes, Write(b)
  PROVE  IInv' /\ (Image!Write(b) \/ Image!Break)
<1> DEFINE p    == drive.fptr
           near == Offset(p) # 0
           f    == IF near THEN drive ELSE Turned(drive, SectorOf(p))
<1>1. TypeOK /\ Held /\ Usable(drive) /\ Drive
  BY DEF IInv, Write
<1>2. drive \in Objects /\ card \in [Places -> Bytes] /\ wrote \in [Places -> Bytes]
  BY <1>1 DEF TypeOK
<1>3. p \in Places /\ p \in Nat /\ p < Size /\ {p, p + 1} \subseteq 0 .. Size
  BY <1>2, SizeType DEF Write, Objects
<1>4. CASE Breaks(drive)
  <2>1. IInv' /\ ~Usable(drive)'
    BY <1>1, <1>4, BrokenInPlace, DriveBreaks
  <2>2. drive'.fptr = p /\ card' \in {card, wrote} /\ wrote' = wrote
          /\ answer' = NoByte
    BY <1>1, <1>4, BrokenInPlace
  <2>3. Image!Break
    BY <1>1, <1>3, <2>1, <2>2, SameSizes DEF Image!Break, Image!Saves
  <2> QED
    BY <2>1, <2>3
<1>5. CASE /\ drive' = [f EXCEPT !.buf[Offset(p)] = b, !.dirty = TRUE,
                                 !.fptr = p + 1]
           /\ card' = IF near THEN card ELSE Stored(drive)
           /\ wrote' = [wrote EXCEPT ![p] = b]
           /\ answer' = NoByte
  <2>1. card' \in {card, wrote} /\ (~near => card' = wrote)
    BY <1>1, <1>5, StoredIsWrote
  <2>2. near \in BOOLEAN /\ (near => drive.sect = SectorOf(p))
    BY <1>1 DEF Held
  <2>3. /\ f \in Objects
        /\ f.open = drive.open /\ f.id = drive.id /\ f.err = drive.err
        /\ f.sect = SectorOf(p)
        /\ \A q \in Places : SectorOf(q) = f.sect => f.buf[Offset(q)] = wrote[q]
        /\ \A q \in Places :
              card'[q] = wrote[q] \/ (f.dirty /\ SectorOf(q) = f.sect)
    BY <1>1, <1>3, <1>5, <2>2, Fetched
  <2>4. Offset(p + 1) # 0 => SectorOf(p + 1) = SectorOf(p)
    BY <1>3, NextPlace
  <2> HIDE DEF f, near
  <2> DEFINE m == [f.buf EXCEPT ![Offset(p)] = b]
  <2>5. drive' = [open |-> f.open, id |-> f.id, fptr |-> p + 1, sect |-> f.sect,
                  buf |-> m, dirty |-> TRUE, err |-> f.err]
    BY <1>5, <2>3 DEF Objects
  <2>6. f.buf \in Buffers /\ Offset(p) \in 0 .. SectorSize - 1
    BY <1>3, <2>3, Placed DEF Objects
  <2>7. m \in Buffers
    BY <2>6 DEF Buffers
  <2>8. \A q \in Places : SectorOf(q) = f.sect => m[Offset(q)] = wrote'[q]
    <3> SUFFICES ASSUME NEW q \in Places, SectorOf(q) = f.sect
                 PROVE  m[Offset(q)] = wrote'[q]
      OBVIOUS
    <3>1. Offset(q) \in 0 .. SectorSize - 1
      BY Placed
    <3>2. CASE q = p
      BY <1>2, <1>3, <1>5, <2>6, <3>2 DEF Buffers
    <3>3. CASE q # p
      <4>1. Offset(q) # Offset(p)
        BY <1>3, <2>3, <3>3, PlaceUnique
      <4> QED
        BY <1>2, <1>5, <2>3, <2>6, <3>1, <3>3, <4>1 DEF Buffers
    <3> QED
      BY <3>2, <3>3
  <2>9. \A q \in Places : card'[q] = wrote'[q] \/ SectorOf(q) = SectorOf(p)
    BY <1>2, <1>5, <2>3
  <2> HIDE DEF m
  <2>10. drive' \in Objects /\ drive'.id = drive.id
    BY <1>3, <2>3, <2>5, <2>7 DEF Objects
  <2>11. Usable(drive)'
    BY <1>1, <2>3, <2>5 DEF Usable, Valid, Drive, Guest, volume
  <2>12. Held'
    BY <2>3, <2>4, <2>5, <2>8, <2>9 DEF Held
  <2>13. wrote' \in [Places -> Bytes]
    BY <1>2, <1>5
  <2>14. IInv'
    BY <1>1, <1>2, <1>5, <2>1, <2>10, <2>12, <2>13, DriveStep
  <2>15. \A q \in Places : wrote'[q] # card'[q] => Image!SectorOf(q) = Image!SectorOf(p)
    BY <2>9 DEF SectorOf, Image!SectorOf
  <2>16. Image!Write(b)
    BY <1>1, <1>3, <1>5, <2>1, <2>5, <2>11, <2>15, SameSizes
    DEF Image!Write, Image!Saves
  <2> QED
    BY <2>14, <2>16
<1> QED
  BY <1>4, <1>5 DEF Write

LEMMA RefuseStep ==
  ASSUME IInv, Refuse
  PROVE  IInv' /\ Image!Refuse
<1>1. UNCHANGED <<card, drive, wrote>> /\ answer' = NoByte /\ Drive
  BY DEF Refuse
<1>2. Usable(drive)' = Usable(drive)
  BY <1>1 DEF Usable, Valid, Drive, Guest, volume
<1>3. Held'
  BY <1>1, <1>2 DEF IInv, Held
<1> QED
  BY <1>1, <1>2, <1>3, DriveStep DEF IInv, TypeOK, Image!Refuse

-----------------------------------------------------------------------------
(* The tape.                                                               *)

TapeStep == TapeStatus \/ TapeIn \/ TapeBreaks \/ TapeRefuses

LEMMA TapeStepType ==
  ASSUME TypeOK, TapeStep
  PROVE  tape' \in [open : BOOLEAN, id : 0 .. MaxMounts, fptr : 0 .. TapeSize,
                    err : BOOLEAN]
           /\ told' \in BOOLEAN
<1> USE DEF TypeOK
<1>1. 0 \in 0 .. MaxMounts /\ 0 \in 0 .. TapeSize
  BY FilesAssumption
<1>2. CASE TapeStatus
  BY <1>2 DEF TapeStatus, RDRF
<1>3. CASE TapeIn
  <2>1. CASE tape.fptr + 1 >= TapeSize
    BY <1>1, <1>3, <2>1 DEF TapeIn, NoReel, Reel
  <2>2. CASE ~(tape.fptr + 1 >= TapeSize)
    <3>1. tape.fptr + 1 \in 0 .. TapeSize
      BY <2>2, FilesAssumption
    <3> QED
      BY <1>3, <2>2, <3>1 DEF TapeIn
  <2> QED
    BY <2>1, <2>2
<1>4. CASE TapeBreaks
  BY <1>4 DEF TapeBreaks
<1>5. CASE TapeRefuses
  BY <1>5 DEF TapeRefuses
<1> QED
  BY <1>2, <1>3, <1>4, <1>5 DEF TapeStep

LEMMA TapeLeavesImage ==
  ASSUME IInv, TapeStep
  PROVE  IInv' /\ Image!Refuse
<1>1. Tape
  BY DEF TapeStep, TapeStatus, TapeIn, TapeBreaks, TapeRefuses
<1>2. UNCHANGED <<card, drive, wrote, inserted, ready, mounted, id, phase>>
        /\ answer' = NoByte
  BY <1>1 DEF Tape, Guest, volume
<1>3. TypeOK'
  BY <1>2, TapeStepType DEF IInv, TypeOK
<1>4. Usable(drive)' = Usable(drive) /\ Valid(drive)' = Valid(drive)
  BY <1>2 DEF Usable, Valid
<1>5. Held' /\ Ids' /\ Fresh'
  BY <1>2, <1>4 DEF IInv, Held, Ids, Fresh
<1> QED
  BY <1>2, <1>3, <1>4, <1>5 DEF IInv, Image!Refuse

-----------------------------------------------------------------------------
(* RESET and the card.                                                     *)

(* Mounting leaves every object behind.                                    *)
LEMMA MountsStep ==
  ASSUME IInv, Mounts, drive' = drive
  PROVE  /\ id' \in 0 .. MaxMounts /\ mounted' = TRUE /\ ready' = TRUE
         /\ inserted /\ Ids'
         /\ ~Valid(drive)' /\ ~Usable(drive)'
<1>1. id \in Nat /\ drive.id \in Nat /\ id < MaxMounts /\ drive.id <= id
        /\ id' = id + 1
  BY FilesAssumption DEF IInv, TypeOK, Objects, Mounts, Ids
<1>2. id' \in 0 .. MaxMounts /\ drive'.id <= id' /\ drive'.id # id'
  BY <1>1, FilesAssumption
<1> QED
  BY <1>2 DEF Mounts, Ids, Usable, Valid

LEMMA MountFailsStep ==
  ASSUME IInv, MountFails, drive' = drive
  PROVE  /\ id' = id /\ mounted' = FALSE /\ ready' \in {FALSE, ready}
         /\ Ids' /\ ~Valid(drive)' /\ ~Usable(drive)'
BY DEF IInv, MountFails, Ids, Usable, Valid

LEMMA ResetStep ==
  ASSUME IInv, Reset
  PROVE  IInv' /\ (Image!Refuse \/ Image!Forget)
<1>1. /\ phase = "guest"
      /\ UNCHANGED <<inserted, card, drive, tape, told>>
      /\ answer' = NoByte
  BY DEF Reset, Config
<1>2. CASE ~inserted /\ UNCHANGED <<ready, volume, phase, wrote>>
  <2>1. Usable(drive)' = Usable(drive) /\ Valid(drive)' = Valid(drive)
    BY <1>1, <1>2 DEF Usable, Valid, volume
  <2>2. TypeOK'
    BY <1>1, <1>2 DEF IInv, TypeOK, volume
  <2>3. Held' /\ Ids' /\ Fresh'
    BY <1>1, <1>2, <2>1 DEF IInv, Held, Ids, Fresh, volume
  <2> QED
    BY <1>1, <1>2, <2>1, <2>2, <2>3 DEF IInv, Image!Refuse
<1>3. CASE ~(~inserted /\ UNCHANGED <<ready, volume, phase, wrote>>)
  <2>1. /\ wrote' = card /\ phase' \in {"guest", "open"} /\ inserted
        /\ ready' \in BOOLEAN /\ mounted' \in BOOLEAN /\ id' \in 0 .. MaxMounts
        /\ Ids' /\ ~Valid(drive)' /\ ~Usable(drive)'
    <3>1. CASE Mounts /\ wrote' = card /\ phase' \in {"guest", "open"}
      BY <1>1, <3>1, MountsStep
    <3>2. CASE inserted /\ MountFails /\ wrote' = card /\ UNCHANGED phase
      BY <1>1, <3>2, MountFailsStep DEF IInv, TypeOK
    <3> QED
      BY <1>3, <3>1, <3>2 DEF Reset
  <2>2. TypeOK'
    BY <1>1, <2>1 DEF IInv, TypeOK
  <2>3. Held' /\ Fresh'
    BY <2>1 DEF Held, Fresh
  <2>4. Image!Forget
    BY <1>1, <2>1 DEF Image!Forget
  <2> QED
    BY <2>1, <2>2, <2>3, <2>4 DEF IInv
<1> QED
  BY <1>2, <1>3

LEMMA PullStep ==
  ASSUME IInv, Pull
  PROVE  IInv' /\ Image!Forget
<1>1. /\ inserted' = FALSE /\ ready' = FALSE /\ wrote' = card
      /\ answer' = NoByte
      /\ UNCHANGED <<card, mounted, id, drive, tape, told, phase>>
  BY DEF Pull, volume
<1>2. ~Valid(drive)' /\ ~Usable(drive)'
  BY <1>1 DEF Usable, Valid
<1>3. TypeOK'
  BY <1>1 DEF IInv, TypeOK
<1>4. Held' /\ Ids' /\ Fresh'
  BY <1>1, <1>2 DEF IInv, Held, Ids, Fresh
<1> QED
  BY <1>1, <1>2, <1>3, <1>4 DEF IInv, Image!Forget

LEMMA InsertStep ==
  ASSUME IInv, Insert
  PROVE  IInv' /\ Image!Swap
<1>1. /\ inserted' = TRUE /\ ~ready
      /\ card' \in [Places -> Bytes] /\ wrote' = card' /\ answer' = NoByte
      /\ UNCHANGED <<ready, mounted, id, drive, tape, told, phase>>
  BY DEF IInv, TypeOK, Insert, volume
<1>2. /\ ~Valid(drive)' /\ ~Usable(drive)' /\ ~Usable(drive)
      /\ Usable(drive)' = Usable(drive)
  BY <1>1 DEF Usable, Valid
<1>3. TypeOK'
  BY <1>1 DEF IInv, TypeOK
<1>4. Held' /\ Ids' /\ Fresh'
  BY <1>1, <1>2 DEF IInv, Held, Ids, Fresh
<1> QED
  BY <1>1, <1>2, <1>3, <1>4, SameSizes DEF IInv, Image!Swap

LEMMA SomeBuffer == Zeros \in Buffers
<1>1. PICK b \in Bytes : TRUE
  BY FilesAssumption
<1>2. [k \in 0 .. SectorSize - 1 |-> b] \in Buffers
  BY <1>1 DEF Buffers
<1> QED
  BY <1>2 DEF Zeros

LEMMA NewObject ==
  ASSUME NEW i \in 0 .. MaxMounts
  PROVE  /\ Object(i) \in Objects /\ Closed \in Objects
         /\ Reel(i) \in [open : BOOLEAN, id : 0 .. MaxMounts,
                         fptr : 0 .. TapeSize, err : BOOLEAN]
         /\ NoReel \in [open : BOOLEAN, id : 0 .. MaxMounts,
                        fptr : 0 .. TapeSize, err : BOOLEAN]
<1>1. 0 \in 0 .. MaxMounts /\ 0 \in 0 .. TapeSize /\ 0 \in 0 .. Sectors
        /\ 0 \in 0 .. Size
  BY FilesAssumption, SizeType
<1>2. Object(i) \in Objects /\ Object(0) \in Objects
  BY <1>1, SomeBuffer DEF Object, Objects
<1> QED
  BY <1>1, <1>2 DEF Closed, Objects, Reel, NoReel

(* What a file is opened on.                                               *)
LEMMA VolumeStep ==
  ASSUME TypeOK, FindVolume \/ NoVolume, inserted' = inserted
  PROVE  /\ ready' \in BOOLEAN /\ mounted' \in BOOLEAN
         /\ id' \in 0 .. MaxMounts /\ id <= id' /\ (ready' => inserted')
         /\ \/ ready /\ UNCHANGED <<ready, mounted, id>>
            \/ ~ready /\ (Mounts \/ MountFails)
<1>1. CASE ready /\ UNCHANGED <<ready, volume>>
  BY <1>1 DEF TypeOK, volume
<1>2. CASE ~ready /\ Mounts
  <2>1. id' = id + 1 /\ id \in Nat /\ id < MaxMounts
    BY <1>2, FilesAssumption DEF Mounts, TypeOK
  <2>2. id' \in 0 .. MaxMounts /\ id <= id'
    BY <2>1, FilesAssumption
  <2>3. ready' \in BOOLEAN /\ mounted' \in BOOLEAN /\ inserted'
    BY <1>2 DEF Mounts
  <2> QED
    BY <1>2, <2>2, <2>3
<1>3. CASE ~ready /\ MountFails
  <2>1. id' = id /\ id \in 0 .. MaxMounts /\ id <= id'
    BY <1>3, FilesAssumption DEF MountFails, TypeOK
  <2>2. ready' = FALSE /\ mounted' = FALSE
    BY <1>3 DEF MountFails, TypeOK
  <2> QED
    BY <1>3, <2>1, <2>2
<1> QED
  BY <1>1, <1>2, <1>3 DEF FindVolume, NoVolume

LEMMA OpenDriveStep ==
  ASSUME IInv, OpenDrive
  PROVE  IInv' /\ (Image!Open \/ Image!Forget)
<1>1. /\ phase = "open" /\ inserted' = inserted /\ answer' = NoByte
      /\ wrote' = card' /\ UNCHANGED <<tape, told>>
      /\ FindVolume \/ NoVolume
      /\ drive' \in {Object(id'), Closed}
      /\ phase' \in {"guest", "open"}
  BY DEF OpenDrive, Config, NextLine
<1>2. TypeOK /\ card \in [Places -> Bytes] /\ drive \in Objects
  BY DEF IInv, TypeOK
<1>3. card' = card
  <2>1. CASE Valid(drive)
    <3>1. ~drive.dirty
      BY <1>1, <2>1 DEF IInv, Fresh
    <3> QED
      BY <2>1, <3>1 DEF OpenDrive, Stored
  <2>2. CASE ~Valid(drive)
    BY <2>2 DEF OpenDrive
  <2> QED
    BY <2>1, <2>2
<1>4. /\ ready' \in BOOLEAN /\ mounted' \in BOOLEAN /\ id' \in 0 .. MaxMounts
      /\ ready' => inserted'
  BY <1>1, <1>2, VolumeStep
<1>5. drive' \in Objects
  BY <1>1, <1>4, NewObject
<1>6. TypeOK'
  BY <1>1, <1>2, <1>3, <1>4, <1>5 DEF TypeOK
<1>7. CASE drive' = Object(id')
  <2>1. drive'.fptr = 0 /\ drive'.sect = 0 /\ ~drive'.dirty /\ drive'.id = id'
    BY <1>7 DEF Object
  <2>2. Offset(0) = 0
    BY FilesAssumption DEF Offset
  <2>3. \A p \in Places : SectorOf(p) # 0
    BY Placed
  <2>4. Held' /\ Fresh'
    BY <1>1, <1>3, <2>1, <2>2, <2>3 DEF Held, Fresh
  <2>5. Ids'
    BY <1>4, <2>1 DEF Ids
  <2>6. Image!Open \/ Image!Forget
    BY <1>1, <1>3, <2>1 DEF Image!Open, Image!Forget
  <2> QED
    BY <1>6, <2>4, <2>5, <2>6 DEF IInv
<1>8. CASE drive' = Closed
  <2>1. Object(0) \in Objects
    BY NewObject, FilesAssumption
  <2>2. ~drive'.open /\ drive'.fptr = 0 /\ drive'.id = 0
    BY <1>8, <2>1 DEF Closed, Object, Objects
  <2>3. ~Valid(drive)' /\ ~Usable(drive)'
    BY <2>2 DEF Usable, Valid
  <2>4. Held' /\ Fresh'
    BY <2>3 DEF Held, Fresh
  <2>5. Ids'
    BY <1>4, <2>2 DEF Ids
  <2>6. Image!Forget
    BY <1>1, <1>3, <2>2, <2>3 DEF Image!Forget
  <2> QED
    BY <1>6, <2>4, <2>5, <2>6 DEF IInv
<1> QED
  BY <1>1, <1>7, <1>8

LEMMA OpenTapeStep ==
  ASSUME IInv, OpenTape
  PROVE  IInv' /\ Image!Refuse
<1>1. /\ phase = "open" /\ inserted' = inserted /\ answer' = NoByte
      /\ told' = FALSE /\ UNCHANGED <<card, drive, wrote>>
      /\ FindVolume \/ NoVolume
      /\ tape' \in {Reel(id'), NoReel}
      /\ phase' \in {"guest", "open"}
  BY DEF OpenTape, Config, NextLine
<1>2. TypeOK
  BY DEF IInv
<1>3. /\ ready' \in BOOLEAN /\ mounted' \in BOOLEAN /\ id' \in 0 .. MaxMounts
      /\ ready' => inserted'
      /\ \/ ready /\ UNCHANGED <<ready, mounted, id>>
         \/ ~ready /\ (Mounts \/ MountFails)
  BY <1>1, <1>2, VolumeStep
<1>4. TypeOK'
  BY <1>1, <1>2, <1>3, NewObject DEF TypeOK
<1>5. CASE ready /\ UNCHANGED <<ready, mounted, id>>
  <2>1. Usable(drive)' = Usable(drive) /\ Valid(drive)' = Valid(drive)
    BY <1>1, <1>5 DEF Usable, Valid
  <2>2. Held' /\ Ids' /\ Fresh'
    BY <1>1, <1>5, <2>1 DEF IInv, Held, Ids, Fresh
  <2> QED
    BY <1>1, <1>4, <2>1, <2>2 DEF IInv, Image!Refuse
<1>6. CASE ~ready /\ (Mounts \/ MountFails)
  <2>1. Ids' /\ Valid(drive)' = FALSE /\ Usable(drive)' = FALSE
    BY <1>1, <1>6, MountsStep, MountFailsStep DEF Usable, Valid
  <2>2. Usable(drive) = FALSE
    BY <1>6 DEF Usable, Valid
  <2>3. Held' /\ Fresh'
    BY <2>1 DEF Held, Fresh
  <2> QED
    BY <1>1, <1>4, <2>1, <2>2, <2>3 DEF IInv, Image!Refuse
<1> QED
  BY <1>3, <1>5, <1>6

-----------------------------------------------------------------------------
(* The theorems.                                                           *)

LEMMA IInvInit == Init => IInv /\ Image!ImageInit
<1> SUFFICES ASSUME Init PROVE IInv /\ Image!ImageInit
  OBVIOUS
<1>1. 0 \in 0 .. MaxMounts /\ Closed \in Objects /\ Object(0) \in Objects
  BY FilesAssumption, NewObject
<1>2. ~drive.open /\ drive.fptr = 0 /\ drive.id = 0
  BY <1>1 DEF Init, Closed, Object, Objects
<1>3. TypeOK
  BY <1>1, NewObject DEF Init, TypeOK
<1>4. Valid(drive) = FALSE /\ Usable(drive) = FALSE
  BY <1>2 DEF Usable, Valid
<1>5. Held /\ Ids /\ Fresh
  BY <1>2, <1>4 DEF Init, Held, Ids, Fresh
<1>6. Image!ImageInit
  BY <1>2, <1>4, SameSizes DEF Init, Image!ImageInit
<1> QED
  BY <1>3, <1>5, <1>6 DEF IInv

LEMMA IInvNext ==
  IInv /\ [Next]_vars => IInv' /\ [Image!ImageNext]_(Image!imageVars)
<1> SUFFICES ASSUME IInv, [Next]_vars
             PROVE  IInv' /\ [Image!ImageNext]_(Image!imageVars)
  OBVIOUS
<1>1. ASSUME NEW p \in 0 .. Size, Seek(p)
      PROVE  IInv' /\ Image!ImageNext
  BY <1>1, SeekStep, SameSizes DEF Image!ImageNext
<1>2. CASE Read
  BY <1>2, ReadStep DEF Image!ImageNext
<1>3. ASSUME NEW b \in Bytes, Write(b)
      PROVE  IInv' /\ Image!ImageNext
  BY <1>3, WriteStep DEF Image!ImageNext
<1>4. CASE Refuse
  BY <1>4, RefuseStep DEF Image!ImageNext
<1>5. CASE TapeStep
  BY <1>5, TapeLeavesImage DEF Image!ImageNext
<1>6. CASE Reset
  BY <1>6, ResetStep DEF Image!ImageNext
<1>7. CASE OpenDrive
  BY <1>7, OpenDriveStep DEF Image!ImageNext
<1>8. CASE OpenTape
  BY <1>8, OpenTapeStep DEF Image!ImageNext
<1>9. CASE Pull
  BY <1>9, PullStep DEF Image!ImageNext
<1>10. CASE Insert
  BY <1>10, InsertStep DEF Image!ImageNext
<1>11. CASE UNCHANGED vars
  <2>1. UNCHANGED <<card, inserted, ready, mounted, id, drive, tape, told,
                    phase, wrote, answer>>
    BY <1>11 DEF vars, volume
  <2>2. Usable(drive)' = Usable(drive) /\ Valid(drive)' = Valid(drive)
    BY <2>1 DEF Usable, Valid
  <2> QED
    BY <2>1, <2>2 DEF IInv, TypeOK, Held, Ids, Fresh, Image!imageVars
<1> QED
  BY <1>1, <1>2, <1>3, <1>4, <1>5, <1>6, <1>7, <1>8, <1>9, <1>10, <1>11
  DEF Next, Open, TapeStep

(* Every reachable state is of the declared types: no position outside a   *)
(* file and no sector outside the image, however the card is pulled and    *)
(* mounted (ff.c:3512-3724, ff.c:4002-4154).                               *)
THEOREM TypeCorrect == Spec => []TypeOK
<1>1. IInv => TypeOK
  BY DEF IInv
<1> QED
  BY IInvInit, IInvNext, <1>1, PTL DEF Spec

(* For every size of sector, image and tape, and with transfers that fail  *)
(* at any point: while the file is usable nothing but the sector in the    *)
(* buffer is at risk (ff.c:3655-3700).                                     *)
THEOREM AtRisk == Spec => []OneSectorAtRisk
<1>1. IInv => OneSectorAtRisk
  BY DEF IInv, Held, OneSectorAtRisk
<1> QED
  BY IInvInit, IInvNext, <1>1, PTL DEF Spec

(* The file behind a drive, with its buffer, its position, its errors and  *)
(* its mounts, is the array of bytes of module ImageFile (filesystem.c:38- *)
(* 77 over ff.c).                                                          *)
THEOREM FileIsImage == Spec => ImplementsImage
BY IInvInit, IInvNext, PTL DEF Spec, ImplementsImage, Image!ImageSpec
=============================================================================
