-------------------------------- MODULE Files --------------------------------
(***************************************************************************)
(* The files of the machine on the SD card: the image in a floppy drive    *)
(* and the tape of serial port 2 (filesystem.c over FatFs's ff.c), and the *)
(* part of config_read that mounts the card and opens them.                *)
(*                                                                         *)
(* A file object has a position and a buffer of one sector, which goes to  *)
(* the card when another sector is needed.  It belongs to one mount of the *)
(* card: mounting again gives the volume a new id, and every object that   *)
(* carries an old one is refused from then on.  A transfer that fails sets *)
(* err, which nothing but a new f_open clears.                             *)
(*                                                                         *)
(* Handlers run in the main loop only, one after the other.  The card may  *)
(* be pulled, put in or exchanged at any time, and any transfer may fail.  *)
(* Positions stay inside the file: images have their full size.            *)
(***************************************************************************)
EXTENDS Naturals

CONSTANTS
    Bytes,
    SectorSize,     \* bytes of a sector, 512
    Sectors,        \* sectors of the image
    TapeSize,       \* bytes of the tape
    MaxMounts,      \* bound: times the card is mounted
    NoByte          \* the answer of anything but a read

ASSUME FilesAssumption ==
    /\ SectorSize \in Nat \ {0} /\ Sectors \in Nat \ {0}
    /\ TapeSize \in Nat /\ MaxMounts \in Nat
    /\ Bytes # {} /\ NoByte \notin Bytes

Size    == SectorSize * Sectors
Places  == 0 .. Size - 1
Buffers == [0 .. SectorSize - 1 -> Bytes]

(* Where a byte of the file is: its sector, and its place in the buffer.   *)
SectorOf(p) == p \div SectorSize + 1
Offset(p)   == p % SectorSize

VARIABLES
    card,           \* the bytes of the image on the card
    inserted,       \* SD_CD is low
    ready,          \* the card has been initialised since it was put in
    mounted, id,    \* fs->fs_type # 0 and fs->id
    drive,          \* floppy_disk_drive.disks[n].fp
    tape,           \* serial2_tape_file
    told,           \* history: the last tape status said RDRF
    phase,          \* "guest", or "open": config_read has met the name of a file
    wrote,          \* history: the bytes of the image as the guest wrote them
    answer          \* history: what the last step has read from the drive

volume == <<mounted, id>>
vars   == <<card, inserted, ready, volume, drive, tape, told, phase, wrote,
          answer>>

-----------------------------------------------------------------------------
(* FIL: fs # 0, obj.id, fptr, sect (0: nothing in buf), buf, FA_DIRTY and  *)
(* err.  FA_MODIFIED is set with FA_DIRTY.                                 *)
Objects ==
    [open : BOOLEAN, id : 0 .. MaxMounts, fptr : 0 .. Size, sect : 0 .. Sectors,
     buf : Buffers, dirty : BOOLEAN, err : BOOLEAN]

Zeros == CHOOSE b \in Buffers : TRUE

Object(i) == [open |-> TRUE, id |-> i, fptr |-> 0, sect |-> 0, buf |-> Zeros,
              dirty |-> FALSE, err |-> FALSE]
Closed == [Object(0) EXCEPT !.open = FALSE]

(* The tape is read only: what is in its buffer does not matter here.      *)
Reel(i) == [open |-> TRUE, id |-> i, fptr |-> 0, err |-> FALSE]
NoReel  == [Reel(0) EXCEPT !.open = FALSE]

TypeOK ==
    /\ card \in [Places -> Bytes]
    /\ inserted \in BOOLEAN /\ ready \in BOOLEAN /\ (ready => inserted)
    /\ mounted \in BOOLEAN /\ id \in 0 .. MaxMounts
    /\ drive \in Objects
    /\ tape \in [open : BOOLEAN, id : 0 .. MaxMounts, fptr : 0 .. TapeSize,
                 err : BOOLEAN]
    /\ told \in BOOLEAN
    /\ phase \in {"guest", "open"}
    /\ wrote \in [Places -> Bytes]
    /\ answer \in Bytes \cup {NoByte}

Init ==
    /\ card \in [Places -> Bytes]
    /\ inserted \in BOOLEAN
    /\ ready = FALSE
    /\ mounted = FALSE /\ id = 0
    /\ drive = Closed /\ tape = NoReel /\ told = FALSE
    /\ phase = "guest"
    /\ wrote = card
    /\ answer = NoByte

(* Mutant: whichever mount the object is of.                               *)
ValidAnyMount(f) == f.open /\ mounted /\ ready

(* validate, followed by the test of err (which f_sync leaves out).        *)
Valid(f)  == f.open /\ mounted /\ f.id = id /\ ready
Usable(f) == Valid(f) /\ ~f.err

-----------------------------------------------------------------------------
(* The buffer of the drive.                                                *)

(* Mutant: the buffer is replaced without having been written.             *)
NotStored(f) == card

(* The card after disk_write of a dirty buffer.                            *)
Stored(f) ==
    IF f.dirty
      THEN [p \in Places |-> IF SectorOf(p) = f.sect THEN f.buf[Offset(p)]
                             ELSE card[p]]
      ELSE card

Page(c, s) == [k \in 0 .. SectorSize - 1 |-> c[SectorSize * (s - 1) + k]]

(* The buffer is written if it is dirty, and holds sector s afterwards.    *)
Turned(f, s) ==
    IF f.sect = s THEN [f EXCEPT !.dirty = FALSE]
    ELSE [f EXCEPT !.dirty = FALSE, !.sect = s, !.buf = Page(Stored(f), s)]

(* What a failing transfer leaves: the write may have come through or not, *)
(* the read may have filled a part of the buffer.                          *)
Breaks(f) ==
    /\ answer' = NoByte
    /\ UNCHANGED wrote
    /\ \/ /\ card' \in {card, Stored(f)}
          /\ drive' = [f EXCEPT !.err = TRUE]
       \/ /\ card' = Stored(f)
          /\ \E b \in Buffers :
                drive' = [f EXCEPT !.dirty = FALSE, !.buf = b, !.err = TRUE]

Guest == /\ phase = "guest"
         /\ UNCHANGED <<inserted, ready, volume, phase>>
Drive == Guest /\ UNCHANGED <<tape, told>>

(* file_seek.  A position at the start of a sector leaves the buffer to    *)
(* the operation that comes next.                                          *)
Seek(p) ==
    /\ Drive /\ Usable(drive)
    /\ LET near == Offset(p) = 0 \/ SectorOf(p) = drive.sect
           f    == IF near THEN drive ELSE Turned(drive, SectorOf(p))
       IN  \/ /\ drive' = [f EXCEPT !.fptr = p]
              /\ card' = IF near THEN card ELSE Stored(drive)
              /\ answer' = NoByte
              /\ UNCHANGED wrote
           \/ Breaks([drive EXCEPT !.fptr = p])

(* file_read.                                                              *)
Read ==
    /\ Drive /\ Usable(drive)
    /\ drive.fptr < Size
    /\ LET p    == drive.fptr
           near == Offset(p) # 0 \/ SectorOf(p) = drive.sect
           f    == IF near THEN drive ELSE Turned(drive, SectorOf(p))
       IN  \/ /\ drive' = [f EXCEPT !.fptr = p + 1]
              /\ card' = IF near THEN card ELSE Stored(drive)
              /\ answer' = f.buf[Offset(p)]
              /\ UNCHANGED wrote
           \/ ~near /\ Breaks(drive)

(* file_write.  At the start of a sector the buffer goes to the card even  *)
(* if it holds that sector.                                                *)
Write(b) ==
    /\ Drive /\ Usable(drive)
    /\ drive.fptr < Size
    /\ LET p    == drive.fptr
           near == Offset(p) # 0
           f    == IF near THEN drive ELSE Turned(drive, SectorOf(p))
       IN  \/ /\ drive' = [f EXCEPT !.buf[Offset(p)] = b, !.dirty = TRUE,
                                    !.fptr = p + 1]
              /\ card' = IF near THEN card ELSE Stored(drive)
              /\ wrote' = [wrote EXCEPT ![p] = b]
              /\ answer' = NoByte
           \/ ~near /\ Breaks(drive)

(* An operation that validate or err refuses, or that has met the end of   *)
(* the file; the card's status may be misread as well.                     *)
Refuse ==
    /\ Drive
    /\ answer' = NoByte
    /\ UNCHANGED <<card, drive, wrote>>

-----------------------------------------------------------------------------
(* Serial port 2.                                                          *)
Tape == Guest /\ answer' = NoByte /\ UNCHANGED <<card, drive, wrote>>

file_eof == tape.fptr = TapeSize

(* Mutant: nothing to read at the last byte already.                       *)
RDRFEarly == tape.open /\ tape.fptr + 1 < TapeSize

(* serial2_status looks at the object only, not at the volume or at err.   *)
RDRF == tape.open /\ ~file_eof

TapeStatus ==
    /\ Tape
    /\ told' = RDRF
    /\ UNCHANGED tape

(* serial2_in; the byte that meets the end closes the file.                *)
TapeIn ==
    /\ Tape /\ Usable(tape) /\ told
    /\ told' = FALSE
    /\ tape' = IF tape.fptr + 1 >= TapeSize THEN NoReel
               ELSE [tape EXCEPT !.fptr = @ + 1]

TapeBreaks ==
    /\ Tape /\ Usable(tape) /\ told
    /\ told' = FALSE
    /\ tape' = [tape EXCEPT !.err = TRUE]

TapeRefuses ==
    /\ Tape /\ told
    /\ told' = FALSE
    /\ UNCHANGED tape

-----------------------------------------------------------------------------
(* RESET: config_read.                                                     *)
Config == UNCHANGED inserted /\ answer' = NoByte

(* find_volume initialises the card and gives the volume a new id ...      *)
Mounts ==
    /\ inserted /\ ready' = TRUE
    /\ id < MaxMounts
    /\ mounted' = TRUE /\ id' = id + 1

(* ... or does not.                                                        *)
MountFails ==
    /\ mounted' = FALSE /\ UNCHANGED id
    /\ ready' \in {FALSE, ready}

(* mount_sd, altair.cfg and its lines up to the first that names a file.   *)
(* Without a card nothing is unmounted; in any case the files of the mount *)
(* before are still open.                                                  *)
Reset ==
    /\ phase = "guest"
    /\ Config
    /\ \/ ~inserted /\ UNCHANGED <<ready, volume, phase, wrote>>
       \/ inserted /\ MountFails /\ wrote' = card /\ UNCHANGED phase
       \/ Mounts /\ wrote' = card /\ phase' \in {"guest", "open"}
    /\ UNCHANGED <<card, drive, tape, told>>

(* f_open mounts a volume whose card is not ready.                         *)
FindVolume == (ready /\ UNCHANGED <<ready, volume>>) \/ (~ready /\ Mounts)
NoVolume   == ~ready /\ MountFails

(* The lines up to the next that names a file, which config_read_line      *)
(* cannot read any more if altair.cfg is of another mount.                 *)
NextLine == phase' \in {"guest"} \cup (IF id' = id /\ ready' THEN {"open"} ELSE {})

(* config_open_file: f_close, which writes a dirty buffer if the object is *)
(* valid, and f_open.                                                      *)
OpenDrive ==
    /\ phase = "open"
    /\ Config
    /\ card' = IF Valid(drive) THEN Stored(drive) ELSE card
    /\ wrote' = card'
    /\ \/ FindVolume /\ drive' \in {Object(id'), Closed}
       \/ NoVolume /\ drive' = Closed
    /\ NextLine
    /\ UNCHANGED <<tape, told>>

OpenTape ==
    /\ phase = "open"
    /\ Config
    /\ told' = FALSE
    /\ \/ FindVolume /\ tape' \in {Reel(id'), NoReel}
       \/ NoVolume /\ tape' = NoReel
    /\ NextLine
    /\ UNCHANGED <<card, drive, wrote>>

-----------------------------------------------------------------------------
(* The hand of the user.  What the buffer holds is lost with the card:     *)
(* only a new mount makes it ready again.                                  *)
Pull ==
    /\ inserted
    /\ inserted' = FALSE /\ ready' = FALSE
    /\ wrote' = card
    /\ answer' = NoByte
    /\ UNCHANGED <<card, volume, drive, tape, told, phase>>

Insert ==
    /\ ~inserted
    /\ inserted' = TRUE
    /\ card' \in [Places -> Bytes] /\ wrote' = card'
    /\ answer' = NoByte
    /\ UNCHANGED <<ready, volume, drive, tape, told, phase>>

Open == OpenDrive \/ OpenTape

Next ==
    \/ \E p \in 0 .. Size : Seek(p)
    \/ Read
    \/ \E b \in Bytes : Write(b)
    \/ Refuse
    \/ TapeStatus \/ TapeIn \/ TapeBreaks \/ TapeRefuses
    \/ Reset \/ Open
    \/ Pull \/ Insert

Spec == Init /\ [][Next]_vars

(* altair.cfg has an end, and a guest that loads a tape polls it and reads *)
(* what is there.  It is stopped for every RESET and may be refused now    *)
(* and then, hence the strong fairness.                                    *)
FairSpec ==
    /\ Spec
    /\ SF_vars(Open /\ phase' = "guest")
    /\ SF_vars(TapeStatus)
    /\ SF_vars(TapeIn)

-----------------------------------------------------------------------------
(* While the drive's file is usable the card lacks nothing the guest has   *)
(* written but what the one dirty buffer holds: pulling the card, or the   *)
(* RESET that mounts it again, loses no more than a sector (ff.c:3645-).   *)
OneSectorAtRisk ==
    Usable(drive) =>
        \A p \in Places :
            \/ card[p] = wrote[p]
            \/ /\ drive.dirty /\ SectorOf(p) = drive.sect
               /\ drive.buf[Offset(p)] = wrote[p]

(* Seen through the drive the image is an array of bytes with a position:  *)
(* what is read is what was written there last; nothing of an old mount    *)
(* and no buffer that a failed read left half filled gets to the card, to  *)
(* another card or to the guest.                                           *)
Image == INSTANCE ImageFile WITH
    image <- wrote, saved <- card, pos <- drive.fptr, usable <- Usable(drive)

ImplementsImage == Image!ImageSpec

(* A guest that polls the status of serial port 2 comes to the end of the  *)
(* tape, unless the file is lost to it or the tape is empty: the status    *)
(* never hides a byte that is there (serial.c:120-128).                    *)
TapeLoads == tape.open ~> ~tape.open \/ ~Usable(tape) \/ TapeSize = 0
=============================================================================
