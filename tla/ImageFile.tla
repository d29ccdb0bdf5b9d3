------------------------------ MODULE ImageFile ------------------------------
(***************************************************************************)
(* What an image file promises to a drive: an array of bytes with a        *)
(* position, of which up to one sector has been written and not yet saved. *)
(* While the file is usable nothing is lost.  It stops being usable when a *)
(* transfer fails, when the card is pulled and when it is mounted again,   *)
(* and only then may what has not been saved be forgotten.                 *)
(***************************************************************************)
EXTENDS Naturals

CONSTANTS
    Bytes,
    SectorSize,
    Sectors,        \* sectors of the file
    NoByte          \* the answer of anything but a read

Size   == SectorSize * Sectors
Places == 0 .. Size - 1
SectorOf(p) == p \div SectorSize + 1

VARIABLES
    image,          \* what has been written
    saved,          \* what the card holds
    pos,
    usable,
    answer

imageVars == <<image, saved, pos, usable, answer>>

ImageInit ==
    /\ image \in [Places -> Bytes]
    /\ saved = image
    /\ pos = 0
    /\ usable = FALSE
    /\ answer = NoByte

(* Saving what has been written may come with any operation.               *)
Saves == saved' \in {saved, image}

Seek(p) ==
    /\ usable
    /\ pos' = p
    /\ answer' = NoByte
    /\ Saves
    /\ UNCHANGED <<image, usable>>

Read ==
    /\ usable /\ pos < Size
    /\ answer' = image[pos]
    /\ pos' = pos + 1
    /\ Saves
    /\ UNCHANGED <<image, usable>>

Write(b) ==
    /\ usable /\ pos < Size
    /\ image' = [image EXCEPT ![pos] = b]
    /\ pos' = pos + 1
    /\ answer' = NoByte
    /\ Saves
    /\ \A p \in Places : image'[p] # saved'[p] => SectorOf(p) = SectorOf(pos)
    /\ UNCHANGED usable

(* An operation that has failed without a trace.                           *)
Refuse ==
    /\ answer' = NoByte
    /\ UNCHANGED <<image, saved, pos, usable>>

(* A transfer fails halfway.                                               *)
Break ==
    /\ usable /\ ~usable'
    /\ pos' \in 0 .. Size
    /\ answer' = NoByte
    /\ Saves
    /\ UNCHANGED image

(* The drive lets go of the file, or the card is gone.                     *)
Forget ==
    /\ ~usable'
    /\ image' = saved
    /\ answer' = NoByte
    /\ UNCHANGED saved
    /\ pos' \in {pos, 0}

(* Another card is put in.                                                 *)
Swap ==
    /\ ~usable
    /\ image' \in [Places -> Bytes]
    /\ saved' = image'
    /\ answer' = NoByte
    /\ UNCHANGED <<pos, usable>>

Open ==
    /\ usable'
    /\ pos' = 0
    /\ image' = saved
    /\ answer' = NoByte
    /\ UNCHANGED saved

ImageNext ==
    \/ \E p \in 0 .. Size : Seek(p)
    \/ Read
    \/ \E b \in Bytes : Write(b)
    \/ Refuse \/ Break \/ Forget \/ Swap \/ Open

ImageSpec == ImageInit /\ [][ImageNext]_imageVars
=============================================================================
