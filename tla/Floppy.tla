------------------------------- MODULE Floppy -------------------------------
(***************************************************************************)
(* The 88-DCDD floppy controller (88dcdd.c): four drives that share one    *)
(* selected drive, one head-loaded flag and one flip-flop between the two  *)
(* halves of a sector poll.  Each drive is an image file with a read/write *)
(* position.                                                               *)
(*                                                                         *)
(* Every action is one port handler, called by an IN or OUT of the guest,  *)
(* which may issue them in any order.  Handlers run in the main loop only; *)
(* RESET reopens the files between two of them.  The status byte is kept   *)
(* as the set of its active (zero) bits.                                   *)
(*                                                                         *)
(* The file may refuse any seek or transfer, once or for good (module      *)
(* Files), and then stays where it is.  A seek that breaks off half-way    *)
(* leaves it somewhere else, but refusing whatever comes until it is       *)
(* opened anew, so that where it is does not matter.                       *)
(***************************************************************************)
EXTENDS Integers

CONSTANTS
    Drives,         \* the drives, MAX_FLOPPY_DISKS of them
    NoDisk,         \* selected: &floppy_disk_drive.nodisk
    Null,           \* selected: the null pointer, before the first select
    SectorsPerTrack,\* 32
    SectorBytes,    \* SECTOR, 137
    TrackValues,    \* values of the uint8_t track, 256
    MaxPosition,    \* bound: no transfer takes a file beyond it
    Commands,       \* the function bytes the guest may send, as sets of bits
    MaxMoves        \* bound: selects, functions and resets in one behaviour

Functions ==
    {"step_in", "step_out", "head_load", "head_unload", "write_enable"}

ASSUME FloppyAssumption ==
    /\ NoDisk \notin Drives /\ Null \notin Drives /\ Null # NoDisk
    /\ SectorsPerTrack \in Nat \ {0} /\ SectorBytes \in Nat \ {0}
    /\ TrackValues \in Nat \ {0} /\ MaxPosition \in Nat
    /\ Commands \subseteq SUBSET Functions
    /\ MaxMoves \in Nat

(* The status bits with a meaning here; "other" stands for the rest.       *)
Bits == {"enwd", "head", "track0", "nrda", "other"}

TrackBytes == SectorsPerTrack * SectorBytes

VARIABLES
    valid,          \* the drives whose image file is open
    track, sector, write_status, status,    \* of each drive
    pos,            \* position of each drive's file
    current,        \* the selected drive
    head_loaded,
    flip_flop,      \* the static of floppy_sector
    answer,         \* history: what the last sector poll returned
    mark,           \* history: of the last first half of a poll, "sought" or
                    \* "refused" as the file took its seek or not; "disturbed"
                    \* once the guest has done something to the drive since
    burst,          \* history: of each drive, the bytes sent since a write was
                    \* enabled where the sector polls said
    moves           \* history: selects, functions and resets so far

disk    == <<track, sector, write_status, status>>
history == <<answer, mark, burst, moves>>
vars    == <<valid, disk, pos, current, head_loaded, flip_flop, history>>

(* A sector poll that put nothing on the data bus, or was not the last     *)
(* operation.                                                              *)
NoAnswer == [number |-> -1, true |-> FALSE]

(* No such write.  Past the second byte too many they are not counted.     *)
NoBurst    == -1
Counted(n) == IF n \in {NoBurst, SectorBytes + 2} THEN n ELSE n + 1

TypeOK ==
    /\ valid \subseteq Drives
    /\ track \in [Drives -> 0 .. TrackValues - 1]
    /\ sector \in [Drives -> 0 .. SectorsPerTrack]
    /\ write_status \in [Drives -> 0 .. SectorBytes]
    /\ status \in [Drives -> SUBSET Bits]
    /\ pos \in [Drives -> Nat]
    /\ current \in Drives \cup {NoDisk, Null}
    /\ head_loaded \in BOOLEAN
    /\ flip_flop \in BOOLEAN
    /\ answer \in [number : Int, true : BOOLEAN]
    /\ mark \in {"sought", "refused", "disturbed"}
    /\ burst \in [Drives -> NoBurst .. SectorBytes + 2]
    /\ moves \in 0 .. MaxMoves

-----------------------------------------------------------------------------
(* Opened by config_read: every field of a drive is zero, so every status  *)
(* bit is active.                                                          *)
Init ==
    /\ valid \in SUBSET Drives
    /\ track = [d \in Drives |-> 0]
    /\ sector = [d \in Drives |-> 0]
    /\ write_status = [d \in Drives |-> 0]
    /\ status = [d \in Drives |-> Bits]
    /\ pos = [d \in Drives |-> 0]
    /\ current = Null
    /\ head_loaded = FALSE
    /\ flip_flop = FALSE
    /\ answer = NoAnswer
    /\ mark = "disturbed"
    /\ burst = [d \in Drives |-> NoBurst]
    /\ moves = 0

(* The null pointer passes for a valid drive: file_is_valid looks at the   *)
(* first word of memory, which is the initial stack pointer.               *)
floppy_valid == current \in valid \cup {Null}

(* What a handler does through it stays clear of the drives, and the file  *)
(* operations are refused.                                                 *)
OnDrive == floppy_valid /\ current # Null

Move == moves < MaxMoves /\ moves' = moves + 1 /\ answer' = NoAnswer

(* Mutant: selecting no drive leaves the head loaded.                      *)
SelectKeepsHead(d) ==
    /\ Move
    /\ mark' = "disturbed"
    /\ current' = IF d \in valid THEN d ELSE NoDisk
    /\ UNCHANGED <<valid, disk, pos, head_loaded, flip_flop, burst>>

(* floppy_disk_select.  Nothing else about the drives changes, neither the *)
(* head nor the flip-flop.                                                 *)
Select(d) ==
    /\ Move
    /\ mark' = "disturbed"
    /\ IF d \in valid
         THEN current' = d /\ UNCHANGED head_loaded
         ELSE current' = NoDisk /\ head_loaded' = FALSE
    /\ UNCHANGED <<valid, disk, pos, flip_flop, burst>>

(* floppy_disk_status refreshes the two bits that follow other state.      *)
StatusBits ==
    (status[current] \ {"head", "track0"})
      \cup (IF head_loaded THEN {"head"} ELSE {})
      \cup (IF track[current] = 0 THEN {"track0"} ELSE {})

Status ==
    /\ floppy_valid
    /\ status' = IF OnDrive THEN [status EXCEPT ![current] = StatusBits]
                 ELSE status
    /\ answer' = NoAnswer
    /\ UNCHANGED <<valid, track, sector, write_status, pos, current,
                   head_loaded, flip_flop, mark, burst, moves>>

-----------------------------------------------------------------------------
(* floppy_disk_function tests the bits of its byte one after the other.    *)
(* Where the head ends up, from track t:                                   *)
NextTrack(t)       == IF t + 1 = TrackValues THEN 0 ELSE t + 1
SteppedIn(cmd, t)  == IF "step_in" \in cmd THEN NextTrack(t) ELSE t
SteppedOut(cmd, t) == IF "step_out" \in cmd /\ t > 0 THEN t - 1 ELSE t
Stepped(cmd, t)    == SteppedOut(cmd, SteppedIn(cmd, t))
Steps(cmd)         == cmd \cap {"step_in", "step_out"} # {}

(* ... and the status bits, from s.                                        *)
FunctionBits(cmd, t, s) ==
    LET in  == IF "step_in" \in cmd /\ SteppedIn(cmd, t) # 0
                 THEN s \ {"track0"} ELSE s
        out == IF "step_out" \in cmd /\ Stepped(cmd, t) = 0
                 THEN in \cup {"track0"} ELSE in
        load == IF "head_load" \in cmd THEN out \cup {"head", "nrda"} ELSE out
        unload == IF "head_unload" \in cmd THEN load \ {"head"} ELSE load
    IN  IF "write_enable" \in cmd THEN unload \cup {"enwd"} ELSE unload

(* Each step seeks the track it comes to; nobody looks at the result.      *)
SteppedTo(cmd) ==
    {pos[current]}
      \cup {TrackBytes * SteppedIn(cmd, track[current]) :
              f \in cmd \cap {"step_in"}}
      \cup {TrackBytes * Stepped(cmd, track[current]) :
              f \in cmd \cap {"step_out"}}

HeadAfter(cmd) == CASE "head_unload" \in cmd -> FALSE
                    [] "head_load" \in cmd   -> TRUE
                    [] OTHER                 -> head_loaded

BurstAfter(cmd, n) ==
    CASE Steps(cmd) -> NoBurst
      [] ~Steps(cmd) /\ "write_enable" \in cmd ->
           IF mark = "sought" THEN 0 ELSE NoBurst
      [] OTHER -> n

FunctionOnDrive(cmd) ==
    /\ track' = [track EXCEPT ![current] = Stepped(cmd, @)]
    /\ status' = [status EXCEPT ![current] =
                    FunctionBits(cmd, track[current], @)]
    /\ \E p \in SteppedTo(cmd) : pos' = [pos EXCEPT ![current] = p]
    /\ write_status' = IF "write_enable" \in cmd
                         THEN [write_status EXCEPT ![current] = 0]
                         ELSE write_status
    /\ mark' = IF Steps(cmd) THEN "disturbed" ELSE mark
    /\ burst' = [burst EXCEPT ![current] = BurstAfter(cmd, @)]

Function(cmd) ==
    /\ floppy_valid
    /\ Move
    /\ head_loaded' = HeadAfter(cmd)
    /\ IF OnDrive THEN FunctionOnDrive(cmd)
       ELSE UNCHANGED <<track, status, pos, write_status, mark, burst>>
    /\ UNCHANGED <<valid, sector, current, flip_flop>>

-----------------------------------------------------------------------------
(* floppy_sector.  With the head unloaded it leaves everything alone.      *)

(* First half: move to the next sector and announce it as not yet there,   *)
(* whether the file takes the seek or not.                                 *)
NextSectorLate(s) == IF s > SectorsPerTrack THEN 0 ELSE s
NextSector(s)     == IF s = SectorsPerTrack THEN 0 ELSE s

SectorStart(t, s) == t * TrackBytes + s * SectorBytes

MarkOnDrive ==
    LET s == NextSector(sector[current]) IN
    /\ \/ /\ mark' = "sought"
          /\ pos' = [pos EXCEPT ![current] = SectorStart(track[current], s)]
       \/ /\ mark' = "refused"
          /\ UNCHANGED pos
    /\ answer' = [number |-> s, true |-> FALSE]
    /\ sector' = [sector EXCEPT ![current] = s + 1]
    /\ burst' = [burst EXCEPT ![current] = NoBurst]

(* What a poll through the null pointer answers: anything.                 *)
Garbage(half) == [number : -1 .. SectorsPerTrack, true : {half}]

SectorMark ==
    /\ head_loaded
    /\ ~flip_flop
    /\ flip_flop' = TRUE
    /\ IF OnDrive THEN MarkOnDrive
       ELSE /\ answer' \in IF floppy_valid THEN Garbage(FALSE) ELSE {NoAnswer}
            /\ mark' = "disturbed"
            /\ UNCHANGED <<sector, pos, burst>>
    /\ UNCHANGED <<valid, track, write_status, status, current, head_loaded,
                   moves>>

(* Second half: announce the sector before the counter as being there.     *)
Announce ==
    /\ head_loaded
    /\ flip_flop
    /\ answer' \in IF current = Null THEN Garbage(TRUE)
                   ELSE {[number |-> sector[current] - 1, true |-> TRUE]}
    /\ UNCHANGED <<valid, disk, pos, current, head_loaded, mark, burst, moves>>

(* Mutant: the flip-flop is not turned back.                               *)
SectorTrueForever == Announce /\ UNCHANGED flip_flop

SectorTrue == Announce /\ flip_flop' = FALSE

-----------------------------------------------------------------------------
(* Transfers.  file_read and file_write move the file by a byte, or fail   *)
(* (end of file, card error) and leave it where it is.                     *)
Advance ==
    /\ \E p \in {pos[current], pos[current] + 1} :
         /\ p = pos[current] \/ p <= MaxPosition
         /\ pos' = [pos EXCEPT ![current] = p]
    /\ answer' = NoAnswer
    /\ mark' = "disturbed"

(* floppy_read.                                                            *)
Read ==
    /\ OnDrive
    /\ Advance
    /\ burst' = [burst EXCEPT ![current] = NoBurst]
    /\ UNCHANGED <<valid, disk, current, head_loaded, flip_flop, moves>>

Sent == burst' = [burst EXCEPT ![current] = Counted(@)]

(* Mutant: bytes are not counted.                                          *)
WriteForever ==
    /\ OnDrive
    /\ Advance /\ Sent
    /\ UNCHANGED <<valid, disk, current, head_loaded, flip_flop, moves>>

(* floppy_write: SectorBytes bytes go to the file, whether the file takes  *)
(* them or not, and whether or not ENWD is on ...                          *)
WriteByte ==
    /\ OnDrive
    /\ write_status[current] # SectorBytes
    /\ Advance /\ Sent
    /\ write_status' = [write_status EXCEPT ![current] = @ + 1]
    /\ UNCHANGED <<valid, track, sector, status, current, head_loaded,
                   flip_flop, moves>>

(* ... the next is dropped and turns ENWD off, and the counting begins     *)
(* again.                                                                  *)
WriteEnd ==
    /\ OnDrive
    /\ write_status[current] = SectorBytes
    /\ write_status' = [write_status EXCEPT ![current] = 0]
    /\ status' = [status EXCEPT ![current] = @ \ {"enwd"}]
    /\ answer' = NoAnswer
    /\ Sent
    /\ UNCHANGED <<valid, track, sector, pos, current, head_loaded, flip_flop,
                   mark, moves>>

-----------------------------------------------------------------------------
(* config_read opens the images of the drives it finds in the file anew;   *)
(* opening may fail.  The selection, the head and the flip-flop stay.      *)
Zeroed(f, ds) == [d \in Drives |-> IF d \in ds THEN 0 ELSE f[d]]

Reset ==
    /\ Move
    /\ mark' = "disturbed"
    /\ \E configured \in SUBSET Drives : \E opened \in SUBSET configured :
         /\ valid' = (valid \ configured) \cup opened
         /\ track' = Zeroed(track, configured)
         /\ sector' = Zeroed(sector, configured)
         /\ write_status' = Zeroed(write_status, configured)
         /\ pos' = Zeroed(pos, configured)
         /\ status' = [d \in Drives |->
                         IF d \in configured THEN Bits ELSE status[d]]
         /\ burst' = [d \in Drives |->
                         IF d \in configured THEN NoBurst ELSE burst[d]]
    /\ UNCHANGED <<current, head_loaded, flip_flop>>

-----------------------------------------------------------------------------
Next ==
    \/ \E d \in Drives \cup {NoDisk} : Select(d)
    \/ Status
    \/ \E cmd \in Commands : Function(cmd)
    \/ SectorMark \/ SectorTrue
    \/ Read \/ WriteByte \/ WriteEnd
    \/ Reset

Spec == Init /\ [][Next]_vars

(* The guest polls for sectors again and again, as the CP/M disk driver    *)
(* does until its sector comes by.                                         *)
FairSpec == Spec /\ WF_vars(SectorMark) /\ WF_vars(SectorTrue)

-----------------------------------------------------------------------------
(* When a poll announces that a sector is under the head, and the guest    *)
(* has neither stepped, transferred, selected nor reset since the first    *)
(* half of that poll, the sector exists and the image is positioned at its *)
(* first byte, whatever other drives, tracks and failures came before that *)
(* half.  Only if the file refused the seek of that very half, whose       *)
(* result is not looked at (88dcdd.c:161), is the sector announced with    *)
(* the image elsewhere.                                                    *)
TrueSectorAtPosition ==
    answer.true /\ mark # "disturbed" =>
        /\ current \in valid
        /\ answer.number \in 0 .. SectorsPerTrack - 1
        /\ mark = "sought" =>
             pos[current] = SectorStart(track[current], answer.number)

(* A guest that stops when ENWD goes off never writes outside the sector   *)
(* the polls said, even if transfers fail or it writes on two drives by    *)
(* turns: the first SectorBytes + 1 bytes after the enable stay in the     *)
(* sector, and ENWD is off when the next, the first that may leave it, is  *)
(* sent (88dcdd.c:178-186; line 186 does not look at ENWD).                *)
EnabledWriteStaysInSector ==
    \A d \in Drives : burst[d] # NoBurst =>
        LET start == SectorStart(track[d], sector[d] - 1)
        IN  /\ burst[d] <= SectorBytes + 1 =>
                 pos[d] \in start .. start + SectorBytes
            /\ burst[d] > SectorBytes => "enwd" \notin status[d]

(* Once the guest has selected anything, the head is loaded on a drive     *)
(* only, so the second half of a poll, which does not ask whether the      *)
(* drive is valid (88dcdd.c:139-145), never announces the sector before    *)
(* the first of the empty slot.  Before the first select the head can be   *)
(* loaded through the null pointer, and polls answer anything.             *)
HeadOnDrive == head_loaded /\ current # Null => current \in Drives

(* A guest that goes on polling a drive is shown every sector again and    *)
(* again, in spite of transfers and status reads in between.               *)
Ready == head_loaded /\ current \in valid

EverySectorComesRound ==
    \A n \in 0 .. SectorsPerTrack - 1 :
        <>[]Ready => []<>(answer = [number |-> n, true |-> TRUE])
=============================================================================
