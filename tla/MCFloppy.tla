------------------------------ MODULE MCFloppy ------------------------------
(* Two drives, two sectors of two bytes on each of two tracks.  Function   *)
(* bytes of one bit each, and the one of every bit, for the order in which *)
(* they are tested.                                                        *)
EXTENDS Floppy

MCCommands == {{"step_in"}, {"head_load"}, {"write_enable"}, Functions}
=============================================================================
