---------------------------- MODULE MCFrontPanel ----------------------------
(* Five switches: the four with a meaning and one more operation.          *)
EXTENDS FrontPanel
=============================================================================
