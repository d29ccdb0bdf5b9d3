------------------------------- MODULE MCLeds -------------------------------
(* One sample is followed among any number of others.                      *)
EXTENDS Leds
=============================================================================
