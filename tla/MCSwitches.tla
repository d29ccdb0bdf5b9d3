----------------------------- MODULE MCSwitches -----------------------------
(* A debounce time of three ticks against a bounce of two, on a tick that  *)
(* comes round within two strokes.                                         *)
EXTENDS Switches
=============================================================================
