---------------------------- MODULE MCSerialPort ----------------------------
(* A ring of a few slots, which goes round several times within MaxBytes.  *)
EXTENDS SerialPort
=============================================================================
