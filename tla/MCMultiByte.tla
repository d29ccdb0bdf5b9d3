---------------------------- MODULE MCMultiByte ----------------------------
(* Bytes at the boundaries of digits, nibbles and signs.                   *)
EXTENDS MultiByte

MCBytes ==
    {0, 1, 9, 15, 25, 89, 127, 128, 153, 255}
=============================================================================
