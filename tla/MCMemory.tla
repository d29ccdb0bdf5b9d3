------------------------------ MODULE MCMemory ------------------------------
(* Three pages of two bytes.  The ROMs: one page, two pages, one that      *)
(* starts in the middle of a page and one that ends in the middle.         *)
EXTENDS Memory

MCRoms == {[offset |-> 2, size |-> 2], [offset |-> 2, size |-> 4],
           [offset |-> 1, size |-> 2], [offset |-> 0, size |-> 3]}
=============================================================================
