------------------------------ MODULE MCSelect ------------------------------
(* CgSelect with words of 8 bits: i4 stands for the 8 and 16 bits of the    *)
(* narrow types, i12 for the odd widths, i16 for i64 and i17 for i65.       *)
EXTENDS CgSelect

(* The ends of the ranges of each width, and 1s that mean nothing.          *)
MCWideWords == {0, 1, 7, 127, 128, 248, 255}
MCSmallWords == {0, 1, 2, 3, 7, 8, 15, 16, 17, 127, 128, 136, 240, 248, 255}
=============================================================================
