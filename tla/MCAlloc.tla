------------------------------ MODULE MCAlloc ------------------------------
(***************************************************************************)
(* A free region of 80 bytes (and 3 that do not count) behind 4 bytes of   *)
(* data: room for five blocks.  The program writes a word that looks like  *)
(* the header of a free block.                                             *)
(***************************************************************************)
EXTENDS CvmAlloc

(* 1: the smallest block, five of which fit exactly.  66: all of the       *)
(* region, with a rest too small to be a block.  -128: the least int;      *)
(* 116: the largest that can be rounded and given a header and a footer    *)
(* without an overflow, more than the region has.                          *)
MCRequests == {-128, -1, 0, 1, 66, 116}
MCUserWords == {17}
=============================================================================
