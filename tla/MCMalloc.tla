------------------------------ MODULE MCMalloc ------------------------------
(***************************************************************************)
(* A heap of some 20 bytes for Malloc, with a size_t of two bytes.         *)
(***************************************************************************)
EXTENDS Malloc

MCLimits == {20, 26}
MCArrays == {<<2, 2>>}
MCLens   == {0, 3, 6, SizeMod - 1, SizeMod - W}
MCReLens == {2, 5, 9, SizeMod - W - 1}
MCReAny  == {0, 1, 3}
=============================================================================
