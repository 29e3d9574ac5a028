---------------------------- MODULE MCRdmaClient ----------------------------
(***************************************************************************)
(* RdmaClient for TLC.  Offsets, contents and Garbage are model values.    *)
(***************************************************************************)
EXTENDS RdmaClientInv, TLC

CONSTANTS p0, p1, a, b

MCOffsets == {p0, p1}
MCData == {a, b}
MCSymmetry == Permutations(MCOffsets) \cup Permutations(MCData)
=============================================================================
