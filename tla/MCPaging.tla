------------------------------ MODULE MCPaging ------------------------------
(***************************************************************************)
(* Paging for TLC: pages are numbers, contents are model values.           *)
(***************************************************************************)
EXTENDS Paging, TLC

CONSTANTS a, b

MCPages == 0..(PageNr - 1)
MCData == {a, b}
MCSymmetry == Permutations(MCData)
=============================================================================
