------------------------------ MODULE MCDunePage ------------------------------
(***************************************************************************)
(* DunePage with model values for the threads, which are alike.            *)
(***************************************************************************)
EXTENDS DunePage, TLC

CONSTANTS t1, t2

MCThreads == {t1, t2}

ThreadSymmetry == Permutations(MCThreads)
=============================================================================
