------------------------------- MODULE MCEpt -------------------------------
(***************************************************************************)
(* Ept with frames of every size, where the small frames of memory are     *)
(* alike, and the address maps that the EPT depends on.                    *)
(***************************************************************************)
EXTENDS AddressMap, TLC

CONSTANTS f1, f2, d1, h1, g1

\* Small frames, one of them a device's, a huge frame and a giant one.
MCFrames == (0 :> {f1, f2, d1}) @@ (1 :> {h1}) @@ (2 :> {g1})

\* Bound: the process has at most two ranges mapped at a time.
FewRanges == Cardinality({n \in Nodes : host[n] # None}) <= 2

Symmetry == Permutations({f1, f2})
=============================================================================
