---------------------------- MODULE MCSandboxMem ----------------------------
(***************************************************************************)
(* SandboxMem with places that the program names: a page of the heap, the  *)
(* pages where its first two mappings go, and one that reaches beyond the  *)
(* space.                                                                  *)
(***************************************************************************)
EXTENDS SandboxMem

MCPlaces == {<<0, 1>>, <<3, 2>>, <<6, 2>>}
=============================================================================
