----------------------------- MODULE MCPageTable -----------------------------
(* A small instance of PageTable: two-entry directories; pages 1 to 3 begin *)
(* inside a directory of level 0 and cross its border, 2 to 3 fill one, and *)
(* 0 to 3 fill one of level 1.  The pool's window is pages 4 to 7.           *)
EXTENDS PageTable

MCRanges == {<<1, 1>>, <<1, 3>>, <<0, 3>>}
MCBigRanges == {<<2, 3>>}
MCGiantRanges == {<<0, 3>>}
MCPoolRange == <<4, 7>>
MCPerms == {{"R", "W"}, {"COW"}}
=============================================================================
