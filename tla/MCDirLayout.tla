---------------------------- MODULE MCDirLayout ----------------------------
(***************************************************************************)
(* DirLayout for TLC: blocks of 14 cells, the names "." and ".." of 2 and  *)
(* 3 cells and five more of 2, 2, 2, 3 and 20.  An empty directory has     *)
(* room for one more entry in its first block; entries end one cell before *)
(* the end of a block, too close for a header, or would end on it, and are *)
(* moved.  Three entries have the same length and can be used for one      *)
(* another.  The name of 20 cells fits in no block: its entry lies in two  *)
(* or three, and the padding before it may pass over the end of a block.   *)
(***************************************************************************)
EXTENDS DirLayout, TLC

MCNameLen == (1 :> 2) @@ (2 :> 2) @@ (3 :> 2) @@ (4 :> 3) @@ (5 :> 20) @@ (8 :> 2) @@ (9 :> 3)
=============================================================================
