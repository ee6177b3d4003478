------------------------------ MODULE MCFreemap -----------------------------
(***************************************************************************)
(* Freemap for TLC: two disk blocks of two words of two bits, so that a    *)
(* bit's word, its block and its place in both all differ.                 *)
(***************************************************************************)
EXTENDS Freemap
=============================================================================
