------------------------------- MODULE MCSync -------------------------------
(* Sync between two keys on each side, which transformKey swaps, and the       *)
(* assumptions about the downloads it is made of.                              *)
EXTENDS Sync, Downloads

TwoKeys == {1, 2}
Swap == <<2, 1>>
=============================================================================
