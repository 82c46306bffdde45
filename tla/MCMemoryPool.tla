---------------------------- MODULE MCMemoryPool ----------------------------
(***************************************************************************)
(* Small instance of MemoryPool: requests one byte inside and exactly at   *)
(* the slack from each other, and a limit that two or three blocks reach.  *)
(***************************************************************************)
EXTENDS MemoryPool, TLC

CONSTANTS b1, b2, b3

MCBlocks == {b1, b2, b3}
MCSizes == {10, 59, 60}
MCTimes == {0, 2}
MCSymmetry == Permutations(MCBlocks)
=============================================================================
