---------------------------- MODULE MCGapBackfill -----------------------------
(* Small instances of GapBackfill for TLC.  Tasks are interchangeable: no    *)
(* definition orders or names them.                                          *)
EXTENDS GapBackfill, TLC

TaskSymmetry == Permutations(Tasks)
===============================================================================
