-------------------------- MODULE MCRealtimeSpool ---------------------------
(* RealtimeSpool for TLC; the .cfg files choose the bounds. *)
EXTENDS RealtimeSpool
=============================================================================
