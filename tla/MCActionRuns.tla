----------------------------- MODULE MCActionRuns -----------------------------
(* ActionRuns for TLC; the .cfg files choose the bounds. *)
EXTENDS ActionRuns
===============================================================================
