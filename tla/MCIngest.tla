------------------------------- MODULE MCIngest -------------------------------
(***************************************************************************)
(* A small instance of each component of Ingest.                           *)
(***************************************************************************)
EXTENDS Ingest, TLC

CONSTANTS m1, m2, c1

(* A friend is listed twice; contacts have the numbers of a friend and of a *)
(* group.  Where there are two groups the contacts are cut at max_entries.  *)
MCFriends == {<<1, 1, 2>>}
MCGroups == {<<3>>, <<3, 4>>}
MCRecent == {<<>>, <<<<"friend", 4>>, <<"group", 1>>, <<"group", 4>>,
                     <<"friend", 3>>, <<"group", 5>>>>}

(* The second message to arrive may be the older one. *)
MCConv == m1 :> c1 @@ m2 :> c1
MCTime == m1 :> 2 @@ m2 :> 1

(* A heartbeat that declares no interval. *)
MCUnknown == -1

(* The grace period is long enough. *)
ASSUME MCConditions == Link!GraceCoversMessages
===============================================================================
