--------------------------- MODULE MCConversations ---------------------------
(***************************************************************************)
(* A small instance of each component of Conversations.                    *)
(***************************************************************************)
EXTENDS Conversations, TLC

CONSTANTS c1, yes

(* An approval that names the command it answers. *)
MCNamed == [a \in Approvals |-> IF a = yes THEN c1 ELSE None]

(* A chain of replies that ends with a recall; 1 and 3, too far apart for   *)
(* one thread, may have been stored before replies were resolved.           *)
MCParent == 1 :> 0 @@ 3 :> 1 @@ 4 :> 3

(* 1 and 2 are of one conversation, 3 is of another.  Two proposals and no  *)
(* links, or one proposal among links.                                      *)
MCConv == <<1, 1, 3>>

(* The second message ends the matter; what is decided after that is said   *)
(* in another conversation.                                                 *)
MCTwoConvs == <<1, 1, 2>>
MCSays == <<"question", "done", "decision">>
===============================================================================
