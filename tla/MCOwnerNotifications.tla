------------------------- MODULE MCOwnerNotifications -------------------------
(* A small instance of OwnerNotifications for TLC: one item of each kind, two *)
(* rules that match the same question, as a rule for a conversation and one   *)
(* for mentions in it do, and quiet hours.                                    *)
EXTENDS OwnerNotifications, TLC

CONSTANTS talk, mention, hush

MCKind == (talk :> "conversation") @@ (mention :> "conversation") @@ (hush :> "quiet_hours")
MCCovers == (talk :> Expectations) @@ (mention :> Expectations) @@ (hush :> {})
MCRules == {[outcome |-> "delay", bypass |-> FALSE, silent |-> FALSE, allow |-> FALSE]}
Symmetric == Permutations(Owners) \cup Permutations(Senders)
===============================================================================
