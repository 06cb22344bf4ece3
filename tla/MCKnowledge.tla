----------------------------- MODULE MCKnowledge -----------------------------
(***************************************************************************)
(* A small instance of each component of Knowledge.                        *)
(***************************************************************************)
EXTENDS Knowledge

MCBounds(conv, maxCited, maxFacts, maxCommands) ==
    [Last |-> Len(conv), Conv |-> conv, Subject |-> [e \in DOMAIN conv |-> "plan"],
     Says |-> [e \in DOMAIN conv |-> IF e = 1 THEN "yes" ELSE "no"], MaxBatch |-> 2,
     MaxCited |-> maxCited, MaxFacts |-> maxFacts, MaxCommands |-> maxCommands]

(* Two messages of one conversation about one subject, which a candidate    *)
(* may cite together; one fact that the owner corrects and corrects again;  *)
(* and A, B, A: the sequence a cursor of the account must not jump through. *)
MCFacts == MCBounds(<<"A", "A">>, 2, 2, 1)
MCRevisions == MCBounds(<<"A">>, 1, 3, 2)
MCScan == MCBounds(<<"A", "B", "A">>, 1, 0, 2)

(* Three messages of two senders, in two conversations and two threads; the *)
(* third answers the first out of another thread.  Or two messages of one   *)
(* thread, and a command of the owner, which fulfils a commitment.          *)
MCRemotely ==
    [Events |-> {1, 2, 3}, Commands |-> {}, Conversations |-> {"c1", "c2"},
     Threads |-> {"t1", "t2"}, Actors |-> {"ann", "bob"}, conversation |-> <<"c1", "c2", "c1">>,
     actor |-> <<"ann", "bob", "bob">>, reply_to |-> <<0, 0, 1>>, thread |-> <<"t1", "t2", "t2">>,
     root_event |-> [t1 |-> 1, t2 |-> 2], DerivedKinds |-> {"claim"}, CandidateLimit |-> 3,
     MaxDerived |-> 1, Modes |-> {"normal", "restricted"}]
MCLocally ==
    [Events |-> {1, 2, 3}, Commands |-> {3}, Conversations |-> {"c1", "c2"},
     Threads |-> {"t1"}, Actors |-> {"ann", "bob"}, conversation |-> <<"c1", "c2", "c2">>,
     actor |-> <<"ann", "bob", "bob">>, reply_to |-> <<0, 0, 0>>, thread |-> <<"t1", "t1", "t1">>,
     root_event |-> [t1 |-> 1], DerivedKinds |-> {"commitment", "person", "project"},
     CandidateLimit |-> 3, MaxDerived |-> 1, Modes |-> {"normal", "local_only", "restricted"}]

(* Three rows whose keys tie in every column but the id, and a page of one  *)
(* row: each boundary between two rows is a boundary between two pages.     *)
MCCreatedAt == <<1, 2, 2>>
===============================================================================
