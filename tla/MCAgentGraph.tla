----------------------------- MODULE MCAgentGraph -----------------------------
(* Values of AgentGraph's constants that a configuration cannot write.      *)
EXTENDS AgentGraph

Partial(D, R) == UNION {[S -> R] : S \in SUBSET D}
Exit(source, route) == [source |-> source, route |-> route]

(* Every fragment of the nodes x and y, the refused ones too. *)
Locals == {<<"x">>, <<"y">>}
LocalRules ==
    {EndRule} \cup {Goto(n) : n \in Locals}
        \cup {Branch(known, targets) : known \in {<<"a">>, <<"a", "b">>, <<"a", "a">>},
                                      targets \in Partial({"a", "b"}, Locals)}
AllFragments ==
    {[nodes |-> S, entry |-> <<"x">>, transitions |-> t, exits |-> e] :
        S \in {Locals}, t \in [Locals -> LocalRules],
        e \in Partial({<<"o">>, <<"p">>}, {Exit(n, r) : n \in Locals, r \in {"a", "b"}})}

OneNamespace == {<<"n">>}
TwoHosts == {<<"h">>, <<"e">>}
HostRules == {EndRule, Goto(<<"n", "x">>), Branch(<<"a", "b">>, [r \in {"a"} |-> <<"e">>])}
NoExits == {}

===============================================================================
