------------------------------ MODULE AgentGraph ------------------------------
(***************************************************************************)
(* Building a graph of agent-core: nodes, transitions, fragments mounted   *)
(* under a namespace, their exits connected, the graph compiled and run.   *)
(*                                                                         *)
(*   agent-core/src/graph/definition.rs, fragment.rs, runtime.rs           *)
(*                                                                         *)
(* A name with dots is the sequence of its parts, so that two namespaces   *)
(* can make the same global name.  A call that is refused changes nothing  *)
(* and is not a step.  A run goes from node to node; what a node does, and *)
(* which of its known routes a router selects, is open.                    *)
(***************************************************************************)
EXTENDS Integers, Sequences, FiniteSets

CONSTANTS
    HostNodes,   \* names of the nodes that are added directly
    Rules,       \* the transitions that are set directly
    Namespaces,  \* names a fragment is mounted under
    Fragments,   \* [nodes, entry, transitions, exits], as a caller built them
    StrayExits,  \* exits that another graph returned
    MaxParts,    \* MAX_ID_BYTES, in parts of a name
    MaxMounts    \* bound: fragments mounted

VARIABLES
    nodes, entry, transitions, mounted_namespaces,
    unresolved_fragment_exits,   \* FragmentExitKey -> [source, route]
    exits,                       \* the FragmentExits that mount returned
    compiled,
    run,                         \* "none", "running", "ended" or "failed"
    at                           \* the node of the run

definition == <<nodes, entry, transitions, mounted_namespaces, unresolved_fragment_exits, exits>>
vars == <<definition, compiled, run, at>>

NoNode == <<>>

RangeOf(f) == {f[x] : x \in DOMAIN f}
Join(f, g) == [x \in DOMAIN f \cup DOMAIN g |-> IF x \in DOMAIN g THEN g[x] ELSE f[x]]
Without(f, x) == [y \in DOMAIN f \ {x} |-> f[y]]

(* TransitionRule.  The routes of a router are a sequence: one may come twice. *)
EndRule == [kind |-> "End"]
Goto(target) == [kind |-> "Goto", target |-> target]
Branch(known, targets) == [kind |-> "Branch", known |-> known, targets |-> targets]

transition_targets(rule) ==
    CASE rule.kind = "Goto" -> {rule.target}
      [] rule.kind = "Branch" -> RangeOf(rule.targets)
      [] rule.kind = "End" -> {}

IsRule(rule) ==
    \/ rule.kind = "End" /\ rule = EndRule
    \/ rule.kind = "Goto" /\ rule = Goto(rule.target)
    \/ rule.kind = "Branch" /\ rule = Branch(rule.known, rule.targets)

ASSUME GraphAssumption ==
    /\ \A rule \in Rules : IsRule(rule)
    /\ \A f \in Fragments : \A n \in DOMAIN f.transitions : IsRule(f.transitions[n])
    /\ \A f \in Fragments : IsFiniteSet(f.nodes)

Known(rule) == RangeOf(rule.known)
NoneTwice(rule) == Cardinality(Known(rule)) = Len(rule.known)

Init ==
    /\ nodes = {} /\ entry = NoNode /\ transitions = <<>> /\ mounted_namespaces = {}
    /\ unresolved_fragment_exits = <<>> /\ exits = {}
    /\ compiled = FALSE /\ run = "none" /\ at = NoNode

-----------------------------------------------------------------------------
(* GraphDefinition *)

add_node(n) ==
    /\ ~compiled /\ n \notin nodes
    /\ nodes' = nodes \cup {n}
    /\ UNCHANGED <<entry, transitions, mounted_namespaces, unresolved_fragment_exits, exits, compiled, run, at>>

set_entry(n) ==
    /\ ~compiled
    /\ entry' = n
    /\ UNCHANGED <<nodes, transitions, mounted_namespaces, unresolved_fragment_exits, exits, compiled, run, at>>

set_transition(n, rule) ==
    /\ ~compiled /\ n \in nodes /\ n \notin DOMAIN transitions
    /\ transitions' = [m \in DOMAIN transitions \cup {n} |-> IF m = n THEN rule ELSE transitions[m]]
    /\ UNCHANGED <<nodes, entry, mounted_namespaces, unresolved_fragment_exits, exits, compiled, run, at>>

-----------------------------------------------------------------------------
(* mount *)

ExitRoutes(fragment, n) ==
    {x.route : x \in {y \in RangeOf(fragment.exits) : y.source = n}}

(* exits_by_source: no two exits are the same route of the same node. *)
ExitsApart(fragment) ==
    \A a, b \in DOMAIN fragment.exits : fragment.exits[a] = fragment.exits[b] => a = b

ValidTransition(fragment, n) ==
    LET rule == fragment.transitions[n]
    IN /\ rule.kind # "End"
       /\ transition_targets(rule) \subseteq fragment.nodes
       /\ rule.kind = "Goto" => ExitRoutes(fragment, n) = {}
       /\ rule.kind = "Branch" =>
             /\ NoneTwice(rule) /\ DOMAIN rule.targets \subseteq Known(rule)
             /\ Known(rule) = DOMAIN rule.targets \cup ExitRoutes(fragment, n)
             /\ DOMAIN rule.targets \cap ExitRoutes(fragment, n) = {}

validate_fragment(fragment) ==
    /\ fragment.entry \in fragment.nodes
    /\ DOMAIN fragment.exits # {}
    /\ fragment.nodes = DOMAIN fragment.transitions
    /\ \A x \in RangeOf(fragment.exits) : x.source \in fragment.nodes
    /\ ExitsApart(fragment)
    /\ \A n \in fragment.nodes : ValidTransition(fragment, n)

rewrite_transition(namespace, rule) ==
    IF rule.kind = "Goto" THEN Goto(namespace \o rule.target)
    ELSE Branch(rule.known, [r \in DOMAIN rule.targets |-> namespace \o rule.targets[r]])

(* FragmentExit, its key included *)
FragmentExit(namespace, name, exit) ==
    [key |-> <<namespace, name>>, source |-> namespace \o exit.source, route |-> exit.route]

(* The global names are valid, and new. *)
GlobalNamesFree(namespace, fragment) ==
    \A n \in fragment.nodes : namespace \o n \notin nodes /\ Len(namespace \o n) <= MaxParts

mount(namespace, fragment) ==
    LET Global(n) == namespace \o n
        new == {Global(n) : n \in fragment.nodes}
        Local(g) == CHOOSE n \in fragment.nodes : Global(n) = g
        returned == {FragmentExit(namespace, name, fragment.exits[name]) :
                        name \in DOMAIN fragment.exits}
        Returned(k) == CHOOSE x \in returned : x.key = k
    IN /\ ~compiled /\ namespace \notin mounted_namespaces
       /\ Cardinality(mounted_namespaces) < MaxMounts
       /\ validate_fragment(fragment) /\ GlobalNamesFree(namespace, fragment)
       /\ nodes' = nodes \cup new
       /\ transitions' = Join(transitions,
             [g \in new |-> rewrite_transition(namespace, fragment.transitions[Local(g)])])
       /\ mounted_namespaces' = mounted_namespaces \cup {namespace}
       /\ unresolved_fragment_exits' = Join(unresolved_fragment_exits,
             [k \in {x.key : x \in returned} |->
                 [source |-> Returned(k).source, route |-> Returned(k).route]])
       /\ exits' = exits \cup returned
       /\ UNCHANGED <<entry, compiled, run, at>>

(* connect_exit *)
Connectable(exit, target) ==
    /\ ~compiled
    /\ exit.key \in DOMAIN unresolved_fragment_exits
    /\ unresolved_fragment_exits[exit.key] = [source |-> exit.source, route |-> exit.route]
    /\ target \in nodes
    /\ transitions[exit.source].kind = "Branch"
    /\ exit.route \notin DOMAIN transitions[exit.source].targets

connect_exit(exit, target) ==
    /\ Connectable(exit, target)
    /\ transitions' = [transitions EXCEPT ![exit.source].targets = Join(@, [r \in {exit.route} |-> target])]
    /\ unresolved_fragment_exits' = Without(unresolved_fragment_exits, exit.key)
    /\ UNCHANGED <<nodes, entry, mounted_namespaces, exits, compiled, run, at>>

-----------------------------------------------------------------------------
(* compile *)

Successors(n) == transition_targets(transitions[n])

(* Mutant: the routes of the router are not compared with the targets. *)
ValidRule_Targets(rule) == transition_targets(rule) \subseteq nodes

ValidRule(rule) ==
    /\ transition_targets(rule) \subseteq nodes
    /\ rule.kind = "Branch" =>
          /\ DOMAIN rule.targets # {} /\ NoneTwice(rule)
          /\ Known(rule) = DOMAIN rule.targets

validate_transitions == \A n \in DOMAIN transitions : ValidRule(transitions[n])

(* The nodes a search finds in k rounds: forwards from the entry, backwards *)
(* from the nodes that end.                                                 *)
Reachable ==
    LET found[k \in 0..Cardinality(nodes)] ==
            IF k = 0 THEN {entry}
            ELSE found[k - 1] \cup UNION {Successors(n) : n \in found[k - 1]}
    IN found[Cardinality(nodes)]

(* Mutant: the nodes before the last ones are enough. *)
CanReachEnd_One ==
    LET terminal == {n \in nodes : transitions[n].kind = "End"}
    IN IF terminal = {} THEN {} ELSE nodes

CanReachEnd ==
    LET found[k \in 0..Cardinality(nodes)] ==
            IF k = 0 THEN {n \in nodes : transitions[n].kind = "End"}
            ELSE found[k - 1] \cup {n \in nodes : Successors(n) \cap found[k - 1] # {}}
    IN found[Cardinality(nodes)]

compile ==
    /\ ~compiled
    /\ DOMAIN unresolved_fragment_exits = {}
    /\ entry \in nodes /\ nodes = DOMAIN transitions
    /\ validate_transitions
    /\ nodes = Reachable /\ nodes = CanReachEnd
    /\ compiled' = TRUE /\ run' = "running" /\ at' = entry
    /\ UNCHANGED definition

-----------------------------------------------------------------------------
(* execute_from: the node after this one *)
Step ==
    /\ run = "running"
    /\ LET rule == transitions[at]
       IN \/ rule.kind = "End" /\ run' = "ended" /\ at' = at
          \/ rule.kind = "Goto" /\ at' = rule.target /\ run' = run
          \/ /\ rule.kind = "Branch"
             /\ \E r \in Known(rule) :
                   IF r \in DOMAIN rule.targets THEN at' = rule.targets[r] /\ run' = run
                   ELSE at' = at /\ run' = "failed"
    /\ UNCHANGED <<definition, compiled>>

Next ==
    \/ \E n \in HostNodes : add_node(n) \/ \E rule \in Rules : set_transition(n, rule)
    \/ \E n \in HostNodes \cup nodes : set_entry(n)
    \/ \E namespace \in Namespaces \ mounted_namespaces : \E fragment \in Fragments : mount(namespace, fragment)
    \/ \E exit \in exits \cup StrayExits, target \in nodes : connect_exit(exit, target)
    \/ compile \/ Step

Spec == Init /\ [][Next]_vars

-----------------------------------------------------------------------------
(* Every transition belongs to a node. *)
TypeOK ==
    /\ DOMAIN transitions \subseteq nodes
    /\ compiled \in BOOLEAN /\ run \in {"none", "running", "ended", "failed"}
    /\ \A k \in DOMAIN unresolved_fragment_exits : unresolved_fragment_exits[k].source \in nodes

(* Nothing that is in the graph is replaced by what comes later: a          *)
(* transition stays as it is but for routes that had no target (add_node,   *)
(* set_transition, mount, connect_exit).                                    *)
TransitionsKept ==
    [][\A n \in DOMAIN transitions :
          LET old == transitions[n]
              new == transitions'[n]
          IN \/ new = old
             \/ /\ old.kind = "Branch" /\ new.kind = "Branch" /\ new.known = old.known
                /\ \A r \in DOMAIN old.targets :
                      r \in DOMAIN new.targets /\ new.targets[r] = old.targets[r]]_vars

(* A run of a compiled graph never meets a node or a route that is missing  *)
(* (the UnknownRoute and MissingNode errors of execute_from).               *)
NeverLost == run # "none" => run # "failed" /\ at \in DOMAIN transitions

(* What compile accepts has no part that the entry does not lead to and no  *)
(* part that a run cannot leave: every set of nodes that is closed under    *)
(* transitions ends somewhere, and is the whole graph if the entry is in it *)
(* (validate_reachability, validate_terminal_paths).                        *)
NoTrap ==
    compiled => \A S \in (SUBSET nodes) \ {{}} :
        (\A n \in S : Successors(n) \subseteq S) =>
            /\ \E n \in S : transitions[n].kind = "End"
            /\ entry \in S => S = nodes
===============================================================================
