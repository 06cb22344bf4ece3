-------------------------- MODULE AgentGraph_proofs ---------------------------
(***************************************************************************)
(* Proofs about AgentGraph for graphs of any size, any fragments and any   *)
(* order of the calls: what a compiled run meets, what the two searches of *)
(* compile make sure of, and that no call undoes an earlier one.           *)
(***************************************************************************)
EXTENDS AgentGraph, FiniteSetTheorems, NaturalsInduction, TLAPS

RulesOK == \A n \in DOMAIN transitions : IsRule(transitions[n])

(* What compile has checked still holds while the graph runs. *)
Checked == compiled => nodes = DOMAIN transitions /\ validate_transitions

Running == run # "none" => compiled /\ run # "failed" /\ at \in nodes

Inv == TypeOK /\ RulesOK /\ Checked /\ Running

-----------------------------------------------------------------------------
LEMMA InitInv == Init => Inv
  <1> SUFFICES ASSUME Init PROVE Inv
    OBVIOUS
  <1>1. transitions = <<>> /\ unresolved_fragment_exits = <<>>
    BY DEF Init
  <1>2. DOMAIN transitions = {} /\ DOMAIN unresolved_fragment_exits = {}
    BY <1>1
  <1> QED BY <1>2 DEF Init, Inv, TypeOK, RulesOK, Checked, Running

(* A valid fragment's transitions stay transitions under other names. *)
LEMMA RewrittenRule ==
    ASSUME NEW namespace, NEW rule, IsRule(rule), rule.kind # "End"
    PROVE  IsRule(rewrite_transition(namespace, rule))
  <1>1. CASE rule.kind = "Goto"
    BY <1>1 DEF rewrite_transition, IsRule, Goto
  <1>2. CASE rule.kind = "Branch"
    BY <1>2 DEF rewrite_transition, IsRule, Branch
  <1> QED BY <1>1, <1>2 DEF IsRule

(* connect_exit changes one transition, and there it only adds a route. *)
LEMMA Connected ==
    ASSUME Inv, NEW exit, NEW target \in nodes, connect_exit(exit, target)
    PROVE  /\ DOMAIN transitions' = DOMAIN transitions
           /\ \A n \in DOMAIN transitions :
                 LET old == transitions[n]
                     new == transitions'[n]
                 IN /\ IsRule(new)
                    /\ \/ new = old
                       \/ /\ old.kind = "Branch" /\ new.kind = "Branch" /\ new.known = old.known
                          /\ \A r \in DOMAIN old.targets :
                                r \in DOMAIN new.targets /\ new.targets[r] = old.targets[r]
  <1> DEFINE s == exit.source
             old == transitions[s]
             more == [r \in {exit.route} |-> target]
             new == [old EXCEPT !.targets = Join(@, more)]
  <1>1. transitions' = [transitions EXCEPT ![s] = new]
    BY DEF connect_exit
  <1>2. CASE s \in DOMAIN transitions
    <2>1. /\ old.kind = "Branch" /\ old = Branch(old.known, old.targets)
          /\ exit.route \notin DOMAIN old.targets
      BY <1>2 DEF connect_exit, Connectable, Inv, RulesOK, IsRule
    <2>2. new = Branch(old.known, Join(old.targets, more))
      BY <2>1 DEF Branch
    <2>3. /\ new.kind = "Branch" /\ new.known = old.known
          /\ new.targets = Join(old.targets, more) /\ IsRule(new)
      BY <2>2 DEF Branch, IsRule
    <2>4. \A r \in DOMAIN old.targets :
             r \in DOMAIN new.targets /\ new.targets[r] = old.targets[r]
      <3>1. DOMAIN more = {exit.route}
        OBVIOUS
      <3> HIDE DEF more, new, old
      <3> QED BY <2>1, <2>3, <3>1 DEF Join
    <2>5. \A n \in DOMAIN transitions : n # s => transitions'[n] = transitions[n]
      BY <1>1
    <2>6. transitions'[s] = new /\ DOMAIN transitions' = DOMAIN transitions
      BY <1>1, <1>2
    <2>7. \A n \in DOMAIN transitions : IsRule(transitions[n])
      BY DEF Inv, RulesOK
    <2> HIDE DEF new, old, s
    <2>8. old = transitions[s]
      BY DEF old
    <2> QED BY <2>1, <2>3, <2>4, <2>5, <2>6, <2>7, <2>8
  <1>3. CASE s \notin DOMAIN transitions
    <2>1. DOMAIN transitions' = DOMAIN transitions
      BY <1>1
    <2>2. \A n \in DOMAIN transitions : transitions'[n] = transitions[n]
      BY <1>1, <1>3
    <2> QED BY <2>1, <2>2 DEF Inv, RulesOK
  <1> QED BY <1>2, <1>3

(* mount adds transitions and changes none. *)
LEMMA Mounted ==
    ASSUME Inv, NEW namespace \in Namespaces, NEW fragment \in Fragments,
           mount(namespace, fragment)
    PROVE  /\ DOMAIN transitions' \subseteq nodes' /\ nodes \subseteq nodes'
           /\ DOMAIN transitions \subseteq DOMAIN transitions'
           /\ \A n \in DOMAIN transitions : transitions'[n] = transitions[n]
           /\ RulesOK'
           /\ \A k \in DOMAIN unresolved_fragment_exits' :
                 unresolved_fragment_exits'[k].source \in nodes'
  <1> DEFINE new == {namespace \o n : n \in fragment.nodes}
             Local(g) == CHOOSE n \in fragment.nodes : namespace \o n = g
             more == [g \in new |-> rewrite_transition(namespace, fragment.transitions[Local(g)])]
             returned == {FragmentExit(namespace, name, fragment.exits[name]) :
                             name \in DOMAIN fragment.exits}
             Returned(k) == CHOOSE x \in returned : x.key = k
             open == [k \in {x.key : x \in returned} |->
                         [source |-> Returned(k).source, route |-> Returned(k).route]]
  <1>1. /\ nodes' = nodes \cup new /\ transitions' = Join(transitions, more)
        /\ unresolved_fragment_exits' = Join(unresolved_fragment_exits, open)
        /\ validate_fragment(fragment) /\ GlobalNamesFree(namespace, fragment)
    BY DEF mount
  <1>2. /\ new \cap nodes = {} /\ DOMAIN transitions \subseteq nodes
    BY <1>1 DEF GlobalNamesFree, Inv, TypeOK
  <1>3. \A g \in new : IsRule(more[g])
    <2> SUFFICES ASSUME NEW g \in new PROVE IsRule(more[g])
      OBVIOUS
    <2>1. Local(g) \in fragment.nodes
      OBVIOUS
    <2>2. /\ IsRule(fragment.transitions[Local(g)])
          /\ fragment.transitions[Local(g)].kind # "End"
      BY <1>1, <2>1, GraphAssumption DEF validate_fragment, ValidTransition
    <2> QED BY <2>2, RewrittenRule
  <1>4. \A k \in DOMAIN open : open[k].source \in new
    <2> SUFFICES ASSUME NEW k \in DOMAIN open PROVE open[k].source \in new
      OBVIOUS
    <2>1. Returned(k) \in returned
      OBVIOUS
    <2>2. PICK name \in DOMAIN fragment.exits :
             Returned(k) = FragmentExit(namespace, name, fragment.exits[name])
      BY <2>1
    <2>3. fragment.exits[name].source \in fragment.nodes
      BY <1>1, <2>2 DEF validate_fragment, RangeOf
    <2>4. Returned(k).source = namespace \o fragment.exits[name].source
      <3> DEFINE x == Returned(k)
      <3>1. x = FragmentExit(namespace, name, fragment.exits[name])
        BY <2>2
      <3> HIDE DEF x
      <3>2. x.source = namespace \o fragment.exits[name].source
        BY <3>1 DEF FragmentExit
      <3> QED BY <3>2 DEF x
    <2>5. open[k].source = Returned(k).source
      OBVIOUS
    <2> QED BY <2>3, <2>4, <2>5
  <1>5. DOMAIN more = new
    OBVIOUS
  <1> HIDE DEF new, more, open
  <1>6. /\ DOMAIN transitions' = DOMAIN transitions \cup new
        /\ \A n \in DOMAIN transitions : transitions'[n] = transitions[n]
        /\ \A n \in new : transitions'[n] = more[n]
    BY <1>1, <1>2, <1>5 DEF Join
  <1>7. RulesOK'
    BY <1>3, <1>6 DEF RulesOK, Inv
  <1>8. \A k \in DOMAIN unresolved_fragment_exits' :
           unresolved_fragment_exits'[k].source \in nodes'
    <2> DEFINE was == unresolved_fragment_exits
               now == unresolved_fragment_exits'
    <2>1. now = Join(was, open) /\ nodes' = nodes \cup new
      BY <1>1
    <2>2. \A k \in DOMAIN was : was[k].source \in nodes
      BY DEF Inv, TypeOK
    <2>3. /\ DOMAIN now = DOMAIN was \cup DOMAIN open
          /\ \A k \in DOMAIN now : now[k] = IF k \in DOMAIN open THEN open[k] ELSE was[k]
      BY <2>1 DEF Join
    <2> HIDE DEF was, now
    <2>4. \A k \in DOMAIN now : now[k].source \in nodes'
      BY <1>4, <2>1, <2>2, <2>3
    <2> QED BY <2>4 DEF now
  <1> QED BY <1>1, <1>2, <1>6, <1>7, <1>8

-----------------------------------------------------------------------------
(* The calls that build the graph. *)
LEMMA BuildInv ==
    ASSUME Inv, ~compiled, UNCHANGED <<compiled, run, at>>,
           DOMAIN transitions' \subseteq nodes', RulesOK',
           \A k \in DOMAIN unresolved_fragment_exits' :
              unresolved_fragment_exits'[k].source \in nodes'
    PROVE  Inv'
  BY DEF Inv, TypeOK, Checked, Running

LEMMA AddNodeInv == ASSUME Inv, NEW n, add_node(n) PROVE Inv'
  <1>1. DOMAIN transitions' \subseteq nodes' /\ RulesOK'
    BY DEF add_node, Inv, TypeOK, RulesOK
  <1>2. \A k \in DOMAIN unresolved_fragment_exits' :
           unresolved_fragment_exits'[k].source \in nodes'
    BY DEF add_node, Inv, TypeOK
  <1> QED BY <1>1, <1>2, BuildInv DEF add_node

LEMMA SetEntryInv == ASSUME Inv, NEW n, set_entry(n) PROVE Inv'
  <1>1. DOMAIN transitions' \subseteq nodes' /\ RulesOK'
    BY DEF set_entry, Inv, TypeOK, RulesOK
  <1>2. \A k \in DOMAIN unresolved_fragment_exits' :
           unresolved_fragment_exits'[k].source \in nodes'
    BY DEF set_entry, Inv, TypeOK
  <1> QED BY <1>1, <1>2, BuildInv DEF set_entry

LEMMA SetTransitionInv ==
    ASSUME Inv, NEW n, NEW rule \in Rules, set_transition(n, rule) PROVE Inv'
  <1>1. DOMAIN transitions' \subseteq nodes' /\ RulesOK'
    BY GraphAssumption DEF set_transition, Inv, TypeOK, RulesOK
  <1>2. \A k \in DOMAIN unresolved_fragment_exits' :
           unresolved_fragment_exits'[k].source \in nodes'
    BY DEF set_transition, Inv, TypeOK
  <1> QED BY <1>1, <1>2, BuildInv DEF set_transition

LEMMA MountInv ==
    ASSUME Inv, NEW namespace \in Namespaces, NEW fragment \in Fragments,
           mount(namespace, fragment)
    PROVE  Inv'
  <1>1. ~compiled /\ UNCHANGED <<compiled, run, at>>
    BY DEF mount
  <1> QED BY <1>1, Mounted, BuildInv

LEMMA ConnectInv ==
    ASSUME Inv, NEW exit, NEW target \in nodes, connect_exit(exit, target) PROVE Inv'
  <1>1. ~compiled /\ UNCHANGED <<compiled, run, at>> /\ nodes' = nodes
    BY DEF connect_exit, Connectable
  <1>2. DOMAIN transitions' \subseteq nodes' /\ RulesOK'
    BY <1>1, Connected DEF RulesOK, Inv, TypeOK
  <1>3. \A k \in DOMAIN unresolved_fragment_exits' :
           unresolved_fragment_exits'[k].source \in nodes'
    BY <1>1 DEF connect_exit, Without, Inv, TypeOK
  <1> QED BY <1>1, <1>2, <1>3, BuildInv

-----------------------------------------------------------------------------
LEMMA CompileInv == ASSUME Inv, compile PROVE Inv'
  <1>1. UNCHANGED definition /\ compiled' = TRUE /\ run' = "running" /\ at' = entry
    BY DEF compile
  <1>2. entry \in nodes /\ nodes = DOMAIN transitions /\ validate_transitions
    BY DEF compile
  <1>3. validate_transitions'
    BY <1>1, <1>2 DEF definition, validate_transitions, ValidRule
  <1> QED BY <1>1, <1>2, <1>3 DEF Inv, TypeOK, RulesOK, Checked, Running, definition

(* A step of the run finds the route its router selects, and the next node. *)
LEMMA StepInv == ASSUME Inv, Step PROVE Inv'
  <1> DEFINE rule == transitions[at]
  <1>1. UNCHANGED <<definition, compiled>> /\ run = "running"
    BY DEF Step
  <1>2. compiled /\ at \in nodes /\ nodes = DOMAIN transitions /\ ValidRule(rule)
    BY <1>1 DEF Inv, Checked, Running, validate_transitions
  <1>3. run' \in {"running", "ended"} /\ at' \in nodes
    <2>1. CASE rule.kind = "End" /\ run' = "ended" /\ at' = at
      BY <1>2, <2>1
    <2>2. CASE rule.kind = "Goto" /\ at' = rule.target /\ run' = run
      BY <1>1, <1>2, <2>2 DEF ValidRule, transition_targets
    <2>3. ASSUME rule.kind = "Branch", NEW r \in Known(rule),
                 IF r \in DOMAIN rule.targets THEN at' = rule.targets[r] /\ run' = run
                 ELSE at' = at /\ run' = "failed"
          PROVE  <1>3!:
      <3>1. /\ r \in DOMAIN rule.targets
            /\ RangeOf(rule.targets) \subseteq nodes
        BY <1>2, <2>3 DEF ValidRule, transition_targets
      <3> QED BY <1>1, <2>3, <3>1 DEF RangeOf
    <2> QED BY <2>1, <2>2, <2>3 DEF Step
  <1>4. validate_transitions'
    BY <1>1, <1>2 DEF definition, validate_transitions, ValidRule, Inv, Checked
  <1> QED BY <1>1, <1>2, <1>3, <1>4 DEF Inv, TypeOK, RulesOK, Checked, Running, definition

LEMMA IdleInv == ASSUME Inv, UNCHANGED vars PROVE Inv'
  BY DEF Inv, TypeOK, RulesOK, Checked, Running, vars, definition, validate_transitions, ValidRule

LEMMA NextInv == Inv /\ [Next]_vars => Inv'
  BY AddNodeInv, SetEntryInv, SetTransitionInv, MountInv, ConnectInv, CompileInv, StepInv,
     IdleInv DEF Next

(* Every reachable state satisfies the inductive invariant: what the        *)
(* GraphBuilder's calls keep, what compile has checked, and that a run is   *)
(* at a node of the compiled graph.                                         *)
THEOREM Invariant == Spec => []Inv
  BY InitInv, NextInv, PTL DEF Spec

-----------------------------------------------------------------------------
(* Transitions and open exits belong to nodes of the graph.                 *)
THEOREM TypeCorrect == Spec => []TypeOK
  <1>1. Inv => TypeOK
    BY DEF Inv
  <1> QED BY <1>1, Invariant, PTL

(* No run of a graph that compile accepted meets UnknownRoute or a missing  *)
(* node, whatever its routers select among their known routes.              *)
THEOREM CompiledRunsOn == Spec => []NeverLost
  <1>1. Inv => NeverLost
    BY DEF Inv, Checked, Running, NeverLost
  <1> QED BY <1>1, Invariant, PTL

LEMMA KeptStep ==
    ASSUME Inv, [Next]_vars, NEW n \in DOMAIN transitions
    PROVE  LET old == transitions[n]
               new == transitions'[n]
           IN \/ new = old
              \/ /\ old.kind = "Branch" /\ new.kind = "Branch" /\ new.known = old.known
                 /\ \A r \in DOMAIN old.targets :
                       r \in DOMAIN new.targets /\ new.targets[r] = old.targets[r]
  <1>2. ASSUME NEW m \in HostNodes, NEW rule \in Rules, set_transition(m, rule)
        PROVE  transitions'[n] = transitions[n]
    BY <1>2 DEF set_transition
  <1>3. ASSUME NEW namespace \in Namespaces, NEW fragment \in Fragments,
               mount(namespace, fragment)
        PROVE  transitions'[n] = transitions[n]
    BY <1>3, Mounted
  <1>4. ASSUME NEW exit, NEW target \in nodes, connect_exit(exit, target)
        PROVE  LET old == transitions[n]
                   new == transitions'[n]
               IN \/ new = old
                  \/ /\ old.kind = "Branch" /\ new.kind = "Branch" /\ new.known = old.known
                     /\ \A r \in DOMAIN old.targets :
                           r \in DOMAIN new.targets /\ new.targets[r] = old.targets[r]
    BY <1>4, Connected
  <1>5. CASE UNCHANGED transitions
    BY <1>5
  <1> QED BY <1>2, <1>3, <1>4, <1>5
         DEF Next, add_node, set_entry, compile, Step, definition, vars

(* No later call replaces what is in the graph: a mount under a dotted      *)
(* namespace, a second transition, an exit of another graph.                *)
THEOREM NothingReplaced == Spec => TransitionsKept
  <1>1. Inv /\ [Next]_vars =>
          [\A n \in DOMAIN transitions :
             LET old == transitions[n]
                 new == transitions'[n]
             IN \/ new = old
                \/ /\ old.kind = "Branch" /\ new.kind = "Branch" /\ new.known = old.known
                   /\ \A r \in DOMAIN old.targets :
                         r \in DOMAIN new.targets /\ new.targets[r] = old.targets[r]]_vars
    BY KeptStep
  <1> QED BY <1>1, Invariant, PTL DEF Spec, TransitionsKept

-----------------------------------------------------------------------------
(* The two searches of compile.                                             *)

LEMMA LeastOf ==
    ASSUME NEW S \in SUBSET Nat, S # {}
    PROVE  \E k \in S : \A j \in S : ~(j < k)
  <1> DEFINE R == OpToRel(<, Nat)
  <1>1. IsWellFoundedOn(R, Nat)
    BY NatLessThanWellFounded
  <1>2. \A x, y \in Nat : y < x => <<y, x>> \in R
    BY DEF OpToRel
  <1> HIDE DEF R
  <1>3. PICK k \in S : \A y \in S : ~(<<y, k>> \in R)
    BY <1>1, WFMin, Zenon
  <1> QED BY <1>2, <1>3

(* A search is defined whatever its rounds add.                             *)
Finds(f, N, first, add) ==
    \A k \in 0..N : f[k] = (IF k = 0 THEN first ELSE add[f[k - 1]])

LEMMA Rounds ==
    ASSUME NEW N \in Nat, NEW first, NEW add PROVE \E f : Finds(f, N, first, add)
  <1> DEFINE IsSearch(f, m) == f = [k \in 0..m |-> IF k = 0 THEN first ELSE add[f[k - 1]]]
             without == {m \in Nat : ~\E f : IsSearch(f, m)}
  <1>1. IsSearch([k \in 0..0 |-> first], 0)
    OBVIOUS
  <1>2. ASSUME NEW m \in Nat, NEW f, IsSearch(f, m)
        PROVE  \E g : IsSearch(g, m + 1)
    <2> DEFINE g == [k \in 0..(m + 1) |-> IF k = m + 1 THEN add[f[m]] ELSE f[k]]
               h == [k \in 0..(m + 1) |-> IF k = 0 THEN first ELSE add[g[k - 1]]]
    <2>1. \A k \in 0..m : f[k] = (IF k = 0 THEN first ELSE add[f[k - 1]])
      BY <1>2
    <2>2. ASSUME NEW k \in 0..(m + 1) PROVE g[k] = h[k]
      <3>1. CASE k = m + 1
        BY <3>1
      <3>2. CASE k = 0
        BY <3>2, <2>1
      <3>3. CASE k \in 1..m
        <4>1. k \in 0..m /\ k # 0 /\ k # m + 1 /\ k - 1 \in 0..(m + 1) /\ k - 1 # m + 1
          BY <3>3
        <4>2. g[k - 1] = f[k - 1] /\ g[k] = f[k]
          BY <4>1
        <4> QED BY <4>1, <4>2, <2>1
      <3> QED BY <3>1, <3>2, <3>3
    <2>3. g = h
      BY <2>2
    <2> HIDE DEF g
    <2> QED BY <2>3
  <1>3. without = {}
    <2> SUFFICES ASSUME without # {} PROVE FALSE
      OBVIOUS
    <2>1. PICK k \in without : \A j \in without : ~(j < k)
      BY LeastOf
    <2>2. k \in Nat /\ ~\E f : IsSearch(f, k)
      OBVIOUS
    <2>3. k # 0
      BY <1>1, <2>2
    <2>4. k - 1 \in Nat /\ (k - 1) + 1 = k /\ k - 1 < k
      BY <2>2, <2>3
    <2>5. PICK f : IsSearch(f, k - 1)
      BY <2>1, <2>4
    <2> HIDE DEF IsSearch
    <2> QED BY <1>2, <2>2, <2>4, <2>5
  <1>4. PICK f : IsSearch(f, N)
    BY <1>3
  <1> QED BY <1>4 DEF Finds

LEMMA ForwardSearch ==
    ASSUME Cardinality(nodes) \in Nat, entry \in nodes, \A n \in nodes : Successors(n) \subseteq nodes
    PROVE  \E f : /\ Reachable = f[Cardinality(nodes)]
                  /\ f[0] = {entry}
                  /\ \A k \in 1..Cardinality(nodes) :
                        f[k] = f[k - 1] \cup UNION {Successors(n) : n \in f[k - 1]}
  <1> DEFINE N == Cardinality(nodes)
             add == [X \in SUBSET nodes |-> X \cup UNION {Successors(n) : n \in X}]
             Found(f) == [k \in 0..N |-> IF k = 0 THEN {entry}
                                         ELSE f[k - 1] \cup UNION {Successors(n) : n \in f[k - 1]}]
  <1>2. \A X \in SUBSET nodes : add[X] = X \cup UNION {Successors(n) : n \in X} /\ add[X] \in SUBSET nodes
    OBVIOUS
  <1> HIDE DEF add
  <1>a. PICK f : Finds(f, N, {entry}, add)
    BY Rounds
  <1>1. \A k \in 0..N : f[k] = (IF k = 0 THEN {entry} ELSE add[f[k - 1]])
    BY <1>a DEF Finds
  <1>4. ASSUME NEW k \in 0..N PROVE f[k] \in SUBSET nodes
    <2> DEFINE outside == {j \in 0..N : f[j] \notin SUBSET nodes}
    <2> SUFFICES ASSUME outside # {} PROVE FALSE
      OBVIOUS
    <2>1. outside \in SUBSET Nat
      OBVIOUS
    <2>2. PICK j \in outside : \A i \in outside : ~(i < j)
      BY <2>1, LeastOf
    <2>3. CASE j = 0
      BY <1>1, <2>3
    <2>4. CASE j # 0
      <3>1. j - 1 \in 0..N /\ j - 1 < j /\ j \in 0..N /\ j \in Nat
        BY <2>4
      <3>2. f[j - 1] \in SUBSET nodes
        BY <2>2, <3>1
      <3> QED BY <1>2, <1>1, <2>4, <3>1, <3>2
    <2> QED BY <2>3, <2>4
  <1>5. ASSUME NEW k \in 1..N
        PROVE  f[k] = f[k - 1] \cup UNION {Successors(n) : n \in f[k - 1]}
    <2>1. k \in 0..N /\ k - 1 \in 0..N /\ k # 0
      OBVIOUS
    <2> QED BY <1>2, <1>1, <1>4, <2>1
  <1> DEFINE table == [k \in 0..N |-> f[k]]
  <1>6. table = Found(table)
    <2>1. \A k \in 0..N : k # 0 => k \in 1..N
      OBVIOUS
    <2>2. ASSUME NEW k \in 0..N PROVE table[k] = Found(table)[k]
      <3>1. CASE k = 0
        BY <1>1, <3>1
      <3>2. CASE k # 0
        <4>1. k \in 1..N /\ k - 1 \in 0..N
          BY <3>2
        <4>2. table[k] = f[k] /\ table[k - 1] = f[k - 1]
          BY <4>1
        <4>3. f[k] = f[k - 1] \cup UNION {Successors(n) : n \in f[k - 1]}
          BY <4>1, <1>5
        <4> QED BY <3>2, <4>2, <4>3, Zenon
      <3> QED BY <3>1, <3>2
    <2> QED BY <2>2, Zenon
  <1> DEFINE found == CHOOSE g : g = Found(g)
  <1> HIDE DEF Found
  <1>7. found = Found(found)
    BY <1>6, Zenon
  <1> USE DEF Found
  <1>8. Reachable = found[N]
    BY DEF Reachable
  <1> HIDE DEF found
  <1>9. found[0] = {entry}
    BY <1>7
  <1>10. \A k \in 1..N : found[k] = found[k - 1] \cup UNION {Successors(n) : n \in found[k - 1]}
    BY <1>7
  <1> QED BY <1>8, <1>9, <1>10

LEMMA BackwardSearch ==
    ASSUME Cardinality(nodes) \in Nat
    PROVE  \E f : /\ CanReachEnd = f[Cardinality(nodes)]
                  /\ f[0] = {n \in nodes : transitions[n].kind = "End"}
                  /\ \A k \in 1..Cardinality(nodes) :
                        f[k] = f[k - 1] \cup {n \in nodes : Successors(n) \cap f[k - 1] # {}}
  <1> DEFINE N == Cardinality(nodes)
             terminal == {n \in nodes : transitions[n].kind = "End"}
             add == [X \in SUBSET nodes |-> X \cup {n \in nodes : Successors(n) \cap X # {}}]
             Found(f) == [k \in 0..N |-> IF k = 0 THEN terminal
                                         ELSE f[k - 1] \cup {n \in nodes : Successors(n) \cap f[k - 1] # {}}]
  <1>2. \A X \in SUBSET nodes :
           add[X] = X \cup {n \in nodes : Successors(n) \cap X # {}} /\ add[X] \in SUBSET nodes
    OBVIOUS
  <1>t. terminal \in SUBSET nodes
    OBVIOUS
  <1> HIDE DEF add, terminal
  <1>a. PICK f : Finds(f, N, terminal, add)
    BY Rounds
  <1>1. \A k \in 0..N : f[k] = (IF k = 0 THEN terminal ELSE add[f[k - 1]])
    BY <1>a DEF Finds
  <1>4. ASSUME NEW k \in 0..N PROVE f[k] \in SUBSET nodes
    <2> DEFINE outside == {j \in 0..N : f[j] \notin SUBSET nodes}
    <2> SUFFICES ASSUME outside # {} PROVE FALSE
      OBVIOUS
    <2>1. outside \in SUBSET Nat
      OBVIOUS
    <2>2. PICK j \in outside : \A i \in outside : ~(i < j)
      BY <2>1, LeastOf
    <2>3. CASE j = 0
      BY <1>1, <1>t, <2>3
    <2>4. CASE j # 0
      <3>1. j - 1 \in 0..N /\ j - 1 < j /\ j \in 0..N /\ j \in Nat
        BY <2>4
      <3>2. f[j - 1] \in SUBSET nodes
        BY <2>2, <3>1
      <3> QED BY <1>2, <1>1, <2>4, <3>1, <3>2
    <2> QED BY <2>3, <2>4
  <1>5. ASSUME NEW k \in 1..N
        PROVE  f[k] = f[k - 1] \cup {n \in nodes : Successors(n) \cap f[k - 1] # {}}
    <2>1. k \in 0..N /\ k - 1 \in 0..N /\ k # 0
      OBVIOUS
    <2> QED BY <1>2, <1>1, <1>4, <2>1
  <1> DEFINE table == [k \in 0..N |-> f[k]]
  <1>6. table = Found(table)
    <2>1. \A k \in 0..N : k # 0 => k \in 1..N
      OBVIOUS
    <2>2. ASSUME NEW k \in 0..N PROVE table[k] = Found(table)[k]
      <3>1. CASE k = 0
        BY <1>1, <3>1
      <3>2. CASE k # 0
        <4>1. k \in 1..N /\ k - 1 \in 0..N
          BY <3>2
        <4>2. table[k] = f[k] /\ table[k - 1] = f[k - 1]
          BY <4>1
        <4>3. f[k] = f[k - 1] \cup {n \in nodes : Successors(n) \cap f[k - 1] # {}}
          BY <4>1, <1>5
        <4> QED BY <3>2, <4>2, <4>3, Zenon
      <3> QED BY <3>1, <3>2
    <2> QED BY <2>2, Zenon
  <1> DEFINE found == CHOOSE g : g = Found(g)
  <1> HIDE DEF Found
  <1>7. found = Found(found)
    BY <1>6, Zenon
  <1> USE DEF Found
  <1>8. CanReachEnd = found[N]
    BY DEF CanReachEnd, terminal
  <1> HIDE DEF found
  <1>9. found[0] = terminal
    BY <1>7
  <1>10. ASSUME NEW k \in 1..N
         PROVE  found[k] = found[k - 1] \cup {n \in nodes : Successors(n) \cap found[k - 1] # {}}
    <2>1. k \in 0..N /\ k # 0
      OBVIOUS
    <2>2. Found(found)[k] = found[k - 1] \cup {n \in nodes : Successors(n) \cap found[k - 1] # {}}
      BY <2>1, Zenon
    <2> HIDE DEF Found
    <2> QED BY <1>7, <2>2, Zenon
  <1> QED BY <1>8, <1>9, <1>10 DEF terminal

(* What lies in every closed set: of the nodes found forwards all, if the   *)
(* entry is in it; and one that ends, if one of it is found backwards.      *)
LEMMA ClosedHolds ==
    ASSUME Cardinality(nodes) \in Nat, entry \in nodes,
           \A n \in nodes : Successors(n) \subseteq nodes,
           NEW S \in SUBSET nodes, \A n \in S : Successors(n) \subseteq S, entry \in S
    PROVE  Reachable \subseteq S
  <1> DEFINE N == Cardinality(nodes)
  <1>1. PICK f : /\ Reachable = f[N] /\ f[0] = {entry}
                 /\ \A k \in 1..N : f[k] = f[k - 1] \cup UNION {Successors(n) : n \in f[k - 1]}
    BY ForwardSearch
  <1> DEFINE outside == {j \in 0..N : ~(f[j] \subseteq S)}
  <1>2. outside = {}
    <2> SUFFICES ASSUME outside # {} PROVE FALSE
      OBVIOUS
    <2>1. outside \in SUBSET Nat
      OBVIOUS
    <2>2. PICK j \in outside : \A i \in outside : ~(i < j)
      BY <2>1, LeastOf
    <2>3. CASE j = 0
      BY <1>1, <2>3
    <2>4. CASE j # 0
      <3>1. j - 1 \in 0..N /\ j - 1 < j /\ j \in 1..N
        BY <2>4
      <3>2. f[j - 1] \subseteq S
        BY <2>2, <3>1
      <3>3. f[j] = f[j - 1] \cup UNION {Successors(n) : n \in f[j - 1]}
        BY <1>1, <3>1
      <3>4. f[j] \subseteq S
        BY <3>2, <3>3
      <3> QED BY <3>4
    <2> QED BY <2>3, <2>4
  <1>3. N \in 0..N
    OBVIOUS
  <1> QED BY <1>1, <1>2, <1>3

LEMMA ClosedEnds ==
    ASSUME Cardinality(nodes) \in Nat, nodes = CanReachEnd,
           NEW S \in SUBSET nodes, S # {}, \A n \in S : Successors(n) \subseteq S
    PROVE  \E n \in S : transitions[n].kind = "End"
  <1> DEFINE N == Cardinality(nodes)
  <1>1. PICK f : /\ CanReachEnd = f[N] /\ f[0] = {n \in nodes : transitions[n].kind = "End"}
                 /\ \A k \in 1..N : f[k] = f[k - 1] \cup {n \in nodes : Successors(n) \cap f[k - 1] # {}}
    BY ONLY Cardinality(nodes) \in Nat, BackwardSearch, Zenon
  <1> DEFINE inside == {j \in 0..N : f[j] \cap S # {}}
  <1>2. N \in inside /\ inside \in SUBSET Nat
    <2>1. N \in 0..N /\ f[N] \cap S = S
      BY <1>1
    <2> QED BY <2>1
  <1>3. PICK j \in inside : \A i \in inside : ~(i < j)
    BY <1>2, LeastOf
  <1>4. CASE j = 0
    BY <1>1, <1>4
  <1>5. CASE j # 0
    <2>1. j - 1 \in 0..N /\ j - 1 < j /\ j \in 1..N
      BY <1>5
    <2>2. f[j - 1] \cap S = {}
      BY <1>3, <2>1
    <2>3. PICK n \in S : n \in f[j]
      OBVIOUS
    <2>4. Successors(n) \cap f[j - 1] # {}
      BY <1>1, <2>1, <2>2, <2>3
    <2> QED BY <2>2, <2>4
  <1> QED BY <1>4, <1>5

(* The nodes are finitely many, so that the searches end.                   *)
LEMMA FiniteNext ==
    ASSUME IsFiniteSet(nodes), [Next]_vars PROVE IsFiniteSet(nodes')
  <1>1. ASSUME NEW n \in HostNodes, add_node(n) PROVE IsFiniteSet(nodes')
    <2>1. nodes' = nodes \cup {n}
      BY <1>1 DEF add_node
    <2> QED BY <2>1, FS_AddElement
  <1>2. ASSUME NEW namespace \in Namespaces, NEW fragment \in Fragments,
               mount(namespace, fragment)
        PROVE  IsFiniteSet(nodes')
    <2> DEFINE new == {namespace \o n : n \in fragment.nodes}
    <2>1. nodes' = nodes \cup new
      BY <1>2 DEF mount
    <2>2. IsFiniteSet(fragment.nodes)
      BY GraphAssumption
    <2>3. IsFiniteSet(new)
      <3>1. [n \in fragment.nodes |-> namespace \o n] \in Surjection(fragment.nodes, new)
        BY DEF Surjection
      <3> QED BY <2>2, <3>1, FS_Surjection
    <2> QED BY <2>1, <2>3, FS_Union
  <1>3. CASE nodes' = nodes
    BY <1>3
  <1> QED BY <1>1, <1>2, <1>3
          DEF Next, set_entry, set_transition, connect_exit, compile, Step, definition, vars

(* What compile accepts.                                                    *)
LEMMA CompileEnds ==
    ASSUME IsFiniteSet(nodes), compile,
           NEW S \in SUBSET nodes, S # {}, \A n \in S : Successors(n) \subseteq S
    PROVE  (\E n \in S : transitions[n].kind = "End") /\ (entry \in S => S = nodes)
  <1>1. Cardinality(nodes) \in Nat
    BY FS_CardinalityType
  <1>2. /\ entry \in nodes /\ nodes = DOMAIN transitions /\ nodes = Reachable /\ nodes = CanReachEnd
        /\ \A n \in nodes : Successors(n) \subseteq nodes
    BY DEF compile, validate_transitions, ValidRule, Successors
  <1>3. \E n \in S : transitions[n].kind = "End"
    BY <1>1, <1>2, ClosedEnds
  <1>4. ASSUME entry \in S PROVE S = nodes
    <2>1. Reachable \subseteq S
      BY <1>1, <1>2, <1>4, ClosedHolds
    <2> QED BY <1>2, <2>1
  <1> QED BY <1>3, <1>4

(* Of a graph that compile accepted every part is reached and can be left   *)
(* (validate_reachability, validate_terminal_paths), however many nodes     *)
(* there are: the searches run to their end.                                *)
THEOREM NoPartIsATrap == Spec => []NoTrap
  <1> DEFINE Sound == IsFiniteSet(nodes) /\ NoTrap
  <1>1. Init => Sound
    BY FS_EmptySet DEF Init, NoTrap
  <1>2. Sound /\ [Next]_vars => Sound'
    <2> SUFFICES ASSUME Sound, [Next]_vars PROVE Sound'
      OBVIOUS
    <2>1. IsFiniteSet(nodes')
      BY FiniteNext
    <2>2. CASE compile
      <3>1. /\ nodes' = nodes /\ transitions' = transitions /\ entry' = entry
        BY <2>2 DEF compile, definition
      <3>2. \A n : Successors(n)' = Successors(n)
        BY <3>1 DEF Successors
      <3>3. ASSUME NEW S \in SUBSET nodes, S # {}, \A n \in S : Successors(n) \subseteq S
            PROVE  (\E n \in S : transitions[n].kind = "End") /\ (entry \in S => S = nodes)
        BY <2>2, <3>3, CompileEnds
      <3>4. NoTrap'
        BY <3>1, <3>2, <3>3 DEF NoTrap
      <3> QED BY <2>1, <3>4
    <2>3. CASE compiled' = compiled /\ UNCHANGED definition
      <3>1. /\ nodes' = nodes /\ transitions' = transitions /\ entry' = entry
        BY <2>3 DEF definition
      <3>2. \A n : Successors(n)' = Successors(n)
        BY <3>1 DEF Successors
      <3> QED BY <2>1, <2>3, <3>1, <3>2 DEF NoTrap
    <2>4. CASE ~compiled'
      BY <2>1, <2>4 DEF NoTrap
    <2>5. \/ compile
          \/ compiled' = compiled /\ (UNCHANGED definition \/ ~compiled)
      BY DEF Next, add_node, set_entry, set_transition, mount, connect_exit, Connectable,
             Step, vars
    <2> QED BY <2>2, <2>3, <2>4, <2>5
  <1>3. Sound => NoTrap
    OBVIOUS
  <1> QED BY <1>1, <1>2, <1>3, PTL DEF Spec
===============================================================================
