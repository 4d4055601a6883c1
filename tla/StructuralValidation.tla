------------------------- MODULE StructuralValidation -------------------------
(***************************************************************************)
(* The graph of a canonical workflow and what validation/rules.py finds wrong *)
(* with it, down to the score of validation/scoring.py.                      *)
(*                                                                         *)
(* A workflow wf is a set of nodes, which may share their ids, and a set of   *)
(* edges, whose ends may not exist.  The graph is a networkx DiGraph, to which *)
(* an edge adds the ends that are missing, and in which parallel edges are     *)
(* one.  Operators named Bug... are plausible mistakes, not the code.          *)
(***************************************************************************)
EXTENDS Integers, FiniteSets

NodeIds(wf) == {n.id : n \in wf.nodes}
Targets(wf) == {e.target : e \in wf.edges}
Sources(wf) == {e.source : e \in wf.edges}

GraphNodes(wf) == NodeIds(wf) \cup Targets(wf) \cup Sources(wf)

OfType(wf, type) == {n.id : n \in {m \in wf.nodes : m.type = type}}

\* The declared triggers and ends, or else what has nothing before or after it.
start_node_ids(wf) ==
    IF OfType(wf, "trigger") # {} THEN OfType(wf, "trigger") ELSE NodeIds(wf) \ Targets(wf)
terminal_node_ids(wf) ==
    IF OfType(wf, "end") # {} THEN OfType(wf, "end") ELSE NodeIds(wf) \ Sources(wf)

\* C is closed under the edges that E holds.
Closed(E, C) == \A e \in E : e.source \in C => e.target \in C

\* The roots and their descendants: what every closed set around the roots contains.
Reach(wf, roots) ==
    {n \in GraphNodes(wf) :
        \A C \in SUBSET GraphNodes(wf) : (roots \subseteq C /\ Closed(wf.edges, C)) => n \in C}

\* The weakly connected component of n.
Component(wf, n) ==
    Reach([nodes |-> wf.nodes,
           edges |-> wf.edges \cup {[source |-> e.target, target |-> e.source] : e \in wf.edges}],
          {n})

\* A simple cycle is a cyclic permutation of some nodes along the edges.
SimpleCycles(wf) ==
    UNION {{next \in [S -> S] :
               /\ \A n \in S : \E e \in wf.edges : e.source = n /\ e.target = next[n]
               /\ \A C \in (SUBSET S) \ {{}} : (\A n \in C : next[n] \in C) => C = S} :
           S \in (SUBSET GraphNodes(wf)) \ {{}}}

Isolated(wf, n) == n \notin Targets(wf) \cup Sources(wf)

Configurable == {"action", "external_api", "database", "llm", "task", "human_approval"}

Executable(wf) == {n \in wf.nodes : n.type \in Configurable}
-----------------------------------------------------------------------------
(* The rules.  A finding is a rule and what it is about.                        *)

Finding(rule, S) == {<< rule, x >> : x \in S}

EmptyWorkflow(wf) == Finding("empty", IF wf.nodes = {} THEN {"workflow"} ELSE {})

DuplicateNodeId(wf) ==
    Finding("duplicate", {n.id : n \in {m \in wf.nodes : \E k \in wf.nodes \ {m} : k.id = m.id}})

InvalidEdgeReference(wf) ==
    Finding("source", {e \in wf.edges : e.source \notin NodeIds(wf)})
        \cup Finding("target", {e \in wf.edges : e.target \notin NodeIds(wf)})

MissingStart(wf) ==
    Finding("start", IF wf.nodes # {} /\ start_node_ids(wf) = {} THEN {"workflow"} ELSE {})

MissingTerminal(wf) ==
    Finding("terminal", IF wf.nodes # {} /\ terminal_node_ids(wf) = {} THEN {"workflow"} ELSE {})

BugDeclaredStartsOnly(wf) ==
    Finding("unreachable", {n \in wf.nodes : n.id \notin Reach(wf, OfType(wf, "trigger"))})

\* Without a start there is nothing to measure from.
Reachability(wf) ==
    Finding("unreachable",
            IF start_node_ids(wf) = {} THEN {}
            ELSE {n \in wf.nodes : n.id \notin Reach(wf, start_node_ids(wf))})

OrphanNode(wf) ==
    Finding("orphan", {n \in wf.nodes : Cardinality(wf.nodes) > 1 /\ Isolated(wf, n.id)})

DeadEnd(wf) ==
    Finding("dead end", {n \in wf.nodes : /\ n.id \notin Sources(wf) \cup terminal_node_ids(wf)
                                          /\ n.type # "end"})

SuspiciousCycle(wf) == Finding("cycle", SimpleCycles(wf))

DisconnectedComponents(wf) ==
    Finding("components",
            IF Cardinality(wf.nodes) > 1
               /\ Cardinality({Component(wf, n) : n \in GraphNodes(wf)}) > 1
            THEN {"workflow"} ELSE {})

MissingConfiguration(wf) ==
    Finding("configuration", {n \in Executable(wf) : ~ n.configured})

InvalidCondition(wf) ==
    Finding("condition", {e \in wf.edges : e.condition.spelling = "blank"})

Criticals(wf) == EmptyWorkflow(wf) \cup DuplicateNodeId(wf)

Errors(wf) == InvalidEdgeReference(wf) \cup MissingStart(wf) \cup Reachability(wf)
                  \cup OrphanNode(wf) \cup DisconnectedComponents(wf)

Warnings(wf) == MissingTerminal(wf) \cup DeadEnd(wf) \cup SuspiciousCycle(wf)
                    \cup MissingConfiguration(wf) \cup InvalidCondition(wf)

\* ValidationEngine.validate: the findings of all the rules.
Findings(wf) == Criticals(wf) \cup Errors(wf) \cup Warnings(wf)
-----------------------------------------------------------------------------
\* round(): a half goes to the even neighbour.
Round(numerator, denominator) ==
    LET floor == numerator \div denominator
        twice == 2 * (numerator % denominator)
    IN  IF twice > denominator \/ (twice = denominator /\ floor % 2 = 1) THEN floor + 1 ELSE floor

\* Up to five points for configured nodes.
CompletenessBonus(wf) ==
    IF Executable(wf) = {} THEN 0
    ELSE Round(5 * Cardinality({n \in Executable(wf) : n.configured}), Cardinality(Executable(wf)))

BugMilderWarnings(wf) ==
    35 * Cardinality(Criticals(wf)) + 15 * Cardinality(Errors(wf)) + 5 * Cardinality(Warnings(wf))

Penalty(wf) ==
    35 * Cardinality(Criticals(wf)) + 15 * Cardinality(Errors(wf)) + 6 * Cardinality(Warnings(wf))

structural_quality_score(wf) ==
    LET score == 100 - Penalty(wf) + CompletenessBonus(wf)
    IN  IF wf.nodes = {} \/ score < 0 THEN 0 ELSE IF score > 100 THEN 100 ELSE score
=============================================================================
