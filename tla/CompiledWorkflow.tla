--------------------------- MODULE CompiledWorkflow ---------------------------
(***************************************************************************)
(* What emitters/n8n/emitter.py makes of a canonical workflow: which output  *)
(* of which n8n node every edge hangs on, the synthetic nodes in between, and *)
(* the EdgeMap by which an execution is read back.                           *)
(*                                                                         *)
(* A workflow wf is a record of its nodes, their types and its edges in      *)
(* order.  Of an edge: whether it has a condition, and whether               *)
(* analysis/failure_paths.py takes it for an error path.  n8n names   *)
(* are pairs of a role and a node; that the emitter makes them unique is      *)
(* their being pairs.  Operators named Bug... are plausible mistakes, not the *)
(* code.                                                                    *)
(***************************************************************************)
EXTENDS Naturals, Sequences, FiniteSets

None == "none"

Canonical(n) == << "node", n >>
Router(n)    == << "router", n >>
Marker(n)    == << "marker", n >>
Trigger      == << "input", "input" >>

Port(name, out) == [from |-> name, out |-> out]

EdgesOf(wf) == {wf.edges[i] : i \in DOMAIN wf.edges}

Outgoing(wf, n) == {e \in EdgesOf(wf) : e.source = n}

\* An edge whose target does not exist is not emitted but remembered as dropped.
Live(wf)    == {e \in EdgesOf(wf) : e.target \in wf.nodes}
Dropped(wf) == EdgesOf(wf) \ Live(wf)

\* start_node_ids: the triggers, or else what no edge leads to.
Starts(wf) ==
    LET triggers == {n \in wf.nodes : wf.type[n] = "TRIGGER"}
    IN  IF triggers # {} THEN triggers
        ELSE wf.nodes \ {e.target : e \in EdgesOf(wf)}

Terminal(wf) == {n \in wf.nodes : Outgoing(wf, n) = {}}

\* The node types whose calls are sent to the mock server.
Integration == {"EXTERNAL_API", "DATABASE", "EMAIL", "LLM"}

Mocked(wf) == {n \in wf.nodes : wf.type[n] \in Integration}
-----------------------------------------------------------------------------
IsGateway(wf, n) == wf.type[n] = "CONDITION"

\* A gateway has no error output: its failure edges are branches like the others.
FailureEdges(wf, n) == {e \in Outgoing(wf, n) : e.fails /\ ~ IsGateway(wf, n)}
BranchEdges(wf, n)  == Outgoing(wf, n) \ FailureEdges(wf, n)

\* The branches a condition guards; the others are the fallback.
Conditional(wf, n) == {e \in BranchEdges(wf, n) : e.cond}
Fallback(wf, n)    == {e \in BranchEdges(wf, n) : ~ e.cond}

\* The nodes with an error output, which a dangling failure edge makes as well.
ErrorOutput(wf) == {n \in wf.nodes : FailureEdges(wf, n) # {}}

\* An ordinary node that branches gets a router behind it.
Branching(wf, n)   == Conditional(wf, n) # {}
NeedsRouter(wf, n) == Branching(wf, n) /\ ~ IsGateway(wf, n)
BranchOwner(wf, n) == IF NeedsRouter(wf, n) THEN Router(n) ELSE Canonical(n)

\* How many conditional branches of its node come before a branch.
Position(wf, e) ==
    Cardinality({i \in DOMAIN wf.edges :
                    /\ wf.edges[i] \in Conditional(wf, e.source)
                    /\ \E j \in DOMAIN wf.edges : i < j /\ wf.edges[j] = e})

BugFallbackInPlace(wf, e) ==
    IF e \in FailureEdges(wf, e.source) THEN Port(Canonical(e.source), 1)
    ELSE Port(BranchOwner(wf, e.source), IF e.cond THEN Position(wf, e) ELSE 0)

\* _wire: failure edges hang on the error output; the k conditional branches on
\* outputs 0 to k - 1 of an IF or a Switch and the fallback on output k, which is
\* output 0 when there is no condition at all.
PortOf(wf, e) ==
    IF e \in FailureEdges(wf, e.source) THEN Port(Canonical(e.source), 1)
    ELSE Port(BranchOwner(wf, e.source),
              IF e.cond THEN Position(wf, e) ELSE Cardinality(Conditional(wf, e.source)))

\* How many outputs a node's tasks have.  A Switch has a fallback output only when
\* some edge hangs on it; an IF always has its second.
Width(wf, name) ==
    LET n == name[2]
        conditional == Cardinality(Conditional(wf, n))
    IN  IF Branching(wf, n) /\ name = BranchOwner(wf, n)
        THEN IF conditional = 1 \/ Fallback(wf, n) # {} THEN conditional + 1 ELSE conditional
        ELSE IF name = Canonical(n) /\ n \in ErrorOutput(wf) THEN 2 ELSE 1
-----------------------------------------------------------------------------
(* Failure propagation.                                                       *)

\* onError: continueRegularOutput, on every node without an error output.
Swallowing(wf, propagate) == IF propagate THEN wf.nodes \ ErrorOutput(wf) ELSE {}

\* What a node's output 0 leads to before markers are inserted.
HasFirstOutput(wf, n) ==
    NeedsRouter(wf, n) \/ \E e \in Live(wf) : PortOf(wf, e) = Port(Canonical(n), 0)

\* A marker restores the fields conditions read, behind a swallowing node with
\* something downstream.
Marked(wf, propagate) == {n \in Swallowing(wf, propagate) : HasFirstOutput(wf, n)}

\* The marker takes over what hung on output 0.
Reseated(wf, propagate, port) ==
    IF \E n \in Marked(wf, propagate) : port = Port(Canonical(n), 0)
    THEN Port(Marker(port.from[2]), 0)
    ELSE port

BugKeyStays(wf, propagate, port) == port

\* The EdgeMap's entry moves with the connections.
ReseatedKey(wf, propagate, port) == Reseated(wf, propagate, port)

\* All connections: the ones an edge stands for, and those of synthetic nodes.
Links(wf, propagate) ==
    LET swallow(n) == Port(Canonical(n), 0)
    IN  {[port |-> Reseated(wf, propagate, PortOf(wf, e)), to |-> Canonical(e.target),
          edge |-> e.id] : e \in Live(wf)}
        \cup {[port |-> Reseated(wf, propagate, swallow(n)), to |-> Router(n), edge |-> None] :
                 n \in {m \in wf.nodes : NeedsRouter(wf, m)}}
        \cup {[port |-> swallow(n), to |-> Marker(n), edge |-> None] : n \in Marked(wf, propagate)}
        \cup {[port |-> Port(Trigger, 0), to |-> Canonical(n), edge |-> None] :
                 n \in Starts(wf)}

\* EdgeMap.record: one edge per output, and the last one recorded stays.
EdgeMap(wf, propagate) ==
    LET key(e) == ReseatedKey(wf, propagate, PortOf(wf, e))
        last(k) == CHOOSE i \in DOMAIN wf.edges :
            /\ wf.edges[i] \in Live(wf) /\ key(wf.edges[i]) = k
            /\ \A j \in DOMAIN wf.edges :
                   (wf.edges[j] \in Live(wf) /\ key(wf.edges[j]) = k) => j <= i
    IN  [k \in {key(e) : e \in Live(wf)} |-> wf.edges[last(k)].id]

\* EmittedWorkflow, as the engine and the mapper use it.
Emit(wf, propagate) ==
    [links |-> Links(wf, propagate), edges |-> EdgeMap(wf, propagate),
     errorOutput |-> ErrorOutput(wf), swallowing |-> Swallowing(wf, propagate),
     dropped |-> Dropped(wf), terminal |-> Terminal(wf)]
=============================================================================
