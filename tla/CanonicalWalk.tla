---------------------------- MODULE CanonicalWalk ----------------------------
(***************************************************************************)
(* What executing a canonical workflow means, with no n8n in it.  A token      *)
(* arrives at a node; the node runs and either fails or not; it is left on     *)
(* all its unconditional edges, or on one conditional branch or else all the   *)
(* fallback ones.  A failure leaves by the failure edges if there are any, is  *)
(* carried on like a success when failures propagate, and ends the run         *)
(* otherwise.                                                               *)
(***************************************************************************)
EXTENDS CompiledWorkflow

CONSTANT Workflow    \* the workflows that may be executed

VARIABLES wf,         \* the workflow
          propagate,  \* whether failures propagate
          visited,    \* the nodes that ran, in order
          arrivals,   \* node -> tokens that wait for it to run
          leaving,    \* node -> tokens that ran it and have not left it yet
          ended

vars == << wf, propagate, visited, arrivals, leaving, ended >>

\* The sets of edges on which a node may be left.
Departures(n) ==
    LET chosen == IF ~ Branching(wf, n) THEN {BranchEdges(wf, n)}
                  ELSE {{e} : e \in Conditional(wf, n)} \cup {Fallback(wf, n)}
    IN  {S \cap Live(wf) : S \in chosen}

Advance(S) == [m \in wf.nodes |-> arrivals[m] + Cardinality({e \in S : e.target = m})]

Init == /\ wf \in Workflow
        /\ propagate \in BOOLEAN
        /\ visited = << >>
        /\ arrivals = [n \in wf.nodes |-> IF n \in Starts(wf) THEN 1 ELSE 0]
        /\ leaving = [n \in wf.nodes |-> 0]
        /\ ended = FALSE

\* A token reaches n, which runs; it is still at n, or on the edges S.
Visit(n, S) ==
    /\ ~ ended /\ arrivals[n] > 0
    /\ visited' = Append(visited, n)
    /\ arrivals' = [Advance(S) EXCEPT ![n] = @ - 1]
    /\ UNCHANGED << wf, propagate, ended >>

Pass(n) == \/ \E S \in Departures(n) : Visit(n, S) /\ UNCHANGED leaving
           \/ Visit(n, {}) /\ leaving' = [leaving EXCEPT ![n] = @ + 1]

Fail(n) == /\ FailureEdges(wf, n) # {}
           /\ Visit(n, FailureEdges(wf, n) \cap Live(wf))
           /\ UNCHANGED leaving

Leave(n) == /\ ~ ended /\ leaving[n] > 0
            /\ \E S \in Departures(n) : arrivals' = Advance(S)
            /\ leaving' = [leaving EXCEPT ![n] = @ - 1]
            /\ UNCHANGED << wf, propagate, visited, ended >>

\* A failure with nowhere to go ends the run on the spot.
Abort(n) == /\ ~ ended /\ arrivals[n] > 0
            /\ ~ propagate /\ FailureEdges(wf, n) = {}
            /\ visited' = Append(visited, n)
            /\ arrivals' = [m \in wf.nodes |-> 0] /\ leaving' = [m \in wf.nodes |-> 0]
            /\ ended' = TRUE
            /\ UNCHANGED << wf, propagate >>

\* Nothing is left to do, or the deadline has passed.
Stop == /\ ~ ended
        /\ arrivals' = [m \in wf.nodes |-> 0] /\ leaving' = [m \in wf.nodes |-> 0]
        /\ ended' = TRUE
        /\ UNCHANGED << wf, propagate, visited >>

Next == \/ \E n \in wf.nodes : Pass(n) \/ Fail(n) \/ Leave(n) \/ Abort(n)
        \/ Stop

Spec == Init /\ [][Next]_vars
=============================================================================
