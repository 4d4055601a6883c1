------------------------------ MODULE PathSearch ------------------------------
(***************************************************************************)
(* How a node of a workflow is reached: the breadth-first search of            *)
(* analysis/reachability.py and the input solved along the path it finds.      *)
(* The structural validation of the same workflow, which decides reachability by *)
(* a search of its own, reads nothing that this search writes; here it comes     *)
(* afterwards.                                                              *)
(*                                                                         *)
(* The order of the start nodes is that of their names and the order of edges   *)
(* that of the document, which is any order.                                  *)
(***************************************************************************)
EXTENDS Conditions, StructuralValidation

CONSTANTS Workflow,   \* canonical workflows
          Base        \* inputs a test or a fuzz case starts from

ASSUME WorkflowAssumption ==
    \A wf \in Workflow :
        /\ IsFiniteSet(wf.nodes) /\ IsFiniteSet(wf.edges)
        /\ \A e \in wf.edges : IsWritten(e.condition)

VARIABLES wf, target, base,  \* what is asked; the target is a node of the workflow
          pc,
          queue,    \* nodes to expand, each with the edges that lead to it
          seen,     \* nodes that are or were in the queue
          current,  \* the entry being expanded
          todo,     \* outgoing edges of the current node to look at
          path,     \* the answer, when found
          input,    \* the input that is to reach the target
          report    \* the findings and score of a validation, when it was made

question == << wf, target, base >>
search   == << queue, seen, current, todo >>
vars     == << question, pc, search, path, input, report >>

Entry(n, trail) == [node |-> n, trail |-> trail]

Unvalidated == [made |-> FALSE, findings |-> {}, score |-> 0]

outgoing(n) == {e \in wf.edges : e.source = n}
-----------------------------------------------------------------------------
(* Operators named Bug... are plausible mistakes, not the code.                  *)

Init == /\ wf \in Workflow
        /\ target \in NodeIds(wf)
        /\ base \in Base
        /\ pc = "begin"
        /\ queue = << >> /\ seen = {} /\ todo = {}
        /\ current = Entry(target, << >>)
        /\ path = << >>
        /\ input = << >>
        /\ report = Unvalidated

\* A start node is reached by no edge at all.
Begin ==
    /\ pc = "begin"
    /\ IF target \in start_node_ids(wf)
       THEN pc' = "found" /\ UNCHANGED << queue, seen >>
       ELSE /\ pc' = "search"
            /\ \E starts \in SetToSeqs(start_node_ids(wf)) :
                   queue' = [i \in DOMAIN starts |-> Entry(starts[i], << >>)]
            /\ seen' = start_node_ids(wf)
    /\ UNCHANGED << question, current, todo, path, input, report >>

Dequeue ==
    /\ pc = "search" /\ todo = {} /\ queue # << >>
    /\ current' = Head(queue)
    /\ queue' = Tail(queue)
    /\ todo' = outgoing(current'.node)
    /\ UNCHANGED << question, pc, seen, path, input, report >>

Seen(e) == e.target \in seen

Extended(e) == Append(current.trail, e)

BugStack(entry) == << entry >> \o queue

Enqueue(entry) == Append(queue, entry)

Examine(e) ==
    /\ pc = "search" /\ e \in todo
    /\ todo' = todo \ {e}
    /\ \/ Seen(e) /\ UNCHANGED << pc, queue, seen, path >>
       \/ /\ ~ Seen(e) /\ e.target = target
          /\ pc' = "found" /\ path' = Extended(e)
          /\ UNCHANGED << queue, seen >>
       \/ /\ ~ Seen(e) /\ e.target # target
          /\ seen' = seen \cup {e.target}
          /\ queue' = Enqueue(Entry(e.target, Extended(e)))
          /\ UNCHANGED << pc, path >>
    /\ UNCHANGED << question, current, input, report >>

GiveUp ==
    /\ pc = "search" /\ todo = {} /\ queue = << >>
    /\ pc' = "none"
    /\ UNCHANGED << question, search, path, input, report >>

\* Solved values take precedence over the base, and later ones over earlier ones.
reaching_input == Updated(base, [i \in DOMAIN path |-> satisfying_state(path[i].condition)])

Steer ==
    /\ pc \in {"found", "none"}
    /\ pc' = IF pc = "found" THEN "steered" ELSE "unsteered"
    /\ input' = reaching_input
    /\ UNCHANGED << question, search, path, report >>

Validate ==
    /\ pc \in {"steered", "unsteered"} /\ ~ report.made
    /\ report' = [made |-> TRUE, findings |-> Findings(wf), score |-> structural_quality_score(wf)]
    /\ UNCHANGED << question, pc, search, path, input >>

Next == Begin \/ Dequeue \/ (\E e \in todo : Examine(e)) \/ GiveUp \/ Steer \/ Validate

Spec == Init /\ [][Next]_vars
-----------------------------------------------------------------------------
Found    == pc \in {"found", "steered"}
NotFound == pc \in {"none", "unsteered"}

\* p leads from a start node of w to n, edge after edge.
IsPath(w, p, n) ==
    /\ p \in Seq(w.edges)
    /\ IF p = << >> THEN n \in start_node_ids(w)
       ELSE /\ p[1].source \in start_node_ids(w)
            /\ \A i \in 1..(Len(p) - 1) : p[i].target = p[i + 1].source
            /\ p[Len(p)].target = n

\* What can be reached over at most k edges.
Within[k \in Nat] ==
    IF k = 0 THEN start_node_ids(wf)
    ELSE Within[k - 1] \cup {e.target : e \in {d \in wf.edges : d.source \in Within[k - 1]}}

\* The two analyses that decide reachability agree: a node the validation reports as
\* unreachable is one the search finds no path to, and the other way round, through
\* cycles, edges with missing ends and duplicate ids (rules.py 132-151,
\* reachability.py 50-74).
AnalysesAgree ==
    (report.made /\ start_node_ids(wf) # {}) =>
        LET flagged == \E n \in wf.nodes : n.id = target /\ << "unreachable", n >> \in report.findings
        IN  (Found => ~ flagged) /\ (NotFound => flagged)

\* A path leads from a start node to the target, and no other is shorter: "fewer edges
\* means fewer conditions to satisfy at once" (reachability.py 53-54).
PathIsShortest ==
    Found => /\ IsPath(wf, path, target)
             /\ path # << >> => target \notin Within[Len(path) - 1]

\* No other clause solved on the way tests a field that a clause of this edge does.
Undisturbed(i) ==
    LET tests == [j \in DOMAIN path |-> IF IsCondition(path[j].condition)
                                        THEN ClausesSolved(path[j].condition) ELSE << >>]
    IN  \A k \in DOMAIN tests[i], j \in DOMAIN path : \A m \in DOMAIN tests[j] :
            tests[j][m].field = tests[i][k].field => << j, m >> = << i, k >>

\* A condition the solver can read: comparisons spelled with symbols, one connective,
\* and no order among texts or booleans.
Solvable(cond) ==
    /\ cond.spelling = "symbols"
    /\ Len(cond.parts) > 1 => \A i \in DOMAIN cond.parts : Len(cond.parts[i]) = 1
    /\ \A i \in DOMAIN ClausesSolved(cond) :
           LET c == ClausesSolved(cond)[i]
           IN  /\ c.form = "comparison"
               /\ c.value.kind = "text" => c.op \in {"==", "!="}
               /\ c.value.kind = "bool" => c.op \notin {"<", ">"}

\* The input that is to reach the target opens every branch on the path whose
\* condition the solver can read and no other condition on the path disturbs, whatever
\* the input was before: solver and evaluator "have to agree on where a value lands"
\* (reachability.py 156-158).
SteeredInputOpensThePath ==
    pc = "steered" =>
        \A i \in DOMAIN path :
            LET cond == path[i].condition
            IN  (Solvable(cond) /\ Undisturbed(i)) => evaluate_condition(cond, input)

\* Only a workflow without findings scores 100: no bonus for configured nodes makes up
\* for a finding (scoring.py 17-34).
PerfectMeansClean == report.made => (report.score = 100 <=> report.findings = {})
=============================================================================
