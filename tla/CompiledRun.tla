----------------------------- MODULE CompiledRun -----------------------------
(***************************************************************************)
(* An emitted workflow as n8n executes it, and execution/result_mapper.py,     *)
(* which turns the execution record back into a result in canonical terms.     *)
(*                                                                         *)
(* n8n is external: it runs a node once for every input that arrives, in some  *)
(* order, and records for each task what it put on which output, and which     *)
(* output its input came from.  An item is "fine" or carries the message of    *)
(* an error.  The record may be read at any moment, so the result is a         *)
(* function of the state.                                                    *)
(***************************************************************************)
EXTENDS CompiledWorkflow

CONSTANTS Workflow,  \* the workflows that may be executed
          Message,   \* error messages a call may end with
          MaxSteps,  \* MAX_STEPS, beyond which the record is not mapped
          MaxTasks   \* bound: tasks of one execution

ASSUME RunAssumption ==
    /\ Message \cap {"fine", None} = {} /\ MaxSteps \in Nat /\ MaxTasks \in Nat
    /\ \A w \in Workflow :
           /\ w.edges \in Seq(EdgesOf(w))
           /\ \A i \in DOMAIN w.edges : w.edges[i].source \in w.nodes /\ w.edges[i].id # None
           /\ \A i, j \in DOMAIN w.edges : w.edges[i].id = w.edges[j].id => i = j

VARIABLES wf, propagate,  \* what was compiled, and whether failures propagate
          emitted,        \* the EmittedWorkflow
          pending,        \* n8n: inputs that wait for their node to run
          tasks,          \* n8n: the tasks in execution order
          status,         \* n8n: the execution's status
          history         \* history: of each task, the error it met and the edge
                          \* by which it was reached

runvars == << wf, propagate, emitted, pending, tasks, status, history >>
-----------------------------------------------------------------------------
Arriving(step, port, item) ==
    {[by |-> step, to |-> l.to, from |-> port, edge |-> l.edge, item |-> item] :
        l \in {k \in emitted.links : k.port = port}}

RunInit ==
    /\ wf \in Workflow
    /\ propagate \in BOOLEAN
    /\ emitted = Emit(wf, propagate)
    /\ pending = Arriving(0, Port(Trigger, 0), "fine")
    /\ tasks = << >>
    /\ status = "running"
    /\ history = << >>

Items(width, out, item) == [k \in 1..width |-> IF k = out + 1 THEN << item >> ELSE << >>]

\* A task is recorded, and its items wait at the nodes its output leads to.
Record(input, outputs, error, met) ==
    /\ tasks' = Append(tasks, [name |-> input.to, from |-> input.from,
                               outputs |-> outputs, error |-> error])
    /\ history' = Append(history, [met |-> met, edge |-> input.edge])

Send(input, out, item, met) ==
    /\ Record(input, Items(Width(wf, input.to), out, item), None, met)
    /\ pending' = (pending \ {input}) \cup
                  Arriving(Len(tasks) + 1, Port(input.to, out), item)
    /\ UNCHANGED << wf, propagate, emitted, status >>

Ready(input) == status = "running" /\ input \in pending /\ Len(tasks) < MaxTasks

\* The output of the branch whose condition holds, or else the last.
DecidedOutputs(n) ==
    {Position(wf, e) : e \in Conditional(wf, n)} \cup {Cardinality(Conditional(wf, n))}

\* A node that is no integration passes its item on; a call answers with a new one.
\* What owns branches sends it to one of them, or to none if no condition holds.
Succeed(input) ==
    LET n == input.to[2]
        item == IF input.to = Canonical(n) /\ n \in Mocked(wf) THEN "fine" ELSE input.item
    IN  /\ Ready(input)
        /\ \E out \in IF Branching(wf, n) /\ input.to = BranchOwner(wf, n)
                      THEN DecidedOutputs(n) ELSE {0} :
               Send(input, out, item, None)

\* A call fails: by the error output, on down the normal output, or for good.
Throw(input, message) ==
    LET n == input.to[2]
    IN  /\ Ready(input)
        /\ input.to = Canonical(n) /\ n \in Mocked(wf)
        /\ IF n \in emitted.errorOutput THEN Send(input, 1, message, message)
           ELSE IF n \in emitted.swallowing THEN Send(input, 0, message, message)
           ELSE /\ Record(input, << >>, message, message)
                /\ pending' = {}
                /\ status' = "error"
                /\ UNCHANGED << wf, propagate, emitted >>

Complete == /\ status = "running" /\ pending = {}
            /\ status' = "success"
            /\ UNCHANGED << wf, propagate, emitted, pending, tasks, history >>

\* executionTimeout: n8n cancels what has not ended in time.
Deadline == /\ status = "running"
            /\ pending' = {}
            /\ status' = "canceled"
            /\ UNCHANGED << wf, propagate, emitted, tasks, history >>

RunNext ==
    \/ \E input \in pending : \/ Succeed(input)
                             \/ \E m \in Message : Throw(input, m)
    \/ Complete
    \/ Deadline

RunSpec == RunInit /\ [][RunNext]_runvars
-----------------------------------------------------------------------------
(* map_execution.  Operators named Bug... are plausible mistakes.             *)

BugCutsSilently == FALSE

Truncated == Len(tasks) > MaxSteps

Mapped == {i \in DOMAIN tasks : i <= MaxSteps}

IsCanonical(i) == tasks[i].name[1] = "node"

\* The nodes that ran, in order: synthetic ones are left out.
NodesOf(list) ==
    LET own    == {i \in DOMAIN list : list[i].name[1] = "node"}
        nth(k) == CHOOSE i \in own : Cardinality(own \cap 1..i) = k
    IN  [k \in 1..Cardinality(own) |-> list[nth(k)].name[2]]

ErrorIn(items) == IF items = << >> \/ items[1] = "fine" THEN None ELSE items[1]

\* The error task i shows: its own, or an item on its error output, or an item on the
\* normal output of a node that swallows errors.
Shown(i) ==
    LET n == tasks[i].name[2]
        outputs == tasks[i].outputs
    IN  IF tasks[i].error # None THEN tasks[i].error
        ELSE IF ~ IsCanonical(i) THEN None
        ELSE IF n \in emitted.errorOutput /\ Len(outputs) > 1 THEN ErrorIn(outputs[2])
        ELSE IF n \in emitted.swallowing /\ outputs # << >> THEN ErrorIn(outputs[1])
        ELSE None

BugNothingSeen(i) == {}

\* seen_errors: what tasks before i have shown.
Seen(i) == {Shown(j) : j \in 1..(i - 1)}

\* _node_error: an error that rode in on the item is not the node's own.
NodeError(i) ==
    IF tasks[i].error = None /\ tasks[i].name[2] \in emitted.swallowing /\ Shown(i) \in Seen(i)
    THEN None ELSE Shown(i)

Failed == {i \in Mapped : IsCanonical(i) /\ NodeError(i) # None}

\* _record_edges: the edge the EdgeMap has for the output the input came from.
EdgeFor(port) == IF port \in DOMAIN emitted.edges THEN emitted.edges[port] ELSE None

ExecutedEdges == {EdgeFor(tasks[i].from) : i \in Mapped} \ {None}

\* _record_branch: of a task with several outputs, the first that is not empty.
Chosen(i) == {k \in DOMAIN tasks[i].outputs : tasks[i].outputs[k] # << >>}

BranchOf(i) ==
    IF Len(tasks[i].outputs) < 2 \/ Chosen(i) = {} THEN None
    ELSE EdgeFor(Port(tasks[i].name, (CHOOSE k \in Chosen(i) : \A l \in Chosen(i) : k <= l) - 1))

BugRouterDecidesForItself(n) ==
    {i \in Mapped : tasks[i].name = Canonical(n) /\ BranchOf(i) # None}

\* branch_decisions: decider -> the branch it took last.
Decisions(n) == {i \in Mapped : tasks[i].name[2] = n /\ BranchOf(i) # None}

BranchDecision(n) ==
    IF Decisions(n) = {} THEN None
    ELSE BranchOf(CHOOSE i \in Decisions(n) : \A j \in Decisions(n) : j <= i)

\* A dropped edge whose source ran.
MissingTargets == {e \in emitted.dropped : \E i \in Mapped : tasks[i].name = Canonical(e.source)}

\* A result without failures.
NoFailures == Failed = {} /\ ~ Truncated /\ MissingTargets = {} /\ status # "error"

\* A node that failed and has no successor.
FailedWithNowhereToGo == \E i \in Failed : tasks[i].name[2] \in emitted.terminal

\* The run's status: n8n's word, and what n8n does not know.
RunFailed == Truncated \/ status # "success" \/ FailedWithNowhereToGo
-----------------------------------------------------------------------------
\* What really happened within the part of the record that is mapped.
Met   == {i \in Mapped : history[i].met # None}
Taken == {history[i].edge : i \in Mapped} \ {None}

\* What n8n does with the compiled graph is an execution of the canonical one:
\* routers, markers and error outputs add no path and lose none (emitter.py
\* 401-529, 184-250).
Walk == INSTANCE CanonicalWalk WITH
    visited  <- NodesOf(tasks),
    arrivals <- [n \in wf.nodes |-> Cardinality({p \in pending : p.to = Canonical(n)})],
    leaving  <- [n \in wf.nodes |-> Cardinality({p \in pending : p.to \in {Router(n), Marker(n)}})],
    ended    <- status # "running"

WalkSpec == Walk!Spec

\* Of edges that have an output to themselves, those reported are those taken, through
\* routers and markers as well; an edge is never reported unless one on the same
\* output was taken.
ExclusiveEdgesAreRecovered ==
    \A l \in {k \in emitted.links : k.edge # None} :
        LET onOutput == {k.edge : k \in {m \in emitted.links : m.port = l.port}}
        IN  /\ onOutput = {l.edge} => (l.edge \in Taken <=> l.edge \in ExecutedEdges)
            /\ l.edge \in ExecutedEdges => onOutput \cap Taken # {}

\* Blame falls on the nodes that failed and on no node their error passed through;
\* a failure is missed only if one with the same message came before it.
FailuresAreTheThrowers ==
    /\ Failed \subseteq Met
    /\ \A i \in Met \ Failed : \E j \in 1..(i - 1) : history[j].met = history[i].met

\* When failures do not propagate, a node one of whose conditional branches was taken
\* has a decision on record, and a decision is a branch of the node it is filed under,
\* even if a router took it (models.py 38-41).
BranchesAreReported ==
    ~ propagate =>
        /\ \A e \in Live(wf) : (e.cond /\ e.id \in Taken) => BranchDecision(e.source) # None
        /\ \A e \in EdgesOf(wf), n \in wf.nodes : BranchDecision(n) = e.id => e.source = n

\* The path is recovered: edges and branch decisions alike.
PathIsRecovered == ExclusiveEdgesAreRecovered /\ BranchesAreReported

\* The status is earned.  A result that passed without failures is of an execution that
\* ran to its end, met no error in any node and no edge that leads nowhere; and one that
\* ran to its end within the limit is an ERROR exactly when a node with no successor
\* failed, while a failure with a path of its own leaves it PASSED (result_mapper.py
\* 79-120, 251-281).
StatusIsEarned ==
    LET atEnd == {i \in Met : tasks[i].name[2] \in Terminal(wf)}
    IN  /\ (~ RunFailed /\ NoFailures) =>
               /\ status = "success" /\ pending = {}
               /\ \A i \in DOMAIN tasks : history[i].met = None
               /\ \A i \in DOMAIN tasks, e \in Dropped(wf) : tasks[i].name # Canonical(e.source)
        /\ (status = "success" /\ Len(tasks) <= MaxSteps) =>
               /\ RunFailed => atEnd # {}
               /\ (\E i \in atEnd : \A j \in 1..(i - 1) : history[j].met # history[i].met)
                      => RunFailed
=============================================================================
