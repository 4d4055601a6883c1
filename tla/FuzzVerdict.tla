----------------------------- MODULE FuzzVerdict -----------------------------
(***************************************************************************)
(* fuzzing/engine.py: what a fuzz case, which makes calls of certain nodes     *)
(* fail, is taken to show about the workflow.  The verdict is a function of    *)
(* the mapped result, that is of CompiledRun's state, of the nodes injected    *)
(* and of whether the nodes ran in the order of the unperturbed run.           *)
(*                                                                         *)
(* An edge's field "reads" is the set of nodes whose result its condition      *)
(* inspects, all nodes when it tests a generic field such as success.          *)
(***************************************************************************)
EXTENDS CompiledRun

\* RECOVERY_TYPES: the nodes that notify somebody or compensate.
RecoveryTypes == {"HUMAN_APPROVAL", "EMAIL", "EXTERNAL_API", "DATABASE", "ACTION", "TASK"}
-----------------------------------------------------------------------------
(* Operators named Bug... are plausible mistakes, not the code.                *)

BugTaskErrorsOnly(injected) ==
    {i \in Mapped : tasks[i].name[2] \in injected /\ tasks[i].error # None}

\* fault_fired: the executions of an injected node that carry an error.
Fired(injected) == {i \in Failed : tasks[i].name[2] \in injected}

FailedNodes(injected) == {tasks[i].name[2] : i \in Fired(injected)}

BugAnyErrorEdge(injected) ==
    {e \in EdgesOf(wf) : e.id \in ExecutedEdges /\ e.fails}

\* _handling_edge: an error edge of the failed node itself, or one whose condition
\* reads the failed node's result.
HandlingEdges(injected) ==
    {e \in EdgesOf(wf) : /\ e.id \in ExecutedEdges /\ e.fails
                         /\ \/ e.source \in FailedNodes(injected)
                            \/ e.reads \cap FailedNodes(injected) # {}}

\* _recovery_after_failure: executions after the first failure that did recovery work.
Recovery(injected) ==
    {i \in Mapped \ Failed : /\ IsCanonical(i)
                             /\ wf.type[tasks[i].name[2]] \in RecoveryTypes
                             /\ \E j \in Fired(injected) : j < i}

\* _classify, in its order.
Verdict(injected, asBaseline) ==
    IF RunFailed THEN IF Truncated THEN "HUNG" ELSE "UNHANDLED_CRASH"
    ELSE IF Fired(injected) # {} THEN
        IF HandlingEdges(injected) # {} /\ Recovery(injected) # {}
        THEN "HANDLED" ELSE "SILENT_SUCCESS"
    ELSE IF injected # {} \/ (asBaseline /\ NoFailures) THEN "NOT_TRIGGERED"
    ELSE "HANDLED"
-----------------------------------------------------------------------------
\* The cases whose faults are the injected ones: no other call failed.
Cases == {injected \in SUBSET Mocked(wf) :
             \A i \in DOMAIN history : history[i].met # None => tasks[i].name[2] \in injected}

Finished == propagate /\ status # "running"

\* An error path about a node that really failed was really taken.
PathTaken == \E i \in DOMAIN tasks, e \in Live(wf) :
    /\ history[i].met # None
    /\ e.id \in Taken /\ e.fails /\ tasks[i].name[2] \in {e.source} \cup e.reads

\* After a failure, a node that can notify or compensate ran without failing itself.
Recovered == \E i, j \in DOMAIN tasks :
    /\ i < j /\ history[i].met # None
    /\ IsCanonical(j) /\ history[j].met = None
    /\ wf.type[tasks[j].name[2]] \in RecoveryTypes

\* No two failures of the execution have the same message.
Distinct == \A i, j \in Met : history[i].met = history[j].met => i = j

\* As long as failures can be told apart, no other branch and no carried-on error
\* earns a workflow the credit of having handled a failure (fuzzing/engine.py 341-405).
HandledIsEarned ==
    Distinct => \A injected \in Cases \ {{}}, asBaseline \in BOOLEAN :
                    (Finished /\ Verdict(injected, asBaseline) = "HANDLED") => PathTaken /\ Recovered

\* A case is set aside as not triggered, outside the score, only if no injected
\* failure happened at all, however the workflow swallowed it.
NotTriggeredMeansUntouched ==
    \A injected \in Cases, asBaseline \in BOOLEAN :
        (Finished /\ Verdict(injected, asBaseline) = "NOT_TRIGGERED") =>
            \A i \in DOMAIN tasks : history[i].met = None

\* The verdict is earned, the credit and the exemption alike.
VerdictIsEarned == HandledIsEarned /\ NotTriggeredMeansUntouched
=============================================================================
