-------------------------- MODULE MCExecutionEngine --------------------------
(* Bounded instances of ExecutionEngine.  What a test declares is MockRegistry's *)
(* subject; here one node and one bland test are enough.                         *)
EXTENDS ExecutionEngine

CONSTANTS e1, e2, v1, v2

OneNode == {"crm"}
BlandTest == {[mocks |-> << >>, failures |-> << >>]}

\* Two engines, and an n8n that does what it is asked.
Healthy == [engines |-> {e1, e2}, versions |-> {v1}, faults |-> {}, unreleased |-> {},
            sweep |-> FALSE, ticks |-> 0]

\* One engine and two versions, which compete for its path, and time that passes.
Competing == [Healthy EXCEPT !.engines = {e1}, !.versions = {v1, v2}, !.ticks = 1]

\* Everything goes wrong, and two versions of the workflow are simulated.
Hostile == [engines |-> {e1}, versions |-> {v1, v2}, faults |-> FaultKinds,
            unreleased |-> {e1}, sweep |-> TRUE, ticks |-> 0]

\* Executions that outlast the deadline, and time that passes between the runs.  No run lasts
\* long enough for the registry to sweep it: MCMockRegistry has those.
Aging == [engines |-> {e1}, versions |-> {v1}, faults |-> {"slow"}, unreleased |-> {},
          sweep |-> FALSE, ticks |-> 2]

Surroundings == {Healthy, Competing, Hostile, Aging}
=============================================================================
