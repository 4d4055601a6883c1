# A verification project for WorkflowGuard

WorkflowGuard reads a workflow (n8n, BPMN, Qubi or plain JSON), turns it into a
canonical graph, and judges it: by rules, by tests that run the graph on a real n8n
against mock endpoints, by fuzzing, by an evaluation against its requirements, by its
cost, and by a quality gate over all of these. It also proposes repairs and, when one is
accepted, makes a new version of the workflow.

This directory holds TLA+ models of the parts of that program in which order matters,
TLC configurations that check them on small instances, and TLAPS proofs of what matters
most for every instance. `PROJECT.json` maps each definition to the lines of code it
stands for and lists components, runs, hazards, findings, theorems, and for every checked
property a mutated definition that breaks it.

Paths below are relative to the repository; CORE is
`packages/workflow-core/workflow_core`, API is `apps/api/workflowguard_api`.

## 1. Inventory

| Component | State it keeps | Operations | Hard behaviour |
|---|---|---|---|
| Mock registry, `CORE/execution/mocks.py` | run token → run; per run the test, a counter per node, a call log | `open`, `close`, `respond`, age sweep | request threads share it; `respond` takes the lock twice |
| Mock endpoints, `CORE/execution/mock_server.py`, `API/api/mocks.py` | none | one request: look up, delay, answer | called by n8n on its own schedule, also after the run is over |
| Execution engine, n8n client, `CORE/execution/engine.py`, `n8n_client.py` | cache fingerprint → published workflow | `simulate`, `release`, `sweep` | requests are refused, cut, or time out; cleanup is best effort; the process dies; several engines share one n8n |
| Result mapper, `CORE/execution/result_mapper.py` | none | execution record → result | ambiguity of the branch taken, bound on the walk |
| n8n emitter, `CORE/emitters/n8n/*` | none | graph → n8n workflow and edge map | the edge map must speak of the graph that was given |
| Test runner, assertions, coverage, `CORE/testing/*` | none between calls | `run`, coverage over earlier runs | outages and skips must not count as executions |
| Test generation, mock synthesis, `CORE/testing/{generator,mock_synthesis}.py` | none | workflow → tests | — |
| Testing service, `API/services/testing.py` | tables of tests and of test runs | generate, replace, create, run, list | requests overlap; rows tie on `created_at`; the workflow changes during a suite |
| Fuzzing, `CORE/fuzzing/*`, `API/services/fuzzing.py` | table of campaigns | run a campaign | telling an outage from a crash; retry; score |
| Workflow service, `API/services/workflows.py` | workflows, versions, validation runs | upload, new version, validate, list, delete | numbers computed from a copy; rows read by two statements |
| Repair engine and service, `CORE/repair/*`, `API/services/repairs.py` | table of proposals | generate, accept, reject | `accept` commits four times; it may fail or race in between |
| Evaluation, `CORE/evaluation/*`, `API/services/evaluations.py` | table of evaluations | evaluate | gathers evidence made at other times for other versions |
| Quality gate, `CORE/quality/*`, `API/services/quality.py` | table of gate runs | check | as evaluation |
| Validation, conditions, analysis, `CORE/validation/*`, `CORE/conditions.py`, `CORE/analysis/*` | none | rules, reachability, failure paths, score | graph algorithms on cyclic graphs, clamps |
| Requirement documents, `CORE/documents/*` | none | text → sections, clauses, constraints | what a heading leaves open, where a table ends |
| Parsers, canonical model | none | text → graph | dispatch among formats |
| Costing, `CORE/costing/*`, `API/services/costs.py` | tables of prices, scenarios, estimates | estimate, list, add and seed prices | two first requests seed at once; seeding commits what else the request has begun |
| Comparison, reporting | none | read and lay out | stamps are beginnings of transactions |
| AI providers, `API/ai/*` | none | call a remote model, or fall back | two nested retries; replies of any shape; answers about nodes that do not exist |
| Attachments, audit, platform, routes, CLI, migrations, web, bootstrap | rows, or none | single inserts and queries | — |

How they interact:

* A request to "run tests" makes the testing service build an engine, and calls
  `simulate()` once per test in one database transaction. Each call publishes the workflow
  if its fingerprint is not in the cache, opens a run in the **mock registry**, triggers
  the webhook, polls n8n until an execution record is finished or a deadline passes, maps
  the record together with the registry's call log into a result, deletes the record and
  closes the run. `release()` deletes what the engine published.
* n8n executes the workflow in its own time and calls the **mock endpoints**, on threads of
  the API process, which find the run by the token in the URL.
* The runner turns results into rows with a verdict and a coverage; **evaluation** and
  **quality gate** later read the newest row.
* **Repairs** create versions, and every other service asks for "the current version".
* The services share nothing but the database. Each request has a session that keeps what
  it has loaded (`expire_on_commit=False`, `API/db/session.py`).

What makes each correct, by component: the registry's log is exact; a run of the engine
measures itself, leaks nothing and always ends; versions are one history and a decision
on a proposal is made once; the evidence about a workflow is of the version, the test and
the execution it claims to be of; scores say what the findings say, whatever the size of a
workflow; a call of a model ends in an answer that fits the workflow or in the deterministic
one; a document yields the clauses that its outline says. The properties below make these precise, and the
`hazards` of `PROJECT.json` say where in the code each could fail.

## 2. The modules

```
MockResponses                 what a test declares, and the answer built from it
 ├─ MockTranscript            abstract: a run is a transcript of atomic calls
 └─ MockRegistry              locks, threads, logs, sweep      ⇒ MockTranscript
     └─ ExecutionEngine       engines + n8n client + n8n, with a MockRegistry inside
         └─ ExecutionEngineProofs  theorems
CompiledWorkflow              the emitter: graph → n8n graph and edge map
 ├─ CanonicalWalk             abstract: what executing the canonical graph means
 └─ CompiledRun               n8n executing the graph, result mapper  ⇒ CanonicalWalk
     └─ FuzzVerdict           what a fuzz case is taken to show
SimulationProofs              theorems about MockRegistry, and about CompiledRun and FuzzVerdict
Conditions                    the condition language: its evaluator and its solver
StructuralValidation          rules and score over the graph of a workflow
 └─ PathSearch                the search for a path, the input solved along it
     └─ PathSearchProofs      theorems
RepairLifecycle               proposals, versions, validation as database sessions
 └─ RepairLifecycleProofs     theorems
TestEvidence                  tests, runs, coverage, evaluation, gate as sessions
 └─ TestEvidenceProofs        theorems
Requirements                  EXTENDS StructuralValidation: prompt and documents, matching
 └─ EvaluationRules           the static rules, populations, scores
     └─ Assessment            campaigns, evaluations and gate as sessions
         └─ AssessmentProofs  theorems
MarkdownParser                a document, read line by line
AiCalls                       a request that asks a model, with retries and fallbacks
 └─ InputProofs               theorems about AiCalls and about MarkdownParser
Costing                       prices, their seeding, estimates as sessions
 └─ CostingProofs             theorems
MC*.tla, *.cfg                the instances TLC checks
```

Operators whose names begin with `Bug` are not the code. Each is a mistake the code could
plausibly contain; substituted for the definition below it, it makes a property fail, which
is how we know that the property looks at that part of the code.

### MockResponses, MockRegistry, MockTranscript

`registry` is `_runs`, from token to an index into `runs`, the sequence of all `RunMocks`
objects ever made (a thread may still hold one that is no longer registered). `handler`
is what each request thread is doing. `Open` and `Close` are the methods; `CountAttempt` and
`LogCall` are the two lock sections of `respond()`; `Answer` is the delay and the write to
the socket. The answer itself, an injected failure before a mock before a default, with the
last of several mocks of a node winning, is computed by `MockResponses`.

`MockTranscript` states the promise without any of the mechanism: an attempt is numbered
and answered in one step. The refinement mapping takes the log of a run together with its
requests in flight for its transcript, so a request takes effect in its first lock section.

### ExecutionEngine

One step per HTTP request of `n8n_client.py`. A request may succeed, be refused without
effect, or take effect and lose its reply; requests that tolerate failure never raise. The
`pc` of an engine follows `simulate()`, its `except` and `finally`, `_publish`, `_drop` and
`release()`. n8n is external, modelled by what the client relies on: one active workflow
per webhook path, execution records that appear some time after the trigger is
acknowledged, the newest first. A running execution calls the mock endpoints of its path,
through the actions of `MockRegistry`. `env`, which never changes, is the surroundings of a
behaviour: which engines and versions there are, which faults occur, who forgets to release an
engine, whether somebody sweeps. An invariant may so be stated for every surroundings in which
it holds (`Calm`: no fault and no sweep).

### CompiledWorkflow, CompiledRun, CanonicalWalk, FuzzVerdict

`CompiledWorkflow` is the emitter as operators on a graph: `PortOf` gives the n8n node and
output every edge hangs on (failure edges on an error output, the branches of a gateway on
the gateway itself, those of another node on a router behind it, the fallback after the
last branch); `Marked` are the nodes behind which failure propagation inserts a marker, which
takes over their output 0; `EdgeMap` says which edge an output stands for.

`CompiledRun` executes `Links` as n8n does: `pending` are the inputs that wait for their
node, any of which may run next; a task records what it put on which output. Calls may
fail with a message, which leaves by the error output, is swallowed and rides on down the
normal output, or ends the execution. Any branch may be chosen, since conditions are
data: `DecidedOutputs` are the outputs of the branches and the one after them, on which a Switch
without a fallback has nothing. The result mapper is then a set of state functions over `tasks`, so every property
is checked on every prefix of every record. `history` keeps what really happened.

`CanonicalWalk` says what it means to execute the canonical graph, with no n8n in it.
The refinement mapping forgets routers and markers: their tasks are tokens that have run a
node and not left it yet. So compilation adds no path, loses none and repeats nothing.

`FuzzVerdict` is `_classify` in its order, over the mapped run.

The initial predicate, next-state relation and specification of `CompiledRun` are called `RunInit`,
`RunNext` and `RunSpec`, so that one module can hold the proofs about the two halves of a simulated
run, the calls it makes of the mock registry and what n8n does between them.

What is assumed of n8n: a node runs once for each input; only calls (the nodes whose
requests go to the mock server) fail; a call answers with a fresh item, other nodes pass
theirs on; the error output of a node is output 1; each task is given one item.

### Conditions, StructuralValidation, PathSearch

The program reads the condition of an edge twice: `conditions.py` evaluates it,
`analysis/reachability.py` solves it for an input that makes it true, with a parser of its
own. `Conditions` has both as operators over one syntax, which is what the text of a
condition is to the two parsers; values keep what a comparison tells apart (a boolean is a
number, a text is not, a reference that the state does not resolve stands for its own text).

`StructuralValidation` has the rules one by one, as operators over a workflow whose edges
may lead nowhere and whose nodes may share an id, and the score with its rounding half to
even. What networkx computes is given by definition: a descendant is in every closed
set around the node.

`PathSearch` is `path_to` as a loop: `Dequeue` is `popleft`, `Examine` one round of the inner
`for`, and a step `Steer` computes `reaching_input` along the answer. A validation of the same
workflow follows, so that what the two analyses decide can be compared.

### RepairLifecycle

Rows are sequences in the order they were committed. A request holds what its session has
loaded (`current`, `seen`, `status`), and each statement or commit that another request
could come before is a step: the proposal row, the workflow row, its versions, the commit
of the new version, the validation, the decision. `NumberFree` is the table's unique
constraint on (workflow, number), the only thing concurrent requests meet at.

### TestEvidence

A request is a session whose transaction starts with its first statement. `created_at` is
the beginning of the transaction, so all runs of a suite carry the same stamp, and "the
newest row" is any of those that tie (`Newest`). A suite inserts row after row and commits
once; a row it has inserted locks its test against deletion (`Locked`); a deletion takes the
rows the session had loaded, and a foreign key undoes it when there are others. A
coverage holds two sets of test names: what was executed, one part for each name, and whose linked
requirements count as tested. `Overall` weighs them as the code does, three quarters for
nodes, edges and branches, which a test executes together here, and one for
requirements; `CheckGate` compares that with `MinCoverage`. How many nodes a test visits is left out.

### Requirements, EvaluationRules, Assessment

`Requirements` is `evaluation/requirements.py` and `alignment.py`: a text is the set of its
words, a clause has the cues its wording gives and the systems it names; matching keeps the
overlap of words, the thresholds and the order in which ties are broken. `EvaluationRules` has
the rules of reliability, security and maintainability one by one, and `scoring.py`: what a
finding costs, as a share of the population the rule looked at, capped per rule, and the
weights renormalised over the dimensions that were measured. Scores are exact fractions where
the code has floats; the code's own rounding is kept.

`Assessment` puts them under sessions. `BeginCampaign`, `RunCase` (with the one steered retry) and
`FinishCampaign` are `FuzzEngine.run` and its service; `BeginEvaluation`, `ReadCampaign` and
`StoreEvaluation` are the three moments at which `evaluate()` looks at the database or waits for
a model; `CheckGate` reads the latest rows, whichever version they are of, and files its verdict
under the current one. `heard` and `lost` are history: what the runs of a
case said first, and whether n8n recorded a run at all. What one run is taken to show is
`FuzzVerdict`'s subject; here a run may have any verdict that `_classify` can give it.

### MarkdownParser

One action per kind of line that the loop of `_sections` tells apart; a line is what the patterns
see of it (level and topic of a heading, indentation of a bullet, names over a table). `inherited`
is the code's stack of scored levels. A list of lines is the set of their numbers, because the code
takes lines in the order of the document and none twice, and a clause carries its place: section,
part of the section, line. `Parse` makes the clauses and constraints of the document. The property compares them with an outline, defined from the lines alone without any state.

### AiCalls

`agenda` is the calls that the request still has to make, `call` the one under way. A reply is one
of the classes the code tells apart, and `Outcome` what the client of the provider makes of it:
Groq's has two nested retries (`WaitOut`, `AskInWords`), OpenAI's none. `GiveUp` and `Decline` are
the `except` clauses, `Survive` the one that catches everything, `Fail` an error that gets past
them. `TakeAnswer` keeps of an answer what `_clamp` and its siblings keep;
a suggestion that is kept keeps its position in the reply. Of the types of failure, malformed output
can happen at language models only; `http_500` stands for all the others.

### Costing

`CountPricing` and `SeedPricing` are the two halves of `_seed_pricing`, whose commit also commits
the scenario that `estimate` has flushed by then. `Best` are the entries that `find` may return, of
which several may tie. `NodeCost`, `PerRun` and `Advice` are the estimator and the optimiser, in
integers.

## 3. What the runs check

| Run | Question | Bounds |
|---|---|---|
| `mock_registry` | Is the call log exact, are the answers of a run to the calls of a node what its test says of the first attempt, of the second and so on, is every counted call logged in the end, and is it all as if calls were atomic? | 2 nodes, 2 tokens, 2 threads, 2 runs opened, 2 attempts per run, 1 tick |
| `engine` | In each of four surroundings: is a healthy run measured by its own execution, do mock calls stay in their run, does the cache only hand out what n8n serves, is each workflow left behind explained, does every call end? | 2 engines and an n8n that does what it is asked; 1 engine, 2 versions and every fault; 1 engine and 2 versions that compete for its path; 1 engine, executions that outlast the deadline, and time that passes between runs; 2 calls per engine |
| `repair` | However requests overlap and die: is the history linear, does an accepted proposal own its version? One after another: do repairs accumulate, and does a proposal make one version at most? | 2 requests, 2 proposals, 3 versions |
| `evidence` | Is coverage cumulative and exact, and is an evaluation's coverage of its version, whatever overlaps? While nothing has overlapped: is generation idempotent, is the reply the suite, does the gate go by the last verdict? | 2 requests at once, 3 in all, 2 names of which one is linked to a requirement, 2 tests, 2 versions, a minimum coverage that one of two names executed reaches |
| `compiled_run` | Is an execution of the compiled graph a walk of the canonical one, and are the path, the failures, the status and the fuzz verdict read back as they happened? | all subsets of 8 edges over 3 nodes behind a trigger, 3 choices of node types for the first two and 2 for the last, 8 tasks, step limit 7, 2 messages |
| `path_search` | Do the two analyses that decide reachability agree, is the path found a shortest one, does the input solved along it open its branches, does a score of 100 mean no finding? | all subsets of 9 edges under 4 sets of nodes; chains of two branches under all pairs of 15 conditions; 2 inputs to start from |
| `assessment` | Does a campaign count each case once, by the first run that told anything? Does an evaluation blend a campaign of its own version or none, and one that exercised nothing into no score? Does a pass of the gate rest on an evaluation that found no secret and some failure handled? Is size no defect, and the overall score a mean? | 3 workflows, 2 requests, 1 campaign of 1 case and 1 of a model, 2 versions |
| `documents` | Does a document yield what its outline says: each heading one section, scored by itself or the nearest heading above it, each line one clause or none? | every document of up to 5 lines out of 14 |
| `ai_calls` | Does every request end, after a bounded number of posts for each call; does what is kept of an answer fit the workflow? | every provider, request and reply; answers of up to 2 suggestions |
| `costing` | Does a failed request leave a scenario behind only where seeding commits it early? Is no price ever lost, or replaced by one that ranks lower? | 2 requests at once, 3 in all, 3 nodes, 3 default prices, 2 additions out of 3 |

Why the bounds are enough. The races of the registry need two requests in one run, and one
run replacing another; two of each suffices, and the proofs cover the rest. The two tests of
`MCMockRegistry` disagree about every answer, so an answer taken from the wrong run shows, and two
nodes tell a counter per node from a shared one. The sweep of runs past their age happens in
`mock_registry` only: a run of `engine` lasts no longer than the client's timeouts let it, some
minutes, and the registry's sweep waits for an hour. A
run of an engine meets its predecessor only, so two calls per engine show what leaks from one
to the next, and a second engine shows what leaks across. Two versions are enough for the
cache to hold several entries, and for one to be refused the path the other holds. In `RepairLifecycle` a race needs two requests and one
proposal; the second proposal is there so that versions of different origin mix. In
`TestEvidence` the critical tests may have been generated before, so three requests allow to run,
edit, and run or judge again; `overlapped` is a history variable that tells the behaviours in
which requests came one after another from the others, so both are in one run.
The workflows of `MCAssessment` differ in every rule: a harmless one, one with a secret and
a missing approval, and one with a loop and a model without a fallback; one campaign beside one
evaluation, or two evaluations, is every way in which the two can overlap, and the retry needs one
case. Five lines are enough for a heading, one under it, one beside it, and a table with
header, divider and row. `PostCap` counts further than any call posts. In `MCCosting` three requests
let two seed and a third estimate; the additions are an own price, an older and a newer one.
The graphs of `MCPathSearch` have cycles, parallel edges, edges to nowhere, duplicate ids,
declared starts or none, and isolated parts, which is every flaw the rules look for; its
conditions each kind of clause, connective and spelling, and pairs that contradict.
The pool of edges of `MCFuzzVerdict` has each kind the emitter treats
differently: two plain edges from one node, one condition or two, a fallback, a failure
edge with a condition and without, a loop, and an edge to nowhere; seven tasks are enough
to go around the loop twice and to leave it, and an eighth is beyond the step limit.
Every constant named `Max...` is a bound of the model and not of the code, except `MaxAge` and `MaxSteps`;
`RunLimit` is the time the client's timeouts leave one run, which the clock respects.

Deadlock is not checked where the callers have finitely many calls to make and then stop
(`ExecutionEngine`, `AiCalls`), an execution, an analysis or a document ends (`CompiledRun`,
`PathSearch`, `MarkdownParser`) or the number of requests is bounded (`TestEvidence`,
`Assessment`, `Costing`). It is checked for `MockRegistry` and `RepairLifecycle`.

### Fairness

* `MockRegistry`: weak fairness of `LogCall` and `Answer` per thread. A lock is held for a
  few assignments, and the delay before an answer is finite. Requests need not arrive.
* `ExecutionEngine`: weak fairness of an engine's own steps (`Progress`). Every request has
  a timeout and the poll a deadline, so an engine is never stuck within `simulate()` or
  `release()`. n8n is given no fairness at all, and the faults of the network none either, so
  `SimulationEnds` does not rest on an error that happens to end the call. The caller is
  not obliged to call anything.
* `AiCalls`: weak fairness of its next-state relation. The client's timeout answers where the
  provider does not, and a wait for a rate limit is capped
  (`MAX_RATE_LIMIT_WAIT_SECONDS`); which reply comes is left open.
* The database modules state no fairness and no liveness: a request may die at any point.

### Where the code does something else than it says

Two runs end in a counterexample. Each checks one sentence of the repository.

* `report_reflected` — a report says whether the latest campaign is "reflected in the scores" by
  comparing `created_at` of campaign and evaluation. Both are the beginning of a transaction, and
  a campaign takes minutes: one that began before an evaluation and was committed after it is
  called reflected although the evaluation could not see it (`reports.py` 198).
* `fuzz_blames` — `simulate()` returns an `ERROR` when n8n recorded no execution, and a
  campaign makes an unhandled crash of the workflow of it, which lowers its robustness and files
  findings against its nodes; the comment at `engine.py` 96-99 promises to keep the two apart.

Further disagreements, met while modelling:

* `accept()` applies the patch to get the new version, commits, and then previews the patch on
  the version that already contains it. For ADD_NODE, ADD_EDGE and REMOVE_EDGE that
  raises: the workflow has changed, the proposal stays open, and can be tried again
  (`repairs.py` 110; `FinishFails`).
* `delete_execution` is best effort, and the poll takes the newest record of the workflow: if
  one could not be deleted, the next run may report it as its own (`n8n_client.py` 136, 195).
* The validation that ends `accept()` looks for the current version in the collection loaded
  before it was created, and falls back to the one before (`workflows.py` 131).
* When failures propagate, an error whose message was seen before is taken for one that merely
  passed through, so a call that is retried and fails again counts as recovered
  (`result_mapper.py` 179, `fuzzing/engine.py` 334). `Distinct` exempts it.
* An error branch that runs straight to the end "has handled nothing, it has only hidden the
  failure" (`fuzzing/engine.py` 321), and yet any node of the right type that runs after the first
  failure, on a branch that has nothing to do with it, earns it the credit (334-340).
* Of several plain edges of one node the edge map keeps the last, so the others are never
  reported as executed although n8n takes them all (`emitters/n8n/models.py` 66-77).
* `scoring.py` 144-146 wants no score to depend on the size of a workflow; findings of
  WG-ALIGN-002, WG-ALIGN-006, WG-REL-005 and of campaigns have no population, so their sum does.
  The severity of WG-ALIGN-001 is lowered for some requirements and its cost is not.
* Any heading ends a section, where the docstring of `DocumentSection` says that one of the same or
  a higher level does (`documents/models.py`).
* The tests that an OpenAI provider suggests may expect a path over nodes that do not exist.
* A node without a model may be priced by any of its provider's models; the default price for
  "compute" names a provider that no node has; an entry dated in the future applies at once; and
  whoever adds a price to an empty table keeps it from ever being seeded.

### What does not hold, and is not claimed

Properties have the scope in which the code keeps them. Outside of it:

* `CallsStayInTheirRun` needs an n8n that does what it is asked, in time, and nobody who sweeps
  (`Calm`): after a failed poll an execution may still be running when the engine opens its next
  run under the same token, and so may one of a workflow that was swept while another version of it
  took over the path.
* `HealthyRunsAreMeasured` needs the same, and, for every call to be measured, one version per
  workflow: two versions claim one webhook path, and n8n refuses the second with a 409. That what
  is measured is the call's own execution holds for competing versions too.
* `OrphansAreExcused` counts a dropped engine among the excuses: the one that previews
  repairs is never released (`repairs.py` 139).
* `CacheHandsOutPublished` exempts what was swept: `sweep()` takes every workflow with the
  prefix for an orphan, those that other engines have cached included.
* `NoRepairIsLost`, `DecidedOnce`, `GenerationIsIdempotent`, `ReplyIsTheSuite` and `GateHearsTheLastWord` hold for one request after another.
  Overlapping requests break each: the workflow row and its versions are
  read by two statements, `accept` checks the status long before it writes it, names are read
  before they are stored, and stamps are in the order requests began.
* `PathIsRecovered` is about edges that have an output to themselves, and, as to decisions, about
  runs without propagation: with it the marker behind a gateway takes the label of its first branch
  along, and that decision is not reported.
* `FailuresAreTheThrowers` and `VerdictIsEarned` allow for failures with equal messages,
  which the mapper cannot tell apart.
* `VerdictIsEarned` has credit mean two things: an error path about a node that failed was taken
  (`PathTaken`), and recovery work was done after a failure (`Recovered`). It does not say that the
  two are about the same failure, which is false of two failures, nor that the work stands on that
  path. That it is one failure holds on the instance, whose graphs are small, and not in general.
* A run cut off by n8n's deadline before the step limit is a crash, not a hang.
* A test of which n8n recorded no execution is stored with the coverage of the tests before
  it in the suite (`runner.py` 93).
* `SteeredInputOpensThePath` is about conditions the solver can read. It does not split at
  the words `or` and `and`, which the evaluator does; of `a && b || c` it solves `a` alone, so
  `b` may stay closed; and of two clauses on one field the value for the last one stays
  (`amount > 8 && amount != 3` is solved by 4). It promises no more than "as far as it can be
  solved" (`reachability.py` 78).
* `AnalysesAgree` says nothing when there is no start node: the rule then reports the missing
  start and no unreachable node, while the search finds no path to anything.
* `CampaignsAddUp` has robustness 100 mean no finding for campaigns of fewer than 200 cases; 499
  handled of 500, which the API allows, round to 100 as well.
* A request that asks a model does not always fall back, although `docs/architecture.md` 99 says
  so of malformed responses and request errors. What gets past the callers (`Escapes`, `Fail`): from Groq an error
  whose body is JSON and no object with an error, a 200 that is a JSON array, a negative hint how long to
  wait, and a schema rejected in words as well; from OpenAI an array, or for the matcher a
  broken connection. The request then fails, and nothing of it is stored.
* `SizeIsNoDefect` is about the rules on calls and on security.
* `PricesOnlyImprove` is about how prices rank, not about their amounts. Savings of several kinds of
  advice together may exceed the cost.
* `ParsesAsAnOutline` takes the code's word for what a line is. A first row of a table that is shorter
  than its header, and two columns of one name, lose cells; this is left out.
* `PassIsEarned` is about the version that was evaluated. The gate takes the latest evaluation,
  validation and coverage, whichever version they are of, and files its verdict under the current
  version (`quality.py` 26-28, 97): a version edited since may have a secret that nobody looked
  for, and passes on coverage that was measured before, which an evaluation would refuse
  (`evaluations.py` 202-204). The gate also counts a high-importance test that never ran as not failed.
* `CoverageAddsUp` has the requirements of all tests of a suite count as tested, run or not; that is
  what the code does (`coverage.py` 20, 26-27), and a quarter of the figure.

## 4. What is proved

For every value of the constants that meets the named assumptions
(`RegistryAssumption`, `RunAssumption`, `EngineAssumption`, `LifecycleAssumption`, `EvidenceAssumption`,
`AssessmentAssumption`, `FieldAssumption`, `WorkflowAssumption`, `AiConstants`,
`UnitAssumption`, `RecordAssumption`, `ShareAssumption`, `CostingAssumption`, `LineAssumption`), from the
specification's `Init` and `Next`.

`SimulationProofs`, of the registry:

* `TypeCorrect` — `Spec => []TypeOK`.
* `CallLogIsExact` — `Spec => []CallLogExact`, by an invariant that is nearly inductive
  already: numbers in the log or in flight were counted, none twice, and every number counted
  is in one of the two places. `CountAttempt` adds the next number to the counter and to the
  requests in flight, `LogCall` moves it from there to the log of the same run, which is why
  it matters that the thread logs on the object it holds.
* `InjectionsAreExact` — `Spec => []InjectionsFireOnTheirAttempt`. The property does not look at the
  numbers the registry keeps; it asks whether the answers can be numbered so that each is what the test says. The
  proof numbers them as the counter did: an answer, logged or in flight, is what the test says
  of the number its request was counted with (`Built`, `Faithful`), and by the exact log these numbers
  are 1 to the number of the answers, each once (`NumbersLineUp`).
* `RegistryImplementsTranscript` — `Spec => TranscriptSpec`, step by step. The first lock section is
  the step that serves a call, the second one, the answer, the registration of runs and the clock
  are steps or stutters that leave the transcripts alone. That the transcript's next number is the
  one `_next_attempt` took follows from the exact log: numbers are in bijection with the attempts
  logged or in flight, so there are as many of these as the counter says.

`SimulationProofs`, of the execution and how it is read back, for every workflow whose edges form a
list, start at nodes and have ids of their own (`RunAssumption`), and for every message:

* `BlameIsEarned` — `RunSpec => []FailuresAreTheThrowers`,
* `StatusesAreEarned` — `RunSpec => []StatusIsEarned`,
* `VerdictsAreEarned` — `RunSpec => []VerdictIsEarned`, and
* `PathsAreRecovered` — `RunSpec => []PathIsRecovered`, all by one invariant, `RunInv`. It says of every
  input that waits, and of every task, that a connection of the emitted graph led there from an
  output on which an earlier task put something (`Origin`); of every task, that it either met an error
  itself, in one of the three ways `onError` allows (`Threw`), or passed an item on whose error, if it
  carries one, an earlier task met (`PassedOn`); and, as long as n8n has not stopped the execution, that
  an output that delivered to one of its connections delivered to all (`FannedOut`). The last is what
  turns "something was put on the output" into "the edge was taken", for both directions of the
  recovery. The rest is about the wiring: no synthetic connection hangs on an output that an edge
  hangs on (`SyntheticPorts`), the EdgeMap's entry for an output is one of its edges, and outputs tell
  conditional branches apart (`Positions`).
* `RunIsAWalk` — `RunSpec => WalkSpec`, step by step. Arrivals and departures of the abstract walk are the
  numbers of inputs that wait at a node, and behind it at its router or its marker. An output leads on
  the edges of one of the node's departures or, if it is one that the node shares with its router or
  marker, behind the node and nowhere else (`OwnPortLeads`, `RouterPortLeads`, `MarkerPortLeads`,
  `ErrorPortLeads`); inputs that wait are finitely many and a task exchanges one of them for those
  its output brings (`SentCounts`). So running a node is `Pass` or `Fail`, running its router or marker is
  `Leave` or, between marker and router, a stutter, and an aborted call is `Abort`.

`ExecutionEngineProofs`, in every surroundings of any number of engines, versions and threads:

* `CacheIsTruthful` — `Spec => []CacheHandsOutPublished`, and
* `NothingIsForgotten` — `Spec => []OrphansAreExcused`, by `IInv`: the workflow an engine holds
  between two requests is its own, of the version it was asked for and not cached while it is being
  published or dropped; what is cached exists and is active unless it is excused.
* `CallsCountForTheirRun` — `Spec => []CallsStayInTheirRun`, and
* `SimulationsMeasure` — `Spec => []HealthyRunsAreMeasured`, by a second invariant for the calm
  surroundings: one workflow of a path at most is active, and a cached one is, so a trigger reaches the
  engine's own; n8n keeps no other execution of that path, because the one before was found by the
  poll and deleted before `simulate()` returned; so the newest record is this run's, and a call it
  makes is counted by the run its engine opened, or by none when the sweep of old runs took that.

`RepairLifecycleProofs`:

* `RepairTypeCorrect` — `Spec => []TypeOK`.
* `VersionHistoryIsLinear` — `Spec => []HistoryIsLinear`. The invariant adds that a session
  has seen a prefix of the history; then the number it computes is free only if it has seen
  all of it, so the unique constraint acts as an optimistic lock.
* `AcceptanceIsFaithful` — `Spec => []AcceptedOwnsVersion`. The invariant adds what
  holds between the commits: a session that has created a version holds one made from its own
  proposal, and rows of versions and patches never change once stored.

The inductive invariant is `IInv == VersionRows /\ ProposalRows /\ EvidenceRows /\ Requests`.
Its last conjunct speaks of each request at each `pc`. For requests that come one after another,
`Serial` adds what is then true: each version contains the ones before it and the patch it was made
from, and what the one request under way has loaded is what is stored.

* `RepairsAccumulate` — `Spec => []NoRepairIsLost`.
* `OneVersionPerProposal` — `Spec => DecidedOnce`, an action property. The hard case is the proposal
  whose preview fails after the version was committed: it stays open, but the last version contains
  its patch from then on, and a patch that fails on top of itself does not apply again.

`TestEvidenceProofs`, however requests overlap:

* `EvidenceIsOfTheVersion` — `Spec => []EvaluationIsOfItsVersion`.
* `CoverageIsOfTheSuite` — `Spec => []CoverageAddsUp`. Sessions have stamps of their own, and no row
  carries the stamp of a session that has not committed; so the rows of a suite are told from all
  others by their stamp, a commit appends a whole suite, and the executed parts a row was given over the
  rows before it in its session are those over the rows before it in the table. A suite is
  committed when it has a row for each of its tests, so the tests of the rows with its stamp are the
  tests whose requirements were counted, also by a row inserted before the others.

While nothing has overlapped (a second invariant, `Serial`: stamps are in the order of the rows, names of
the tests that are left are unique, and what the one session has listed is what there is):

* `GeneratingTwiceStoresOnce` — `Spec => []GenerationIsIdempotent`.
* `AnswersAreTheSuite` — `Spec => []ReplyIsTheSuite`.
* `GateKnowsTheLastRun` — `Spec => GateHearsTheLastWord`, an action property.

`AssessmentProofs`, for every finite set of workflows with finite graphs, of campaigns and requests:

* `EvaluationsAreOfTheirVersion` — `Spec => []EvidenceIsOfItsVersion`.
* `PassesAreEarned` — `Spec => []PassIsEarned`, of the version that was evaluated, which is the one passed
  or an earlier one.
* `CampaignsCountEveryCase` — `Spec => []CampaignsAddUp`.
* `OverallScoresAreMeans` — `Spec => []OverallIsAMean`.
* `SizeDoesNotCount` — `Spec => []SizeIsNoDefect`.

  Most of the argument is about the score. What a rule's findings cost is a sum over a set; that
  such sums exist and are natural numbers is shown with a table of them and the least-number
  principle for the size of the set. So a dimension with finitely many well-formed findings scores
  0 to 100, and each static rule is shown to yield such findings, those on loops because a finite
  graph has finitely many simple cycles. A campaign that handled no case has robustness 0, so what
  is blended with it is at most 61, which the gate refuses. The invariant over sessions is
  that rows are only added, that an evaluation under way holds a campaign of its own version or
  none, and that a campaign under way has counted the cases behind it; the newest row exists because
  stamps are bounded by the clock. That a robustness of 100 means no finding needs a lemma
  about rounding (`WholeShare`), which is where the bound of 200 cases comes from.

  For the overall score all nine dimensions must be numbers first: requirement coverage is a sum over
  the requirements a prompt and its documents leave, which are finitely many because extracting and
  merging append to lists (shown with tables of the folds), and blending and coverage replace numbers by
  numbers. Then the sum of the weighted scores is between the least score and the greatest times the
  sum of the weights, which are positive, and rounding to the nearest keeps a quotient between two whole
  numbers there. The invariant says of every row that its score was so, and of every evaluation
  under way that the structural score it read is a number.

  `SizeIsNoDefect` is a fact about every workflow. Each of the nine rules on calls and on security finds
  something at certain places (ids, or ids with keys); the places in two copies are the pairs of a copy
  and a place, which are twice as many, in twice the population, or there is the one advice that no call
  declares anything, which is the same. So each rule takes the same, and the sums agree because
  there is one table of them. Scores are counted in parts of `1/Unit`; the theorem assumes that `Unit` is a
  multiple of the populations of the workflows and of their doubles (`ShareAssumption`), without
  which a share would not be a whole number of parts and the model not the code.

`PathSearchProofs`, for every finite workflow and whatever the conditions:

* `SearchAgreesWithValidation` — `Spec => []AnalysesAgree`.
* `AnswersAreRight` — an answer is a path from a start node to the target, and none is given
  up that exists. The invariant is that of a worklist: what was seen is reachable, an entry's
  trail is a path to its node, and every edge that leaves a seen node ends in a seen node, or
  starts at a node still waiting, or is still to be examined. When nothing waits, the nodes
  seen are a closed set around the starts without the target, which is how the validation
  defines unreachable.
* `AnswersAreShortest` — `Spec => []PathIsShortest`. A second invariant, `Levels`, says that the
  queue holds nodes of two levels at most, the nearer ones first, and that everything no further than
  the node under examination was seen. `Within` asks for a path of a length; it is unfolded one edge at
  a time by a table of such paths and the least-number principle.
* `PerfectIsWithoutFindings` — `Spec => []PerfectMeansClean`. Findings are finitely many, those on
  loops too; each costs 6 at least and the bonus for good practice is 5 at most, so a
  score of 100 leaves room for none.
* `SteeringOpensThePath` — `Spec => []SteeredInputOpensThePath`. The value solved for a clause satisfies
  its comparison, for each kind of literal and each operator the solver can read
  (`ValueSolves`), and backwards because a comparison is the mirrored one with its sides exchanged
  (`MirrorTurns`). That value is in the input, because an update that alone gives a field decides it
  (`UpdatedAt`), the solver gives only fields its clauses test (`SolvedFields`), and of an
  undisturbed condition nothing else on the path tests those. `WorkflowAssumption` says besides that edges
  carry conditions as the parsers read them (`IsWritten`), with whole numbers and texts of any rank.

`InputProofs`, for every sequence of replies and for every document:

* `PostsAreFew` — `Spec => []CallsAreBounded`. The invariant counts the chances a call has used up:
  the posts are at most two for the first phase, if it is over, and one for the wait, if it was
  used, and one for the reply at hand; and only Groq's client has either chance.
* `AnswersAreClamped` — `Spec => []AnswersFitTheWorkflow`. However much a reply says
  and whatever it claims, what is kept names nodes of the request only, a verdict keeps its
  nodes within what the workflow has, and there are no more cases than were asked for. A case
  injects failures that there are at nodes it targets, malformed output at language models only, at
  occurrences in range.

* `OutlinesAreParsed` — `ParserSpec => []ParsesAsAnOutline`. By the invariant `ParserInv`, the verdicts
  that are inherited are those on the headings still open, the headings a next one may stand under
  (`OpenHeads`, `Inherits`): what a heading leaves open is its lineage (`NewLineage`), and the lowest of
  those above it has the verdict it goes by (`ParentLineage`, `NewScore`). The rows kept apart are the
  table the document ends with, and the first is its header (`LastTableHeader`). A section that is
  closed is whole (`FlushedIsComplete`) and no later line changes it, its score or what its lines say
  (`WholeStays`, `ScoresStay`). Sections share no line (`SectionsAreDisjoint`), so no line yields two clauses.

`CostingProofs`, for any number of requests, nodes and prices:

* `FailuresLeaveNothing` — `Spec => []OnlySeedingLeavesScenarios`. A request that will seed, or may
  still find the table empty, began when it was empty, because a table never becomes empty again.
* `PricesAreTheBest` — `Spec => []PricesOnlyImprove`. The invariant says that a quote was read from a
  prefix of the table, and that a prefix that was read contains the defaults unless the first row was
  added by hand; since tables only grow, candidates do, and a best candidate exists because dates
  are bounded (the least-number principle for `LastDate - date`).

An induction over a number or over the size of a finite set, and so a fact about a sum, is done by the
least-number principle: `WFMin` with `NatLessThanWellFounded`.

Only model-checked:

* liveness (`CountedIsLogged`, `SimulationEnds`, `RequestsEnd`), which is beyond the prover.

Facts by induction over data and definitions by `RECURSIVE` operators are beyond the prover; the
modules proved about use neither.

## 5. What is not modelled

* Pure functions that turn text into graphs or graphs into text: the parsers of workflows, the layout
  of reports, comparison, test generation. Their substance is tables of names and data.
* What a remote model answers: `AiCalls` lets it answer anything of the shape asked for.
* Routes, schemas, CLI, migrations, the web front end: translation without state.
* Attachments and audit: single inserts, deletions and queries.
* Within modelled parts: headers and bodies of mock answers, wording of suggestions and
  findings, n8n node parameters, the payloads of fuzz cases, the rounding of amounts of money,
  and the assertions of a test, which are a choice of outcome.
* Several API processes. The mock registry lives in one process, and the deployment
  documentation asks for one.

## 6. Plan

Done: the mock registry, the engine, repairs and versions, tests and the evidence drawn from
them, the emitter's wiring, the result mapper and the fuzz verdict, conditions, structural validation
and the search for a path, requirements, evaluation, campaigns and the gate, documents, the calls of
models, costs. Next:

1. **Branches that follow from data.** The expression n8n evaluates, as rendered by
   `emitters/n8n/conditions.py`, against `evaluate_condition`, and `Conditions` under the
   branches of `CompiledRun`.
2. **Diagnosis of entry points** against the strongly connected components an entry point leads to.
3. **Test generation**: which branches, failures and boundaries the generated tests cover.
4. **Workflow service in full**: deletion, listing, re-upload.
