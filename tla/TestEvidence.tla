----------------------------- MODULE TestEvidence -----------------------------
(***************************************************************************)
(* What the services know about one workflow from testing it: the tables of   *)
(* services/testing.py, and the coverage and verdicts that                    *)
(* services/evaluations.py and services/quality.py read from them.            *)
(*                                                                         *)
(* Every API request is a session whose first statement begins a transaction. *)
(* Rows are stamped by created_at = now(), which PostgreSQL freezes at the     *)
(* beginning of the transaction: a suite's runs share one stamp, and stamps    *)
(* are in the order requests began, not in the order they committed.  A query *)
(* that orders by the stamp alone may return tied rows in any order.  Other   *)
(* sessions see a row once it is committed (READ COMMITTED).                   *)
(***************************************************************************)
EXTENDS Naturals, Sequences, FiniteSets

CONSTANTS Request,        \* API requests in flight at once
          Name,           \* names of tests; each test covers a part of its own
          Critical,       \* names of importance HIGH or CRITICAL
          Linked,         \* names whose tests are linked to a requirement, each its own
          MinCoverage,    \* test_coverage_min, in per cent
          MaxRequests,    \* bound: requests ever served
          MaxTests,       \* bound: test rows ever stored
          MaxVersions     \* bound: versions of the workflow

ASSUME EvidenceAssumption ==
    /\ IsFiniteSet(Request) /\ IsFiniteSet(Name)
    /\ Critical \subseteq Name /\ Linked \subseteq Name /\ MinCoverage \in Nat
    /\ MaxRequests \in Nat /\ MaxTests \in Nat /\ MaxVersions \in Nat

VARIABLES clock,       \* transactions begun; the stamp of the latest
          version,     \* the workflow's current version
          tests,       \* workflow_tests rows, in commit order
          runs,        \* workflow_test_runs rows, in commit order
          evaluation,  \* the newest evaluation: its version, and the run it took its
                       \* coverage from
          gate,        \* the newest quality gate run, likewise, and its verdict
          reply,       \* the newest answer to "run tests": own rows and returned rows
          request,     \* what each request is doing, and what its session holds
          overlapped   \* history: two requests were in flight at the same time

vars == << clock, version, tests, runs, evaluation, gate, reply, request, overlapped >>

Operation == {"generate", "replace", "create", "run", "evaluate", "gate"}

Idle == [pc |-> "idle", op |-> "gate", version |-> 0, at |-> 0,
         tests |-> {}, runs |-> {}, rows |-> << >>]

\* A coverage blob is << >> when empty, else one record: the parts of the workflow it
\* counts as executed, and the names whose requirements it counts as tested.
Unmeasured == << >>

Coverage == [executed : SUBSET Name, linked : SUBSET Linked]
-----------------------------------------------------------------------------
(* Operators named Bug... are plausible mistakes, not the code.                *)

LiveTests == {t \in DOMAIN tests : ~ tests[t].deleted}
LiveRuns  == {i \in DOMAIN runs : ~ runs[i].deleted}

\* ORDER BY created_at DESC LIMIT 1 over the rows in S: any of the newest.
Newest(S) == {i \in S : \A j \in S : runs[j].at <= runs[i].at}

BugForgetsPriorRuns(rows) ==
    IF rows[Len(rows)].executed THEN {tests[rows[Len(rows)].test].name} ELSE {}

\* CoverageCalculator over prior_runs and this run: the parts executed so far.
Executed(rows) == {tests[rows[i].test].name : i \in {j \in DOMAIN rows : rows[j].executed}}

BugLinksOfTestsRun(outcome, rows, suite) ==
    IF outcome \in {"SKIPPED", "unavailable"} THEN Unmeasured
    ELSE << [executed |-> Executed(rows),
             linked   |-> Linked \cap {tests[rows[i].test].name : i \in DOMAIN rows}] >>

\* The runner leaves a skipped test and an unavailable engine without coverage, and
\* calculates it for every simulation it was given, one of nothing included.  What it
\* counts as executed is of the runs so far; of the requirements, every test of the
\* suite counts, whether it was run, will be, or is disabled.
CoverageOf(outcome, rows, suite) ==
    IF outcome \in {"SKIPPED", "unavailable"} THEN Unmeasured
    ELSE << [executed |-> Executed(rows),
             linked   |-> Linked \cap {tests[t].name : t \in suite}] >>

\* _pct, without the decimals: nothing to cover is covered in full.
Pct(covered, total) == IF total = 0 THEN 100 ELSE (100 * covered) \div total

\* overall_coverage: nodes, edges and branches, which a test executes together here,
\* and requirements weigh the same.
Overall(coverage) ==
    (3 * Pct(Cardinality(coverage.executed), Cardinality(Name))
        + Pct(Cardinality(coverage.linked), Cardinality(Linked))) \div 4

Row(r, t, outcome) ==
    [test |-> t, version |-> request[r].version, ran |-> request[r].version,
     status |-> IF outcome \in {"unavailable", "unrecorded"} THEN "ERROR" ELSE outcome,
     executed |-> outcome \in {"PASSED", "FAILED", "ERROR"},
     coverage |-> Unmeasured, at |-> request[r].at, deleted |-> FALSE]

BugVersionAtInsert(r, t, outcome) ==
    [Row(r, t, outcome) EXCEPT !.version = version]

\* _persist_run: the version is the one whose graph the suite loaded.
RunRow(r, t, outcome) == Row(r, t, outcome)

\* The names already stored, as far as this request has seen.
BugNoNamesStored(r) == {}
NamesStored(r) == {tests[t].name : t \in request[r].tests}

Done(r) == request' = [request EXCEPT ![r] = Idle]
-----------------------------------------------------------------------------
Stored(batch, by, enabled, at) ==
    LET order == CHOOSE s \in [1..Cardinality(batch) -> batch] :
                     \A i, j \in DOMAIN s : s[i] = s[j] => i = j
    IN  [i \in DOMAIN order |-> [name |-> order[i], by |-> by, enabled |-> enabled,
                                 at |-> at, deleted |-> FALSE]]

\* Some of the critical tests were generated before.
Init == /\ clock = 0
        /\ version = 1
        /\ \E batch \in SUBSET Critical : tests = Stored(batch, "SYSTEM", TRUE, 0)
        /\ runs = << >>
        /\ evaluation = [version |-> 1, run |-> 0]
        /\ gate = [version |-> 1, run |-> 0, status |-> "FAIL"]
        /\ reply = [own |-> {}, shown |-> {}]
        /\ request = [r \in Request |-> Idle]
        /\ overlapped = FALSE

\* A request's transaction begins by loading the workflow and its current version.
Receive(r, op) ==
    /\ request[r].pc = "idle"
    /\ clock < MaxRequests
    /\ clock' = clock + 1
    /\ request' = [request EXCEPT ![r] =
           [Idle EXCEPT !.pc = "list", !.op = op, !.version = version, !.at = clock']]
    /\ UNCHANGED << version, tests, runs, evaluation, gate, reply >>

\* list_tests: the stored tests and, for the cascade of a later delete, their runs.
ListTests(r) ==
    /\ request[r].pc = "list"
    /\ request[r].op \in {"generate", "replace", "run"}
    /\ \E wanted \in SUBSET LiveTests :
           /\ request[r].op # "run" => wanted = LiveTests
           /\ request' = [request EXCEPT
                  ![r].pc = request[r].op, ![r].tests = wanted,
                  ![r].runs = {i \in LiveRuns : runs[i].test \in wanted}]
    /\ UNCHANGED << clock, version, tests, runs, evaluation, gate, reply >>

\* generate_tests: a batch without duplicates, less the names already stored.
PersistGenerated(r) ==
    /\ request[r].pc = "generate"
    /\ \E batch \in SUBSET Name :
           LET fresh == batch \ NamesStored(r)
           IN  /\ Len(tests) + Cardinality(fresh) <= MaxTests
               /\ tests' = tests \o Stored(fresh, "SYSTEM", TRUE, request[r].at)
    /\ Done(r)
    /\ UNCHANGED << clock, version, runs, evaluation, gate, reply >>

\* A row a session has inserted and not committed keeps its test from being deleted.
Locked(r, T) == \E q \in Request \ {r} : \E i \in DOMAIN request[q].rows :
                    request[q].rows[i].test \in T

\* replace_existing: the tests listed go, and the runs listed with them; a run of
\* theirs that was stored since is a foreign key violation, which undoes it all.
Replace(r) ==
    /\ request[r].pc = "replace"
    /\ ~ Locked(r, request[r].tests)
    /\ \/ /\ \E i \in LiveRuns \ request[r].runs : runs[i].test \in request[r].tests
          /\ UNCHANGED << tests, runs >>
       \/ /\ ~ \E i \in LiveRuns \ request[r].runs : runs[i].test \in request[r].tests
          /\ \E batch \in SUBSET Name :
                 /\ Len(tests) + Cardinality(batch) <= MaxTests
                 /\ tests' = [t \in DOMAIN tests |->
                                 [tests[t] EXCEPT !.deleted = @ \/ t \in request[r].tests]]
                             \o Stored(batch, "SYSTEM", TRUE, request[r].at)
          /\ runs' = [i \in DOMAIN runs |->
                         [runs[i] EXCEPT !.deleted = @ \/ i \in request[r].runs]]
    /\ Done(r)
    /\ UNCHANGED << clock, version, evaluation, gate, reply >>

\* create_test: whatever the user wrote, under a name that may be taken.
CreateTest(r) ==
    /\ request[r].pc = "list" /\ request[r].op = "create"
    /\ Len(tests) < MaxTests
    /\ \E n \in Name, enabled \in BOOLEAN :
           tests' = tests \o Stored({n}, "HUMAN", enabled, request[r].at)
    /\ Done(r)
    /\ UNCHANGED << clock, version, runs, evaluation, gate, reply >>

\* The tests still to run, newest first; tests of one transaction in any order.
Todo(r) == request[r].tests \ {request[r].rows[i].test : i \in DOMAIN request[r].rows}

NextTests(r) == {t \in Todo(r) : \A u \in Todo(r) : tests[u].at <= tests[t].at}

\* run_tests, one test: run it and insert its row, which fails when the test is gone
\* or, by deadlock, when a request waiting to delete it is preferred.
RunTest(r, t, outcome) ==
    LET row  == RunRow(r, t, outcome)
        rows == Append(request[r].rows, row)
    IN  /\ request[r].pc = "run"
        /\ t \in NextTests(r)
        /\ tests[t].enabled <=> outcome # "SKIPPED"
        /\ \/ /\ ~ tests[t].deleted
              /\ request' = [request EXCEPT ![r].rows =
                     [rows EXCEPT ![Len(rows)].coverage =
                         CoverageOf(outcome, rows, request[r].tests)]]
           \/ /\ \/ tests[t].deleted
                 \/ \E q \in Request \ {r} :
                        request[q].pc = "replace" /\ t \in request[q].tests
              /\ Done(r)
        /\ UNCHANGED << clock, version, tests, runs, evaluation, gate, reply >>

OwnRuns(r) == (Len(runs) + 1)..(Len(runs) + Len(request[r].rows))

\* run_tests: the engine is released and the suite committed as a whole.
CommitSuite(r) ==
    /\ request[r].pc = "run"
    /\ Todo(r) = {}
    /\ runs' = runs \o request[r].rows
    /\ request' = [request EXCEPT ![r].pc = "reply", ![r].runs = OwnRuns(r)]
    /\ UNCHANGED << clock, version, tests, evaluation, gate, reply >>

BugRepliesOldest(S, n) ==
    {T \in SUBSET S : Cardinality(T) = n /\ \A i \in T, j \in S \ T : runs[i].at <= runs[j].at}

\* ORDER BY created_at DESC LIMIT n, where 0 means 100, beyond what is ever stored here.
ListRuns(S, n) ==
    IF n = 0 \/ n >= Cardinality(S) THEN {S}
    ELSE {T \in SUBSET S :
             Cardinality(T) = n /\ \A i \in T, j \in S \ T : runs[j].at <= runs[i].at}

\* run_tests returns list_runs(limit = the number of tests it ran).
Respond(r) ==
    /\ request[r].pc = "reply"
    /\ \E T \in ListRuns(LiveRuns, Len(request[r].rows)) :
           reply' = [own |-> request[r].runs, shown |-> T]
    /\ Done(r)
    /\ UNCHANGED << clock, version, tests, runs, evaluation, gate >>

BugAnyVersionsRun(r) == LiveRuns

\* _latest_test_coverage considers the runs of the version that is evaluated.
RunsEvaluated(r) == {i \in LiveRuns : runs[i].version = request[r].version}

\* The run a query for the latest coverage takes, 0 when there is none.
LatestOf(S) == IF S = {} THEN {0} ELSE Newest(S)

Evaluate(r) ==
    /\ request[r].pc = "list" /\ request[r].op = "evaluate"
    /\ \E i \in LatestOf(RunsEvaluated(r)) :
           evaluation' = [version |-> request[r].version, run |-> i]
    /\ Done(r)
    /\ UNCHANGED << clock, version, tests, runs, gate, reply >>

BugOldestVerdict(t) ==
    LET own == {i \in LiveRuns : runs[i].test = t}
    IN  {i \in own : \A j \in own : runs[i].at <= runs[j].at}

\* latest_by_test: the newest run of a test, if it has one.
LatestVerdict(t) == Newest({i \in LiveRuns : runs[i].test = t})

\* _critical_test_failures: a test that was never run is not among them.
CriticalFailures ==
    {t \in LiveTests : /\ tests[t].name \in Critical
                       /\ \E i \in LatestVerdict(t) : runs[i].status \in {"FAILED", "ERROR"}}

\* check: the other dimensions of the gate pass or not.
CheckGate(r) ==
    /\ request[r].pc = "list" /\ request[r].op = "gate"
    /\ \E i \in LatestOf(LiveRuns), others \in BOOLEAN :
           LET enough == /\ i # 0 /\ runs[i].coverage # Unmeasured
                         /\ Overall(runs[i].coverage[1]) >= MinCoverage
           IN  gate' = [version |-> request[r].version, run |-> i,
                        status |-> IF enough /\ others /\ CriticalFailures = {}
                                   THEN "PASS" ELSE "FAIL"]
    /\ Done(r)
    /\ UNCHANGED << clock, version, tests, runs, evaluation, reply >>

\* A repair is accepted or the workflow edited: it has a new version.
NewVersion == /\ version < MaxVersions
              /\ version' = version + 1
              /\ UNCHANGED << clock, tests, runs, evaluation, gate, reply, request >>

\* The process dies; what a session did not commit is gone.
Die(r) == /\ request[r].pc # "idle"
          /\ Done(r)
          /\ UNCHANGED << clock, version, tests, runs, evaluation, gate, reply >>

Outcome == {"PASSED", "FAILED", "ERROR", "SKIPPED", "unavailable", "unrecorded"}

Step(r) == \/ ListTests(r) \/ PersistGenerated(r) \/ Replace(r) \/ CreateTest(r)
           \/ \E t \in NextTests(r), outcome \in Outcome : RunTest(r, t, outcome)
           \/ CommitSuite(r) \/ Respond(r) \/ Evaluate(r) \/ CheckGate(r)

Busy == {r \in Request : request[r].pc # "idle"}

Next == /\ \/ \E r \in Request : \/ \E op \in Operation : Receive(r, op)
                                 \/ Step(r)
                                 \/ Die(r)
           \/ NewVersion
        /\ overlapped' = (overlapped \/ Cardinality(Busy') > 1)

Spec == Init /\ [][Next]_vars
-----------------------------------------------------------------------------
\* An evaluation counts coverage measured on no other version than its own, though the
\* workflow gets a new version in the middle of a suite, or of other requests
\* (testing.py 155, 176, 235-239, evaluations.py 199-219).
EvaluationIsOfItsVersion ==
    evaluation.run # 0 => runs[evaluation.run].ran = evaluation.version

\* The tests of the suite of a run are those of all runs with its stamp.
SuiteOf(i) == {runs[j].test : j \in {k \in DOMAIN runs : runs[k].at = runs[i].at}}

ExecutedPartsAddUp ==
    \A i \in DOMAIN runs : runs[i].coverage # Unmeasured =>
        runs[i].coverage[1].executed =
            {tests[runs[j].test].name : j \in {k \in 1..i : /\ runs[k].at = runs[i].at
                                                          /\ runs[k].executed}}

LinkedPartsAddUp ==
    \A i \in DOMAIN runs : runs[i].coverage # Unmeasured =>
        runs[i].coverage[1].linked = Linked \cap {tests[t].name : t \in SuiteOf(i)}

\* However suites interleave, the coverage stored with a run is of its own suite: it
\* counts as executed what the suite had executed by then, all of it and nothing of an
\* engine that was down, and as tested the requirements of all the suite's tests.  The
\* latter is a quarter of the figure and does not ask whether a test was run
\* (runner.py 95-96, coverage.py 16-29).
CoverageAddsUp == ExecutedPartsAddUp /\ LinkedPartsAddUp

\* One request after another, "Generate Tests" never stores the same test twice
\* (testing.py 95-103), whichever corpus each press generates.
GenerationIsIdempotent ==
    ~ overlapped => \A s, t \in LiveTests :
        (tests[s].by = "SYSTEM" /\ tests[t].by = "SYSTEM" /\ tests[s].name = tests[t].name)
            => s = t

\* One request after another, running tests returns the runs it made and no others,
\* though it finds them again by date and number only (testing.py 183).
ReplyIsTheSuite == (~ overlapped /\ reply.own # {}) => reply.shown = reply.own

\* One request after another, the gate does not pass a workflow one of whose
\* high-importance tests failed or errored the last time it was run, however many
\* suites, subsets and replacements came in between (quality.py 116-147).
GateHearsTheLastWord ==
    [][(~ overlapped /\ gate' # gate /\ gate'.status = "PASS") =>
           \A t \in LiveTests : tests[t].name \in Critical =>
               \A i \in LiveRuns :
                   (runs[i].test = t /\ \A j \in LiveRuns : runs[j].test = t => j <= i)
                       => runs[i].status \notin {"FAILED", "ERROR"}]_vars
=============================================================================
