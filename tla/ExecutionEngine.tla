--------------------------- MODULE ExecutionEngine ---------------------------
(***************************************************************************)
(* execution/engine.py N8nExecutionEngine and execution/n8n_client.py, run   *)
(* by several callers at once against one n8n and one mock registry.         *)
(*                                                                         *)
(* An engine serves one canonical workflow, so its webhook path and its run  *)
(* token are the engine itself; the workflow may be simulated in several     *)
(* versions, whose fingerprints differ.  Every HTTP request of the client is  *)
(* one step with the outcomes ok, refused (no effect, raises) and cut (takes  *)
(* effect, the reply is lost, raises); requests with tolerate_failure never   *)
(* raise.  n8n is external: it keeps workflows and executions, and a running  *)
(* execution calls the mock endpoints through the request threads of          *)
(* MockRegistry.                                                             *)
(***************************************************************************)
EXTENDS Naturals, Sequences, FiniteSets

CONSTANTS Engine,      \* engines, each owned by one caller's thread
          Version,     \* versions of the workflow an engine is asked to simulate
          Handler,     \* request threads of the mock server
          Node,        \* integration nodes
          Test,        \* the tests that may be run
          Environment, \* the surroundings an execution may happen in
          MaxAge,      \* _MAX_RUN_AGE_SECONDS, in clock ticks
          MaxSims,     \* bound: simulate() calls per engine
          MaxHits,     \* bound: attempts per run
          MaxTime,     \* bound: clock ticks
          RunLimit     \* clock ticks the client's timeouts allow one run to last

FaultKinds == {"refused", "cut", "cleanup", "slow", "crash"}

ASSUME EngineAssumption ==
    /\ Environment \subseteq [engines : SUBSET Engine, versions : SUBSET Version,
                              faults : SUBSET FaultKinds, unreleased : SUBSET Engine,
                              sweep : BOOLEAN, ticks : Nat]
    /\ Version # {} /\ Test # {}
    /\ MaxSims \in Nat /\ RunLimit \in Nat

VARIABLES registry, runs, handler, now,  \* the mock registry
          engine,     \* what each engine is doing
          published,  \* _published: engine and version -> n8n workflow id, 0 when absent
          results,    \* what every finished simulate() reported
          sims,       \* how often each engine was asked to simulate
          workflows,  \* n8n: every workflow ever created, its id is its index
          executions, \* n8n: every execution ever accepted, in order
          env,        \* the environment, which never changes: the engines and versions
                      \* there are, what can go wrong, which engines' callers may
                      \* never call release(), whether somebody calls sweep(), and how
                      \* many ticks of the clock there are (a bound)
          origin,     \* request thread -> the execution it is serving, 0 for none
          excused     \* history: workflows a lost reply, a failed cleanup, a crash or a
                      \* sweep put beyond their engine's reach

MaxRuns == MaxSims * Cardinality(Engine)

Mocks == INSTANCE MockRegistry WITH Token <- Engine

mockvars == << registry, runs, handler, now >>
n8nvars  == << workflows, executions >>
vars == << registry, runs, handler, now, engine, published, results, sims,
           workflows, executions, env, origin, excused >>

Faults == env.faults

\* n8n and the network do what they are asked, and nobody sweeps.
Calm == Faults = {} /\ ~ env.sweep

OneVersion == \A u, v \in env.versions : u = v

Fresh == [pc |-> "new", version |-> CHOOSE v \in Version : TRUE, test |-> CHOOSE t \in Test : TRUE,
          wf |-> 0, run |-> 0, exec |-> 0, raising |-> FALSE]

\* simulate() is between mocks.open and the mocks.close of its finally.
MocksOpen(e) == \/ engine[e].pc \in {"trigger", "wait", "close"}
                \/ engine[e].pc \in {"unpublish", "delete"} /\ engine[e].raising

Stopped == {"released", "gone", "dead"}
-----------------------------------------------------------------------------
(* n8n, as the client's requests see it.                                      *)

\* Published and unpublished workflows both exist; only a published one is active.
Exists(w) == workflows[w].exists
Active(path) == {w \in DOMAIN workflows :
                    Exists(w) /\ workflows[w].active /\ workflows[w].path = path}

Created(path, v) == Append(workflows, [path |-> path, version |-> v,
                                       exists |-> TRUE, active |-> FALSE])
SetActive(w, b) == [workflows EXCEPT ![w].active = b]
Removed(w) == [workflows EXCEPT ![w].exists = FALSE, ![w].active = FALSE]

\* A webhook answers on receipt: the execution record appears only later.
Accepted(path, r) ==
    IF Active(path) = {} THEN executions
    ELSE Append(executions, [wf |-> CHOOSE w \in Active(path) : TRUE, run |-> r,
                             state |-> "accepted"])

\* GET /executions?workflowId=w&limit=1: the newest record there is.
Records(w) == {x \in DOMAIN executions :
                  executions[x].wf = w /\ executions[x].state \in {"running", "finished"}}
LatestExecution(w) == IF Records(w) = {} THEN 0
                      ELSE CHOOSE x \in Records(w) : \A y \in Records(w) : y <= x
Pending(w) == {x \in DOMAIN executions :
                  executions[x].wf = w /\ executions[x].state \in {"accepted", "running"}}
-----------------------------------------------------------------------------
\* _run_token: the engine's session makes the path its own.
Path(e) == e

Goto(e, pc) == engine' = [engine EXCEPT ![e].pc = pc]

\* simulate() raised N8nError; WorkflowTestRunner records an ERROR run.
Raise(e) == /\ engine' = [engine EXCEPT ![e].pc = "idle", ![e].raising = FALSE]
            /\ results' = Append(results, [engine |-> e, run |-> engine[e].run, exec |-> 0,
                                           kind |-> "unavailable"])

\* What the except clause of simulate() does first: _drop pops the cached entry.
BugKeepsEntry(e) == published

Popped(e) == [published EXCEPT ![e] = [@ EXCEPT ![engine[e].version] = 0]]

FailRun(e) == /\ engine' = [engine EXCEPT ![e].pc = "unpublish", ![e].raising = TRUE]
              /\ published' = Popped(e)

Init == /\ Mocks!Init
        /\ engine = [e \in Engine |-> Fresh]
        /\ published = [e \in Engine |-> [v \in Version |-> 0]]
        /\ results = << >>
        /\ sims = [e \in Engine |-> 0]
        /\ workflows = << >>
        /\ executions = << >>
        /\ env \in Environment
        /\ origin = [h \in Handler |-> 0]
        /\ excused = {}

\* build_engine(): a new engine with an empty cache.
Build(e) == /\ engine[e].pc = "new"
            /\ e \in env.engines
            /\ Goto(e, "idle")
            /\ UNCHANGED << mockvars, n8nvars, published, results, sims, origin, excused >>

BugNeverReuses(e, v, test) ==
    /\ engine[e].pc = "idle"
    /\ sims[e] < MaxSims
    /\ sims' = [sims EXCEPT ![e] = @ + 1]
    /\ engine' = [engine EXCEPT ![e] = [Fresh EXCEPT !.pc = "create", !.version = v, !.test = test]]
    /\ UNCHANGED << mockvars, n8nvars, published, results, origin, excused >>

\* simulate(): _publish reuses the entry of the same fingerprint or creates one.
Simulate(e, v, test) ==
    /\ engine[e].pc = "idle"
    /\ sims[e] < MaxSims
    /\ sims' = [sims EXCEPT ![e] = @ + 1]
    /\ engine' = [engine EXCEPT ![e] =
           [Fresh EXCEPT !.pc = IF published[e][v] # 0 THEN "open" ELSE "create",
                         !.version = v, !.test = test, !.wf = published[e][v]]]
    /\ UNCHANGED << mockvars, n8nvars, published, results, origin, excused >>

CreateWorkflow(e) ==
    /\ engine[e].pc = "create"
    /\ workflows' = Created(Path(e), engine[e].version)
    /\ engine' = [engine EXCEPT ![e].pc = "publish", ![e].wf = Len(workflows')]
    /\ UNCHANGED << mockvars, executions, published, results, sims, origin, excused >>

CreateFails(e) ==
    /\ engine[e].pc = "create"
    /\ \/ "refused" \in Faults /\ UNCHANGED << workflows, excused >>
       \/ /\ "cut" \in Faults
          /\ workflows' = Created(Path(e), engine[e].version)
          /\ excused' = excused \cup {Len(workflows')}
    /\ Raise(e)
    /\ UNCHANGED << mockvars, executions, published, sims, origin >>

\* n8n publishes a workflow it still has, unless another active one claims the path.
Publishable(w) == Exists(w) /\ Active(workflows[w].path) = {}

Publish(e) ==
    /\ engine[e].pc = "publish"
    /\ Publishable(engine[e].wf)
    /\ workflows' = SetActive(engine[e].wf, TRUE)
    /\ published' = [published EXCEPT ![e] = [@ EXCEPT ![engine[e].version] = engine[e].wf]]
    /\ Goto(e, "open")
    /\ UNCHANGED << mockvars, executions, results, sims, origin, excused >>

BugNoDiscard(e) ==
    /\ engine[e].pc = "publish"
    /\ \/ /\ ~ Publishable(engine[e].wf) \/ "refused" \in Faults
          /\ UNCHANGED workflows
       \/ /\ Publishable(engine[e].wf) /\ "cut" \in Faults
          /\ workflows' = SetActive(engine[e].wf, TRUE)
    /\ Raise(e)
    /\ UNCHANGED << mockvars, executions, published, sims, origin, excused >>

\* A 409 for a claimed path, a 404 for a workflow that was swept, or a network fault.
PublishFails(e) ==
    /\ engine[e].pc = "publish"
    /\ \/ /\ ~ Publishable(engine[e].wf) \/ "refused" \in Faults
          /\ UNCHANGED workflows
       \/ /\ Publishable(engine[e].wf) /\ "cut" \in Faults
          /\ workflows' = SetActive(engine[e].wf, TRUE)
    /\ Goto(e, "discard")
    /\ UNCHANGED << mockvars, executions, published, results, sims, origin, excused >>

\* delete_workflow tolerates failure: whatever goes wrong, nobody hears of it.
TolerantDelete(e) ==
    \/ workflows' = Removed(engine[e].wf) /\ UNCHANGED excused
    \/ /\ "cleanup" \in Faults
       /\ UNCHANGED workflows
       /\ excused' = excused \cup {engine[e].wf}

\* The except clause of _publish deletes what it could not publish.
Discard(e) ==
    /\ engine[e].pc = "discard"
    /\ TolerantDelete(e)
    /\ Raise(e)
    /\ UNCHANGED << mockvars, executions, published, sims, origin >>

OpenMocks(e) ==
    /\ engine[e].pc = "open"
    /\ Mocks!Open(Path(e), engine[e].test)
    /\ engine' = [engine EXCEPT ![e].pc = "trigger", ![e].run = Len(runs')]
    /\ UNCHANGED << n8nvars, published, results, sims, origin, excused >>

\* trigger: any answer will do, a 404 from an unclaimed path included.
Trigger(e) ==
    /\ engine[e].pc = "trigger"
    /\ executions' = Accepted(Path(e), engine[e].run)
    /\ Goto(e, "wait")
    /\ UNCHANGED << mockvars, workflows, published, results, sims, origin, excused >>

TriggerFails(e) ==
    /\ engine[e].pc = "trigger"
    /\ \/ "refused" \in Faults /\ UNCHANGED executions
       \/ "cut" \in Faults /\ executions' = Accepted(Path(e), engine[e].run)
    /\ FailRun(e)
    /\ UNCHANGED << mockvars, workflows, results, sims, origin, excused >>

BugPollsWithoutDeadline(e) ==
    LET x == LatestExecution(engine[e].wf)
    IN  /\ engine[e].pc = "wait"
        /\ x # 0 /\ executions[x].state = "finished"
        /\ engine' = [engine EXCEPT ![e].pc = "close", ![e].exec = x]
        /\ UNCHANGED << mockvars, n8nvars, published, results, sims, origin, excused >>

BugTakesRunningRecord(e) ==
    LET x == LatestExecution(engine[e].wf)
    IN  /\ engine[e].pc = "wait"
        /\ x # 0
        /\ engine' = [engine EXCEPT ![e].pc = "close", ![e].exec = x]
        /\ UNCHANGED << mockvars, n8nvars, published, results, sims, origin, excused >>

\* wait_for_execution: the newest record is finished, or the deadline has passed.
Poll(e) ==
    LET x == LatestExecution(engine[e].wf)
    IN  /\ engine[e].pc = "wait"
        /\ \/ x # 0 /\ executions[x].state = "finished"
           \/ "slow" \in Faults
           \/ Pending(engine[e].wf) = {}
        /\ engine' = [engine EXCEPT ![e].pc = "close", ![e].exec = x]
        /\ UNCHANGED << mockvars, n8nvars, published, results, sims, origin, excused >>

PollFails(e) ==
    /\ engine[e].pc = "wait"
    /\ Faults \cap {"refused", "cut"} # {}
    /\ FailRun(e)
    /\ UNCHANGED << mockvars, n8nvars, results, sims, origin, excused >>

\* The finally of simulate(), on the way out with an error, without an execution
\* (an ERROR result) or with one to map.
CloseMocks(e) ==
    /\ engine[e].pc = "close"
    /\ Mocks!Close(Path(e))
    /\ CASE engine[e].raising -> Raise(e)
         [] ~ engine[e].raising /\ engine[e].exec = 0 ->
                /\ Goto(e, "idle")
                /\ results' = Append(results, [engine |-> e, run |-> engine[e].run, exec |-> 0,
                                               kind |-> "unmeasured"])
         [] OTHER -> Goto(e, "map") /\ UNCHANGED results
    /\ UNCHANGED << n8nvars, published, sims, origin, excused >>

BugKeepsExecution(e) ==
    /\ engine[e].pc = "map"
    /\ results' = Append(results, [engine |-> e, run |-> engine[e].run,
                                   exec |-> engine[e].exec, kind |-> "measured"])
    /\ Goto(e, "idle")
    /\ UNCHANGED << mockvars, n8nvars, published, sims, origin, excused >>

\* map_execution over the execution found and the log of the run that was opened,
\* then delete_execution, which nobody checks; n8n may refuse to delete an execution
\* that is still running.
MapAndDelete(e) ==
    /\ engine[e].pc = "map"
    /\ results' = Append(results, [engine |-> e, run |-> engine[e].run,
                                   exec |-> engine[e].exec, kind |-> "measured"])
    /\ \/ executions' = [executions EXCEPT ![engine[e].exec].state = "deleted"]
       \/ /\ "cleanup" \in Faults \/ executions[engine[e].exec].state # "finished"
          /\ UNCHANGED executions
    /\ Goto(e, "idle")
    /\ UNCHANGED << mockvars, workflows, published, sims, origin, excused >>

\* _drop, second and third step: unpublish and delete, both tolerant.
Unpublish(e) ==
    /\ engine[e].pc = "unpublish"
    /\ \/ workflows' = SetActive(engine[e].wf, FALSE)
       \/ "cleanup" \in Faults /\ UNCHANGED workflows
    /\ Goto(e, "delete")
    /\ UNCHANGED << mockvars, executions, published, results, sims, origin, excused >>

DeleteWorkflow(e) ==
    /\ engine[e].pc = "delete"
    /\ TolerantDelete(e)
    /\ Goto(e, IF engine[e].raising THEN "close" ELSE "release")
    /\ UNCHANGED << mockvars, executions, published, results, sims, origin >>

\* The caller is done: release() from its finally, or nothing if it has none.
Finish(e) == /\ engine[e].pc = "idle"
             /\ Goto(e, "release") \/ (e \in env.unreleased /\ Goto(e, "gone"))
             /\ UNCHANGED << mockvars, n8nvars, published, results, sims, origin, excused >>

\* release(): _drop every cached fingerprint in turn.
Release(e) ==
    /\ engine[e].pc = "release"
    /\ LET cached == {v \in Version : published[e][v] # 0}
       IN  \/ /\ cached = {}
              /\ Goto(e, "released")
              /\ UNCHANGED published
           \/ \E v \in cached :
                 /\ engine' = [engine EXCEPT ![e].pc = "unpublish", ![e].version = v,
                                             ![e].wf = published[e][v]]
                 /\ published' = [published EXCEPT ![e] = [@ EXCEPT ![v] = 0]]
    /\ UNCHANGED << mockvars, n8nvars, results, sims, origin, excused >>

\* sweep(): every workflow of n8n with the engines' prefix, whoever published it.
Sweep(e) ==
    LET listed == {w \in DOMAIN workflows : Exists(w)}
    IN  /\ env.sweep
        /\ engine[e].pc = "idle"
        /\ \E S \in SUBSET listed :
               /\ S = listed \/ "cleanup" \in Faults
               /\ workflows' = [w \in DOMAIN workflows |->
                      IF w \in S THEN [workflows[w] EXCEPT !.exists = FALSE, !.active = FALSE]
                      ELSE workflows[w]]
               /\ excused' = excused \cup S
        /\ UNCHANGED << mockvars, executions, engine, published, results, sims, origin >>
-----------------------------------------------------------------------------
\* n8n: an accepted execution becomes a visible, running one.
Start(x) == /\ executions[x].state = "accepted"
            /\ executions' = [executions EXCEPT ![x].state = "running"]
            /\ UNCHANGED << mockvars, workflows, engine, published, results, sims, origin, excused >>

\* n8n: a running execution reaches an integration node, whose URL is the mock
\* endpoint of its path.
CallMock(x, h, n) ==
    LET path == workflows[executions[x].wf].path
    IN  /\ executions[x].state = "running"
        /\ Mocks!CountAttempt(h, path, n) \/ Mocks!RefuseUnknownRun(h, path)
        /\ origin' = [origin EXCEPT ![h] = x]
        /\ UNCHANGED << n8nvars, engine, published, results, sims, excused >>

LogCall(h) == /\ Mocks!LogCall(h)
              /\ UNCHANGED << n8nvars, engine, published, results, sims, origin, excused >>

Answer(h) == /\ Mocks!Answer(h)
             /\ origin' = [origin EXCEPT ![h] = 0]
             /\ UNCHANGED << n8nvars, engine, published, results, sims, excused >>

\* n8n: an execution ends, with its requests answered unless n8n gave up on them.
End(x) == /\ executions[x].state = "running"
          /\ "slow" \in Faults \/ \A h \in Handler : origin[h] # x
          /\ executions' = [executions EXCEPT ![x].state = "finished"]
          /\ UNCHANGED << mockvars, workflows, engine, published, results, sims, origin, excused >>

\* Time, within what the client's timeouts leave a run.
Tick == /\ \A e \in Engine : MocksOpen(e) => now < runs[engine[e].run].opened_at + RunLimit
        /\ now < env.ticks
        /\ Mocks!Tick
        /\ UNCHANGED << n8nvars, engine, published, results, sims, origin, excused >>

\* The API process dies: its engines, registry and request threads go with it.
Crash == /\ "crash" \in Faults
         /\ \E e \in Engine : engine[e].pc \notin Stopped \cup {"new"}
         /\ engine' = [e \in Engine |->
                IF engine[e].pc \in Stopped \cup {"new"} THEN engine[e]
                ELSE [Fresh EXCEPT !.pc = "dead"]]
         /\ published' = [e \in Engine |-> [v \in Version |-> 0]]
         /\ registry' = [e \in Engine |-> 0]
         /\ handler' = [h \in Handler |-> Mocks!Idle]
         /\ origin' = [h \in Handler |-> 0]
         /\ excused' = excused \cup {w \in DOMAIN workflows : Exists(w)}
         /\ UNCHANGED << runs, now, n8nvars, results, sims >>

\* The requests that fail for no reason of the engine's.
NetworkFault(e) == CreateFails(e) \/ TriggerFails(e) \/ PollFails(e)

Progress(e) ==
    \/ CreateWorkflow(e) \/ Publish(e) \/ PublishFails(e) \/ Discard(e) \/ OpenMocks(e)
    \/ Trigger(e) \/ Poll(e) \/ CloseMocks(e) \/ MapAndDelete(e) \/ Unpublish(e)
    \/ DeleteWorkflow(e) \/ Release(e)

Caller(e) == \/ Build(e) \/ Finish(e) \/ Sweep(e)
             \/ \E v \in env.versions, test \in Test : Simulate(e, v, test)

N8n == \E x \in DOMAIN executions :
           \/ Start(x) \/ End(x)
           \/ \E h \in Handler, n \in Node : CallMock(x, h, n)

Next == /\ UNCHANGED env
        /\ \/ \E e \in Engine : Progress(e) \/ NetworkFault(e) \/ Caller(e)
           \/ N8n
           \/ \E h \in Handler : LogCall(h) \/ Answer(h)
           \/ Tick
           \/ Crash

\* Every request of the client has a timeout and the wait a deadline, so an engine
\* in the middle of simulate() or release() takes its next step, with no help from
\* n8n and without waiting for a fault to end the call.
Fairness == \A e \in Engine : WF_vars(Progress(e) /\ UNCHANGED env)

Spec == Init /\ [][Next]_vars /\ Fairness
-----------------------------------------------------------------------------
\* An entry of an engine's cache is a workflow of that engine and version which n8n
\* still has and still serves, unless somebody swept it away: engine.py 162-165
\* reuses it without asking.
CacheHandsOutPublished ==
    \A e \in Engine, v \in Version :
        (published[e][v] # 0 /\ engine[e].pc \notin Stopped) =>
            LET w == workflows[published[e][v]]
            IN  /\ w.path = Path(e) /\ w.version = v
                /\ published[e][v] \notin excused => w.exists /\ w.active

\* What is reported as measured comes from the execution this very simulate() call
\* triggered, not from an earlier one of the same workflow.
MeasuresOwnRun ==
    \A i \in DOMAIN results :
        results[i].kind = "measured" => executions[results[i].exec].run = results[i].run

\* With an n8n that does what it is asked, every simulate() call of an engine for one
\* version measures, since two engines never claim one webhook path; and what is measured,
\* of one version or of several that compete for the path, is the call's own execution.
HealthyRunsAreMeasured ==
    Calm => /\ OneVersion => \A i \in DOMAIN results : results[i].kind = "measured"
            /\ MeasuresOwnRun

\* A mock endpoint counts a call only for the run whose trigger started the execution
\* that makes it, so no run reads, or uses up, what another was given; as long as no
\* execution outlasts the deadline of its run and no workflow is swept from under it.
CallsStayInTheirRun ==
    Calm => \A h \in Handler : handler[h].pc = "responding" =>
        executions[origin[h]].run = handler[h].run

\* Every workflow n8n holds is cached by its engine or about to be published or
\* deleted by it, unless a lost reply, a failed cleanup or a crash is to blame.
OrphansAreExcused ==
    \A w \in DOMAIN workflows : Exists(w) =>
        LET e == workflows[w].path
        IN  \/ w \in excused
            \/ published[e][workflows[w].version] = w
            \/ engine[e].wf = w /\ engine[e].pc \in {"publish", "discard", "unpublish", "delete"}

\* A simulate() or release() that began ends, whatever n8n does or fails to do, where
\* deadlines may pass.
SimulationEnds ==
    \A e \in Engine :
        ("slow" \in Faults /\ engine[e].pc \notin Stopped \cup {"new", "idle"})
            ~> engine[e].pc \in Stopped \cup {"idle"}
=============================================================================
