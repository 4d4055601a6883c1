------------------------------ MODULE Assessment ------------------------------
(***************************************************************************)
(* Fuzz campaigns, evaluations and the quality gate over one workflow that is  *)
(* edited meanwhile: fuzzing/engine.py, generator.py and scoring.py under      *)
(* services/fuzzing.py, services/evaluations.py, services/quality.py and the    *)
(* reading of both by services/reports.py.                                    *)
(*                                                                         *)
(* Each request is a session.  Its rows are stamped with the beginning of its  *)
(* transaction, and others see them when it commits; "latest" is the largest   *)
(* stamp, not the last commit.  A campaign takes minutes, so everything else   *)
(* may happen between its first query and its commit.                         *)
(***************************************************************************)
EXTENDS EvaluationRules

CONSTANTS Request,      \* API requests in flight at once
          Workflow,     \* canonical workflows, as EvaluationRules wants them
          Coverage,     \* test coverages that may be on record, in per cent
          AiTarget,     \* bound: ids of nodes that a model makes fail
          MaxCases,     \* max_cases of a campaign
          MaxAiCases,   \* bound: cases a model adds to a campaign
          MaxRequests,  \* bound: campaigns and evaluations ever begun
          MaxCampaigns, \* bound: campaigns among them that are stored or under way
          MaxVersions   \* bound: versions of the workflow

ASSUME AssessmentAssumption ==
    /\ Workflow # {} /\ Coverage \subseteq 0 .. 100
    /\ MaxCases \in Nat \ {0} /\ MaxAiCases \in Nat /\ MaxRequests \in Nat /\ MaxCampaigns \in Nat /\ MaxVersions \in Nat \ {0}
    /\ \A wf \in Workflow :
           /\ IsFiniteSet(wf.nodes) /\ IsFiniteSet(wf.edges)
           /\ \A n \in wf.nodes : IsFiniteSet(n.secrets) /\ IsFiniteSet(n.leaks)
           /\ wf.prompt \in Seq(Range(wf.prompt)) /\ wf.documents \in Seq(Range(wf.documents))
           /\ \A document \in Range(wf.documents) :
                  /\ document.clauses \in Seq(Range(document.clauses))
                  /\ document.constraints \in Seq(Range(document.constraints))

\* Workflows, nodes and edges are records, and a share of the nodes of a workflow or of its
\* calls is a whole number of parts, in two copies of it as well.
ASSUME RecordAssumption ==
    \A wf \in Workflow :
        /\ wf = [field \in DOMAIN wf |-> wf[field]] /\ {"nodes", "edges", "sensitive"} \subseteq DOMAIN wf
        /\ \A n \in wf.nodes :
               /\ n = [field \in DOMAIN n |-> n[field]]
               /\ {"id", "type", "timeout", "retry", "auth", "http", "secrets", "leaks"} \subseteq DOMAIN n
        /\ \A e \in wf.edges :
               /\ e = [field \in DOMAIN e |-> e[field]] /\ {"source", "target", "fails"} \subseteq DOMAIN e

ASSUME ShareAssumption ==
    \A wf \in Workflow : \A S \in {wf.nodes, External(wf), Llm(wf), Dependent(wf)} :
        S # {} => Unit % (2 * Cardinality(S)) = 0

VARIABLES versions,     \* the workflow's versions
          validation,   \* the latest validation: its version and its score
          clock,        \* transactions begun; the stamp of the latest
          campaigns,    \* fuzz_runs rows, in commit order
          evaluations,  \* evaluation_runs rows with their dimension scores, likewise
          gate,         \* the latest quality gate run
          request       \* what each request is doing

vars == << versions, validation, clock, campaigns, evaluations, gate, request >>

None == << >>

Idle == [op |-> "idle"]

Verdicts == {"HANDLED", "UNHANDLED_CRASH", "SILENT_SUCCESS", "HUNG", "NOT_TRIGGERED"}

Current == Len(versions)

\* ORDER BY created_at DESC LIMIT 1: the newest row of those in S, if there is one.
Newest(rows, S) ==
    IF S = {} THEN 0 ELSE CHOOSE i \in S : \A j \in S : rows[j].at <= rows[i].at

StructuralScore == [wf \in Workflow |-> structural_quality_score(wf)]

Validated(version) ==
    [version |-> version, score |-> StructuralScore[versions[version]]]

Init ==
    /\ \E wf \in Workflow : versions = << wf >>
    /\ validation = Validated(1)
    /\ clock = 0
    /\ campaigns = << >> /\ evaluations = << >> /\ gate = None
    /\ request = [r \in Request |-> Idle]

\* The first query of a request, which stamps its transaction; held is what it keeps.
Begin(r, held) ==
    /\ request[r] = Idle /\ clock < MaxRequests
    /\ clock' = clock + 1
    /\ request' = [request EXCEPT ![r] = held]

Edit ==
    /\ Current < MaxVersions
    /\ \E wf \in Workflow : versions' = Append(versions, wf)
    /\ UNCHANGED << validation, clock, campaigns, evaluations, gate, request >>

Validate ==
    /\ validation' = Validated(Current)
    /\ UNCHANGED << versions, clock, campaigns, evaluations, gate, request >>
-----------------------------------------------------------------------------
(* Fuzz campaigns.  A case is the set of nodes whose calls it makes fail.       *)

Injectable(wf) == {n.id : n \in Dependent(wf)}

\* What the strategies of generator.py produce: mutated inputs and adversarial texts, the
\* failure of one node (once, repeatedly, under bad input, or as a requirement asks) and of
\* two at once.  The shuffle and the cap leave any of them; there are always enough, the
\* mutated inputs alone being more than MaxCases.
GeneratedCases(wf) == {{}} \cup {{a, b} : a, b \in Injectable(wf)}

\* A model may aim at any nodes of the workflow; here at one of AiTarget at most.
AiCases(wf) == {{}} \cup {{n} : n \in NodeIds(wf) \cap AiTarget}

\* _build_cases: the generated cases come first, and the cap is twice theirs.
CaseCount(ai) == AtMost(MaxCases + ai, 2 * MaxCases)

\* _classify, as FuzzVerdict has it: without an injected failure a run cannot be silent, and
\* with one it is handled only if the failure fired.  A run of which n8n recorded nothing
\* ends as a crash (execution/engine.py), whatever the workflow is like: it is "lost".
Simulations(case) ==
    {[verdict |-> v, lost |-> FALSE] :
        v \in IF case = {} THEN Verdicts \ {"SILENT_SUCCESS"} ELSE Verdicts}
    \cup {[verdict |-> "UNHANDLED_CRASH", lost |-> TRUE]}

\* A case that injects failures none of which fired is run once more, steered to its target.
BugWorthRetrying(case, first) == case # {}
WorthRetrying(case, first) == first.verdict = "NOT_TRIGGERED" /\ case # {}

\* What a case comes to.  As history it also has what its runs said first.
Result(case, run, heard) == [case |-> case, verdict |-> run.verdict, lost |-> run.lost, heard |-> heard]

\* The second run's result replaces the first's if the failure fired now.
Rerun(case, first) ==
    {Result(case, IF second.verdict = "NOT_TRIGGERED" THEN first ELSE second,
            IF first.verdict = "NOT_TRIGGERED" THEN second.verdict ELSE first.verdict) :
        second \in Simulations(case)}

\* _run_case.  There is no second run when steering changes neither the input nor the mocks.
CaseResults(case) ==
    {Result(case, first, first.verdict) : first \in Simulations(case)}
        \cup UNION {Rerun(case, first) : first \in {run \in Simulations(case) : WorthRetrying(case, run)}}

Count(results, verdict) == Cardinality({i \in DOMAIN results : results[i].verdict = verdict})

Exercised(results) == Len(results) - Count(results, "NOT_TRIGGERED")

\* robustness_score: the share of the exercised cases that were handled.
robustness_score(results) ==
    IF Exercised(results) = 0 THEN 100
    ELSE Round(100 * Count(results, "HANDLED"), Exercised(results))

\* At most this many nodes get a finding of one rule, those with the lowest ids.
MAX_FINDINGS_PER_RULE == 8

BlamedFor(results, verdict) ==
    UNION {results[i].case : i \in {i \in DOMAIN results : results[i].verdict = verdict}}

PerNode(rule, nodes) ==
    {Found(rule, "ERROR", n, 0) :
        n \in IF Cardinality(nodes) <= MAX_FINDINGS_PER_RULE THEN nodes
              ELSE CHOOSE S \in SUBSET nodes : Cardinality(S) = MAX_FINDINGS_PER_RULE}

Once(rule, reasons) == IF reasons = {} THEN {} ELSE {Found(rule, "WARNING", "workflow", 0)}

\* fuzz_findings.
fuzz_findings(results) ==
    PerNode("WG-FUZZ-001", BlamedFor(results, "UNHANDLED_CRASH"))
        \cup Once("WG-FUZZ-004", {x \in Range(results) : x.verdict = "UNHANDLED_CRASH" /\ x.case = {}})
        \cup PerNode("WG-FUZZ-002", BlamedFor(results, "SILENT_SUCCESS"))
        \cup Once("WG-FUZZ-003", {x \in Range(results) : x.verdict = "HUNG"})

\* The report of a campaign, as _persist stores it (but for the counts of the other verdicts).
\* As history: whether a run that n8n did not record decided a case.
Report(q) ==
    [at |-> q.at, version |-> q.version, exercised |-> Exercised(q.results),
     handled |-> Count(q.results, "HANDLED"), robustness |-> robustness_score(q.results),
     findings |-> fuzz_findings(q.results), lost |-> \E i \in DOMAIN q.results : q.results[i].lost]

\* run_campaign: the version is loaded and the corpus built.
BeginCampaign(r) ==
    /\ Len(campaigns) + Cardinality({q \in Request : request[q].op = "fuzz"}) < MaxCampaigns
    /\ \E ai \in 0 .. MaxAiCases :
           Begin(r, [op |-> "fuzz", at |-> clock + 1, version |-> Current,
                     cases |-> CaseCount(ai), results |-> << >>])
    /\ UNCHANGED << versions, validation, campaigns, evaluations, gate >>

\* The cases one after the other, the generated ones first.
RunCase(r) ==
    LET q == request[r]
    IN  /\ q.op = "fuzz" /\ Len(q.results) < q.cases
        /\ \E case \in IF Len(q.results) < MaxCases THEN GeneratedCases(versions[q.version])
                       ELSE AiCases(versions[q.version]) :
              \E result \in CaseResults(case) :
                  request' = [request EXCEPT ![r].results = Append(@, result)]
        /\ UNCHANGED << versions, validation, clock, campaigns, evaluations, gate >>

\* The report, in one commit.
FinishCampaign(r) ==
    LET q == request[r]
    IN  /\ q.op = "fuzz" /\ Len(q.results) = q.cases
        /\ campaigns' = Append(campaigns, Report(q))
        /\ request' = [request EXCEPT ![r] = Idle]
        /\ UNCHANGED << versions, validation, clock, evaluations, gate >>

\* n8n cannot be used, or a model's answer is an error nobody catches: nothing is stored.
Abandon(r) ==
    /\ request[r] # Idle
    /\ request' = [request EXCEPT ![r] = Idle]
    /\ UNCHANGED << versions, validation, clock, campaigns, evaluations, gate >>
-----------------------------------------------------------------------------
(* Evaluations.                                                                 *)

\* report_for_evaluation: the newest committed campaign of the version.
BugCampaignOf(version) == Newest(campaigns, DOMAIN campaigns)
CampaignOf(version) == Newest(campaigns, {i \in DOMAIN campaigns : campaigns[i].version = version})

\* The version is loaded first; then the requirements are extracted, by a model perhaps.
BeginEvaluation(r) ==
    /\ Begin(r, [op |-> "evaluate", at |-> clock + 1, version |-> Current,
                 structural |-> validation.score])
    /\ UNCHANGED << versions, validation, campaigns, evaluations, gate >>

\* The campaign is looked up before the requirements are matched, by a model perhaps.
ReadCampaign(r) ==
    /\ request[r].op = "evaluate"
    /\ request' = [request EXCEPT ![r] =
           [op |-> "score", at |-> @.at, version |-> @.version, structural |-> @.structural,
            campaign |-> CampaignOf(@.version)]]
    /\ UNCHANGED << versions, validation, clock, campaigns, evaluations, gate >>

\* _match_requirements: a model judges only where documents require something, and its
\* verdicts may name any node or none; without them the matcher judges alone.
ModelMatches(wf, spec) ==
    IF spec = None \/ ~ \E item \in Range(spec[1].requirements) : item.source = "document"
    THEN {<< >>}
    ELSE {<< >>} \cup [{item.id : item \in Range(spec[1].requirements)} ->
                           {[status |-> "missing", node |-> NoNode]}
                               \cup {[status |-> "matched", node |-> << n >>] : n \in NodeIds(wf)}]

\* What an evaluation may find in a workflow: without a specification there is nothing to
\* align with.
Alignments ==
    [wf \in Workflow |->
        LET spec == RequirementSpec(wf.prompt, wf.documents)
        IN  IF spec = None THEN {{}}
            ELSE {Alignment(wf, spec[1], supplied) : supplied \in ModelMatches(wf, spec)}]

Static == [wf \in Workflow |-> StaticFindings(wf)]

CriticalCount(findings) == Cardinality({f \in findings : f.severity = "CRITICAL"})

\* The test coverage on record for a version is TestEvidence's; here it is any.
StoreEvaluation(r) ==
    LET q  == request[r]
        wf == versions[q.version]
        campaign == IF q.campaign = 0 THEN None ELSE << campaigns[q.campaign] >>
    IN  /\ q.op = "score"
        /\ \E alignment \in Alignments[wf], coverage \in {None} \cup {<< c >> : c \in Coverage} :
              LET scores == dimension_scores(Static[wf], alignment, q.structural, campaign, coverage)
              IN  evaluations' = Append(evaluations,
                      [at |-> q.at, version |-> q.version, campaign |-> q.campaign,
                       scores |-> scores, overall |-> overall_score(scores),
                       criticals |-> CriticalCount(Static[wf].security)])
        /\ request' = [request EXCEPT ![r] = Idle]
        /\ UNCHANGED << versions, validation, clock, campaigns, gate >>
-----------------------------------------------------------------------------
(* The quality gate.                                                            *)

QualityGateConfig ==
    [structural |-> 90, prompt_alignment |-> 90, security |-> 85, reliability |-> 75,
     maintainability |-> 70, test_coverage |-> 75]

LatestEvaluation == Newest(evaluations, DOMAIN evaluations)

BugPasses(scores, testFailures, criticals) ==
    /\ \A d \in DOMAIN QualityGateConfig : d \in DOMAIN scores /\ scores[d] >= QualityGateConfig[d]
    /\ testFailures = 0

\* QualityGateEngine.evaluate: every dimension measured and at its minimum, no important
\* test failed, no critical security finding.
Passes(scores, testFailures, criticals) ==
    /\ \A d \in DOMAIN QualityGateConfig : d \in DOMAIN scores /\ scores[d] >= QualityGateConfig[d]
    /\ testFailures = 0
    /\ criticals = 0

\* QualityGateService.check: structural score of the latest validation, the other scores of
\* the latest evaluation i but for the coverage, which is that of the latest test run; none of
\* the three is asked which version it was made for.
GateScores(i, coverage) ==
    [d \in {"structural"} \cup (IF coverage = None THEN {} ELSE {"test_coverage"})
              \cup (IF i = 0 THEN {} ELSE DOMAIN evaluations[i].scores \ {"test_coverage"}) |->
        CASE d = "structural" -> validation.score
          [] d = "test_coverage" -> coverage[1]
          [] OTHER -> evaluations[i].scores[d]]

CheckGate ==
    /\ \E coverage \in {None} \cup {<< c >> : c \in Coverage}, testFailures \in {0, 1} :
          LET i == LatestEvaluation
          IN  gate' = << [version |-> Current, evaluation |-> i,
                          passed |-> Passes(GateScores(i, coverage), testFailures,
                                            IF i = 0 THEN 0 ELSE evaluations[i].criticals)] >>
    /\ UNCHANGED << versions, validation, clock, campaigns, evaluations, request >>

Next ==
    \/ Edit \/ Validate \/ CheckGate
    \/ \E r \in Request :
           \/ BeginCampaign(r) \/ RunCase(r) \/ FinishCampaign(r) \/ Abandon(r)
           \/ BeginEvaluation(r) \/ ReadCampaign(r) \/ StoreEvaluation(r)

Spec == Init /\ [][Next]_vars
-----------------------------------------------------------------------------
\* The report of a campaign counts every case once, by the first of its runs that told
\* anything; the cases that a model suggests displace no generated one, and the score is 100
\* exactly if there is no finding to report, as far as rounding can tell: 199 of 200 is 100.
CampaignsAddUp ==
    \A r \in Request : LET q == request[r] IN
        (q.op = "fuzz" /\ Len(q.results) = q.cases) =>
            LET report == Report(q)
                Heard(S) == Cardinality({i \in DOMAIN q.results : q.results[i].heard \in S})
            IN  /\ q.cases >= MaxCases
                /\ report.exercised = Heard(Verdicts \ {"NOT_TRIGGERED"})
                /\ report.handled = Heard({"HANDLED"})
                /\ q.cases < 200 => (report.robustness = 100 <=> report.findings = {})

StaticReliability == [wf \in Workflow |-> DimensionScore(Static[wf].reliability)]

\* The campaign that an evaluation blends measured the version evaluated, and one that
\* exercised nothing moves no score: reliability is what the rules alone make it.
EvidenceIsOfItsVersion ==
    \A i \in DOMAIN evaluations :
        LET e == evaluations[i]
        IN  /\ e.campaign # 0 => campaigns[e.campaign].version = e.version
            /\ (e.campaign = 0 \/ campaigns[e.campaign].exercised = 0) =>
                   e.scores.reliability = StaticReliability[versions[e.version]]

\* A gate run that passes rests on an evaluation, and what was evaluated, the version it is
\* filed under or an earlier one of the workflow, keeps no secret in its configuration
\* however little this costs in a large workflow, and survived some of the failures it was
\* exercised with.  It says nothing of a version edited since (quality.py 26-56).
PassIsEarned ==
    (gate # None /\ gate[1].passed) =>
        /\ gate[1].evaluation # 0
        /\ LET e == evaluations[gate[1].evaluation]
           IN  /\ e.version <= gate[1].version
               /\ \A n \in versions[e.version].nodes : n.secrets \cup n.leaks = {}
               /\ (e.campaign # 0 /\ campaigns[e.campaign].exercised > 0) =>
                      campaigns[e.campaign].handled > 0

PerCall(wf)  == DimensionScore(CallRules(wf))
Security(wf) == DimensionScore(SecurityRules(wf))

IndifferentToSize == {wf \in Workflow : PerCall(Twice(wf)) = PerCall(wf) /\ Security(Twice(wf)) = Security(wf)}

\* Size alone is no defect: two copies of a workflow side by side score as one does, on the
\* calls they make and on security.
SizeIsNoDefect == versions[Current] \in IndifferentToSize

\* The overall score lies between the worst dimension and the best, whether or not a test run
\* was there to measure the coverage.
OverallIsAMean ==
    \A i \in DOMAIN evaluations :
        LET e == evaluations[i]
        IN  /\ \E d \in DOMAIN e.scores : e.scores[d] <= e.overall
            /\ \E d \in DOMAIN e.scores : e.overall <= e.scores[d]
-----------------------------------------------------------------------------
\* _fuzz_summary: the report calls a campaign reflected in the scores if the evaluation is of
\* its version and not stamped before it.
Reflected(c, e) ==
    /\ c # 0 /\ e # 0
    /\ campaigns[c].version = evaluations[e].version
    /\ campaigns[c].at <= evaluations[e].at

\* The report calls the latest campaign reflected only if the latest evaluation took it in.
\* The stamps are of the beginnings: a campaign that began before the evaluation and ended
\* after it is called reflected, too.
ReflectedMeansBlended ==
    LET c == Newest(campaigns, DOMAIN campaigns)
    IN  Reflected(c, LatestEvaluation) => evaluations[LatestEvaluation].campaign = c

\* No case counts against a workflow because of a run that n8n did not record.  The engine
\* makes an error of such a run, and the campaign a crash of the workflow.
EngineIsNotBlamed == \A i \in DOMAIN campaigns : ~ campaigns[i].lost
=============================================================================
