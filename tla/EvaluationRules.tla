---------------------------- MODULE EvaluationRules ----------------------------
(***************************************************************************)
(* The static rules about a workflow's reliability, security and              *)
(* maintainability, and how evaluation/scoring.py turns findings into scores.  *)
(*                                                                         *)
(* Scores are computed with exact fractions where the code uses floats; the    *)
(* code's rounding, half to even, is kept.  Operators named Bug... are           *)
(* plausible mistakes, not the code.                                          *)
(***************************************************************************)
EXTENDS Requirements

CONSTANT Unit   \* penalties are counted in parts of 1/Unit, which populations divide

ASSUME UnitAssumption == Unit \in Nat \ {0}

External(wf) == {n \in wf.nodes : n.type = "external_api"}
Llm(wf)      == {n \in wf.nodes : n.type = "llm"}
Dependent(wf) == External(wf) \cup Llm(wf) \cup {n \in wf.nodes : n.type = "database"}

\* A rule about a field of external calls: a finding for each call that lacks it where
\* others have it, and one advice where none has it, for the format may not know the field.
FieldRule(wf, rule, declaring) ==
    LET calls == External(wf)
    IN  IF calls = {} THEN {}
        ELSE IF declaring # {}
        THEN {Found(rule, "WARNING", n.id, Cardinality(calls)) : n \in calls \ declaring}
        ELSE {Found(rule, "INFO", "workflow", 0)}

\* _has_failure_handling: an edge about a failure leaves the node or enters it.
FailureHandled(wf, n) == \E e \in wf.edges : e.fails /\ n.id \in {e.source, e.target}

\* The rules of reliability.py about single nodes.
CallRules(wf) ==
    FieldRule(wf, "WG-REL-001", {n \in External(wf) : n.timeout})
        \cup FieldRule(wf, "WG-REL-002", {n \in External(wf) : n.retry})
        \cup {Found("WG-REL-003", "WARNING", n.id, Cardinality(Llm(wf))) :
                 n \in {n \in Llm(wf) : ~ FailureHandled(wf, n)}}
        \cup {Found("WG-REL-004", "INFO", n.id, Cardinality(Dependent(wf))) :
                 n \in {n \in Dependent(wf) :
                           Cardinality({e.target : e \in {e \in wf.edges : e.source = n.id}}) = 1}}

\* A cycle within which no edge has a condition.
LoopRule(wf) ==
    {Found("WG-REL-005", "WARNING", cycle, 0) :
        cycle \in {cycle \in SimpleCycles(wf) :
            \A e \in wf.edges : {e.source, e.target} \subseteq DOMAIN cycle => ~ Conditioned(e)}}

\* A critical finding for each of the keys of each node.
KeyRule(wf, rule, keys) ==
    UNION {{Found(rule, "CRITICAL", << n.id, key >>, Cardinality(wf.nodes)) : key \in keys[n]} :
              n \in wf.nodes}

\* security.py: secrets by the names of their keys (each key a finding) or by their looks,
\* plain HTTP, calls without authentication, sensitive data near a model.
SecurityRules(wf) ==
    KeyRule(wf, "WG-SEC-001", [n \in wf.nodes |-> n.secrets])
        \cup KeyRule(wf, "WG-SEC-002", [n \in wf.nodes |-> n.leaks \ n.secrets])
        \cup {Found("WG-SEC-003", "ERROR", n.id, Cardinality(wf.nodes)) : n \in {n \in wf.nodes : n.http}}
        \cup FieldRule(wf, "WG-SEC-004", {n \in External(wf) : n.auth})
        \cup {Found("WG-SEC-005", "WARNING", n.id, Cardinality(Llm(wf))) :
                 n \in {n \in Llm(wf) : wf.sensitive}}

\* maintainability.py: each rule speaks once, of the whole workflow.
MaintainabilityRules(wf) ==
    {Found("WG-MAINT-001", "WARNING", "workflow", 0) : n \in {n \in wf.nodes : n.opaque}}
        \cup IF Cardinality(wf.nodes) > 20 /\ Cardinality(OfType(wf, "condition")) > 6
             THEN {Found("WG-MAINT-002", "INFO", "workflow", 0)} ELSE {}
-----------------------------------------------------------------------------
(* Scores.                                                                      *)

RawPenalty(severity) ==
    CASE severity = "CRITICAL" -> 35 [] severity = "ERROR" -> 18
      [] severity = "WARNING" -> 7   [] severity = "INFO" -> 2

DEFAULT_RULE_BUDGET == 25

\* The most that one rule may take from its dimension.
RULE_BUDGETS(rule) ==
    CASE rule \in {"WG-SEC-001", "WG-SEC-002"} -> 60
      [] rule = "WG-ALIGN-001" -> 45
      [] rule = "WG-SEC-003" -> 35
      [] rule \in {"WG-FUZZ-001", "WG-FUZZ-002"} -> 30
      [] rule \in {"WG-REL-005", "WG-SEC-004", "WG-MAINT-001"} -> 25
      [] rule \in {"WG-ALIGN-002", "WG-ALIGN-003", "WG-ALIGN-004", "WG-REL-001", "WG-REL-002",
                   "WG-SEC-005", "WG-FUZZ-003", "WG-FUZZ-004"} -> 20
      [] rule \in {"WG-ALIGN-005", "WG-ALIGN-006", "WG-REL-003", "WG-MAINT-002"} -> 15
      [] rule \in {"WG-REL-004", "WG-FUZZ-005"} -> 10
      [] OTHER -> DEFAULT_RULE_BUDGET

AtMost(x, bound) == IF x > bound THEN bound ELSE x
AtLeast(x, bound) == IF x < bound THEN bound ELSE x

BugContribution(rule, findings) ==
    Unit * AtMost(MapThenSumSet(LAMBDA f : RawPenalty(f.severity), findings), RULE_BUDGETS(rule))

\* What one rule takes: its budget times the share of its population that failed, or the
\* plain sum where there is no population; never more than its budget.
Contribution(rule, findings) ==
    LET budget     == RULE_BUDGETS(rule)
        population == (CHOOSE f \in findings : \A g \in findings : g.population <= f.population).population
    IN  IF population > 0 THEN AtMost((Unit \div population) * budget * Cardinality(findings), Unit * budget)
        ELSE Unit * AtMost(MapThenSumSet(LAMBDA f : RawPenalty(f.severity), findings), budget)

\* _dimension_penalty.
DimensionPenalty(findings) ==
    Round(MapThenSumSet(LAMBDA rule : Contribution(rule, {f \in findings : f.rule = rule}),
                        {f.rule : f \in findings}), Unit)

DimensionScore(findings) == AtLeast(AtMost(100 - DimensionPenalty(findings), 100), 0)

\* A campaign that exercised nothing is no evidence.
HasFuzzEvidence(campaign) == campaign # << >> /\ campaign[1].exercised > 0

\* _blend_reliability: 60 % of the score by findings, 40 % of the measured survival.
BlendReliability(score, campaign) == Round(3 * score + 2 * campaign[1].robustness, 5)

\* The static findings of a workflow, by dimension.
StaticFindings(wf) ==
    [reliability |-> CallRules(wf) \cup LoopRule(wf), security |-> SecurityRules(wf),
     maintainability |-> MaintainabilityRules(wf)]

\* The dimensions that every evaluation scores.
Dimensions == {"structural", "prompt_alignment", "reliability", "security", "maintainability"}

\* dimension_scores.  A campaign and a coverage are << >> when there is none.
dimension_scores(static, alignment, structural, campaign, coverage) ==
    LET reliability == DimensionScore(static.reliability
                           \cup IF campaign = << >> THEN {} ELSE campaign[1].findings)
    IN  [d \in Dimensions \cup IF coverage = << >> THEN {} ELSE {"test_coverage"} |->
            CASE d = "structural"       -> structural
              [] d = "prompt_alignment" -> DimensionScore(alignment)
              [] d = "reliability"      -> IF HasFuzzEvidence(campaign)
                                           THEN BlendReliability(reliability, campaign) ELSE reliability
              [] d = "security"         -> DimensionScore(static.security)
              [] d = "maintainability"  -> DimensionScore(static.maintainability)
              [] d = "test_coverage"    -> AtMost(AtLeast(coverage[1], 0), 100)]

DIMENSION_WEIGHTS ==
    [structural |-> 20, prompt_alignment |-> 25, reliability |-> 15, security |-> 15,
     maintainability |-> 10, test_coverage |-> 15]

BugOverallScore(scores) ==
    Round(MapThenSumSet(LAMBDA d : scores[d] * DIMENSION_WEIGHTS[d], DOMAIN scores), 100)

\* overall_score: the weighted mean of the dimensions that have a score.
overall_score(scores) ==
    Round(MapThenSumSet(LAMBDA d : scores[d] * DIMENSION_WEIGHTS[d], DOMAIN scores),
          MapThenSumSet(LAMBDA d : DIMENSION_WEIGHTS[d], DOMAIN scores))
-----------------------------------------------------------------------------
\* Two copies of a workflow side by side.
Twice(wf) ==
    LET Copy(i) == [nodes |-> {[n EXCEPT !.id = << i, @ >>] : n \in wf.nodes},
                    edges |-> {[e EXCEPT !.source = << i, @ >>, !.target = << i, @ >>] : e \in wf.edges}]
    IN  [wf EXCEPT !.nodes = Copy(1).nodes \cup Copy(2).nodes,
                   !.edges = Copy(1).edges \cup Copy(2).edges]
=============================================================================
