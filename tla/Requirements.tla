----------------------------- MODULE Requirements -----------------------------
(***************************************************************************)
(* What a workflow is required to do, and whether it does: the             *)
(* requirements read from a prompt and from attached documents             *)
(* (evaluation/requirements.py) and how evaluation/alignment.py matches    *)
(* them with the nodes of a workflow.                                      *)
(*                                                                         *)
(* A text is the set of its words; a clause also has the cues that its     *)
(* wording gives ("when": it may make a constraint) and the systems that   *)
(* it names.  Nodes have a rank, their place in the workflow's list.       *)
(* Operators named Bug... are plausible mistakes.                          *)
(***************************************************************************)
EXTENDS StructuralValidation, SequencesExt

\* A finding of an evaluation.  About tells apart findings of one rule; a population of
\* zero is none.
Found(rule, severity, about, population) ==
    [rule |-> rule, severity |-> severity, about |-> about, population |-> population]
-----------------------------------------------------------------------------
(* Requirements of a prompt, which comes as the sequence of its clauses.        *)

\* _classify_clause: only the first clause can be the trigger.
Kind(clause, index) ==
    IF index = 1 /\ "trigger" \in clause.cues THEN "trigger"
    ELSE IF "error" \in clause.cues THEN "error_behavior"
    ELSE IF "output" \in clause.cues THEN "output"
    ELSE IF "approval" \in clause.cues THEN "approval"
    ELSE IF "condition" \in clause.cues THEN "condition"
    ELSE IF clause.systems # {} THEN "integration"
    ELSE "action"

Item(id, kind, words, systems, source) ==
    [id |-> id, kind |-> kind, words |-> words, systems |-> systems, source |-> source]

\* The elements of a list that are in S, in their order.
Kept(list, S) ==
    FoldLeft(LAMBDA kept, x : IF x \in S THEN Append(kept, x) ELSE kept, << >>, list)

\* The clauses that normalisation leaves something of, as requirements.
PromptItems(prompt) ==
    LET items == [i \in DOMAIN prompt |->
                      Item(<< "prompt", i >>, Kind(prompt[i], i), prompt[i].words,
                           prompt[i].systems, "prompt")]
    IN  Kept(items, {item \in Range(items) : item.words # {}})

WholePrompt(prompt) ==
    Item(<< "prompt", 0 >>, "action", UNION {prompt[i].words : i \in DOMAIN prompt},
         UNION {prompt[i].systems : i \in DOMAIN prompt}, "prompt")

Ids(items) == [i \in DOMAIN items |-> items[i].id]

EmptySpec == [requirements |-> << >>, required_order |-> << >>, constraints |-> << >>]

\* DeterministicRequirementExtractor.extract.  The trigger is kept apart; a clause about an
\* approval under a condition also is a constraint that demands the approval.
extract(prompt) ==
    LET items  == PromptItems(prompt)
        others == Kept(items, {item \in Range(items) : item.kind # "trigger"})
        steps  == Kept(items, {item \in Range(items) :
                      item.kind \in {"action", "approval", "integration", "output"}})
        guards == Kept(prompt, {clause \in Range(prompt) :
                      clause.words # {} /\ {"when", "approval"} \subseteq clause.cues})
    IN  [requirements   |-> IF others = << >> /\ prompt # << >> THEN << WholePrompt(prompt) >>
                            ELSE others,
         required_order |-> Ids(steps),
         constraints    |-> [i \in DOMAIN guards |-> "human_approval"]]

\* merge_documents, one clause: it joins unless the same words were required before.  Its
\* place in a document is not a place in the order of execution.
MergeClause(spec, item) ==
    IF item.words = {} \/ \E i \in DOMAIN spec.requirements : spec.requirements[i].words = item.words
    THEN spec
    ELSE [spec EXCEPT !.requirements = Append(@, item)]

DocumentItem(d, i, clause) ==
    Item(<< d, i >>, clause.kind, clause.words, clause.systems, "document")

MergeDocument(spec, document) ==
    [FoldLeft(MergeClause, spec, [i \in DOMAIN document.clauses |->
                                      DocumentItem(document.name, i, document.clauses[i])])
        EXCEPT !.constraints = @ \o document.constraints]

merge_documents(spec, documents) == FoldLeft(MergeDocument, spec, documents)

\* What an evaluation measures against: << >> when neither a prompt nor a clause of a
\* document says anything (services/evaluations.py, _build_requirement_spec).
RequirementSpec(prompt, documents) ==
    IF prompt = << >> /\ \A i \in DOMAIN documents : documents[i].clauses = << >> THEN << >>
    ELSE << merge_documents(IF prompt = << >> THEN EmptySpec ELSE extract(prompt), documents) >>
-----------------------------------------------------------------------------
(* Matching requirements with nodes.                                            *)

\* has_order: a path leads from one node to the other; a node leads to itself.
has_order(wf, source, target) == target \in Reach(wf, {source})

\* _node_overlap reaches a threshold, in per cent; one common word is worth 12 more.
Overlaps(query, words, percent) ==
    /\ query \cap words # {}
    /\ 100 * Cardinality(query \cap words) + 12 * Cardinality(query) >= percent * Cardinality(query)

find_nodes(wf, query, percent) == {n \in wf.nodes : Overlaps(query, n.words, percent)}

\* The match that comes first: of the most common words, then of the lowest rank (the cap
\* on an overlap ties matches of queries of nine words or more only).
FirstFound(query, S) ==
    CHOOSE n \in S : \A m \in S \ {n} :
        LET common(k) == Cardinality(query \cap k.words)
        IN  common(n) > common(m) \/ (common(n) = common(m) /\ n.rank < m.rank)

FirstListed(S) == CHOOSE n \in S : \A m \in S \ {n} : n.rank < m.rank

Conditioned(e) == e.condition.spelling # "absent"

ConditionEnds(wf) ==
    {n \in wf.nodes : \E e \in wf.edges : Conditioned(e) /\ n.id \in {e.source, e.target}}

\* The nodes that answer a requirement by what they are rather than by their words.
TypedCandidates(wf, item) ==
    IF item.systems # {} THEN {n \in wf.nodes : n.mentions \cap item.systems # {}}
    ELSE CASE item.kind = "approval"  -> {n \in wf.nodes : n.type = "human_approval"}
           [] item.kind = "trigger"   -> {n \in wf.nodes : n.type = "trigger"}
           [] item.kind = "condition" -> LET typed == {n \in wf.nodes : n.type \in {"condition", "gateway"}}
                                         IN  IF typed # {} THEN typed ELSE ConditionEnds(wf)
           [] OTHER                   -> {}

Threshold(kind) == CASE kind = "trigger" -> 25 [] kind = "condition" -> 30 [] OTHER -> 34

\* A system that is named and an approval are not looked for by words.
ByWords(wf, item) ==
    IF item.systems # {} \/ item.kind = "approval" THEN {}
    ELSE find_nodes(wf, item.words, Threshold(item.kind))

Match(item, status, node, method) ==
    [item |-> item, status |-> status, node |-> node, method |-> method]

NoNode == << >>

_deterministic_match(wf, item) ==
    IF TypedCandidates(wf, item) # {}
    THEN Match(item, "matched", << FirstListed(TypedCandidates(wf, item)).id >>, "deterministic")
    ELSE IF ByWords(wf, item) # {}
    THEN Match(item, "matched", << FirstFound(item.words, ByWords(wf, item)).id >>, "deterministic")
    ELSE Match(item, "missing", NoNode, "deterministic")

\* A model's verdict on a requirement, where there is one, stands for the matcher's.
Matches(wf, spec, supplied) ==
    {IF item.id \in DOMAIN supplied
     THEN Match(item, supplied[item.id].status, supplied[item.id].node, "ai")
     ELSE _deterministic_match(wf, item) : item \in Range(spec.requirements)}
-----------------------------------------------------------------------------
(* Findings of the alignment (AlignmentAnalyzer.analyze).                       *)

\* A keyword miss in a document is weak evidence.
_missing_findings(spec, matches) ==
    {Found("WG-ALIGN-001",
           IF m.item.source = "document" /\ m.method = "deterministic" THEN "WARNING" ELSE "ERROR",
           m.item.id, Len(spec.requirements)) : m \in {m \in matches : m.status = "missing"}}

\* Consecutive steps of the prompt whose nodes are not connected in that order.
_ordering_findings(wf, spec, matches) ==
    LET located == {m \in matches : m.status = "matched" /\ m.node # NoNode}
        step(i) == {m \in located : m.item.id = spec.required_order[i]}
    IN  {Found("WG-ALIGN-002", "ERROR", i, 0) :
            i \in {i \in 1 .. Len(spec.required_order) - 1 :
                      \E left \in step(i), right \in step(i + 1) :
                          ~ has_order(wf, left.node[1], right.node[1])}}

\* One finding at most for each constraint that demands an approval.
_constraint_findings(wf, spec) ==
    LET approvals  == OfType(wf, "human_approval")
        conditions == OfType(wf, "condition") \cup OfType(wf, "gateway")
        demands    == {i \in DOMAIN spec.constraints : spec.constraints[i] = "human_approval"}
        Each(rule, severity) == {Found(rule, severity, i, 0) : i \in demands}
    IN  IF approvals = {} THEN Each("WG-ALIGN-003", "CRITICAL")
        ELSE IF conditions = {} THEN
            IF \E e \in wf.edges : Conditioned(e) THEN {} ELSE Each("WG-ALIGN-004", "ERROR")
        ELSE IF \E c \in conditions, a \in approvals : has_order(wf, c, a) THEN {}
        ELSE Each("WG-ALIGN-005", "ERROR")

\* Working nodes that no requirement has words in common with.
_extra_behavior_findings(wf, spec) ==
    {Found("WG-ALIGN-006", "INFO", n.id, 0) :
        n \in {n \in wf.nodes :
                  /\ Cardinality(wf.nodes) > 2
                  /\ n.type \notin {"trigger", "end", "condition", "gateway"}
                  /\ \A item \in Range(spec.requirements) : ~ Overlaps(item.words, n.words, 34)}}

Alignment(wf, spec, supplied) ==
    LET matches == Matches(wf, spec, supplied)
    IN  _missing_findings(spec, matches) \cup _ordering_findings(wf, spec, matches)
            \cup _constraint_findings(wf, spec) \cup _extra_behavior_findings(wf, spec)
=============================================================================
