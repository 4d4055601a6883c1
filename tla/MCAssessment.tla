----------------------------- MODULE MCAssessment -----------------------------
(* A bounded instance of Assessment: a workflow that calls out and declares what it    *)
(* should, one that keeps a secret and asks for an approval, and one around a model.   *)
EXTENDS Assessment

Absent == [spelling |-> "absent", parts |-> << >>]
Paid   == [spelling |-> "symbols", parts |-> << >>]

Node(id, type, rank, words) ==
    [id |-> id, type |-> type, rank |-> rank, words |-> words, mentions |-> {}, configured |-> TRUE,
     timeout |-> TRUE, retry |-> TRUE, auth |-> TRUE, http |-> FALSE, opaque |-> FALSE,
     secrets |-> {}, leaks |-> {}]

Edge(from, to, condition, fails) ==
    [source |-> from, target |-> to, condition |-> condition, fails |-> fails]

Clause(words, cues, systems) == [words |-> words, cues |-> cues, systems |-> systems]
DocClause(words, kind) == [words |-> words, kind |-> kind, systems |-> {}]

Start == Node("t", "trigger", 1, {"mail"})

\* A call with a fallback, as its prompt wants it.
Calls ==
    [nodes |-> {Start, [Node("a", "external_api", 2, {"send", "invoice"}) EXCEPT !.mentions = {"sap"}],
                Node("b", "end", 3, {"done"})},
     edges |-> {Edge("t", "a", Absent, FALSE), Edge("a", "b", Absent, FALSE), Edge("a", "t", Paid, TRUE)},
     sensitive |-> FALSE,
     prompt |-> << Clause({"mail"}, {"trigger"}, {}), Clause({"send", "invoice"}, {"output"}, {"sap"}) >>,
     documents |-> << >>]

\* A secret among the settings of a node, and no approval where the prompt wants one.
Leaky ==
    [Calls EXCEPT
        !.nodes = {Start, [Node("a", "database", 2, {"save"}) EXCEPT !.secrets = {"key"}]}
                      \cup {Node(id, "end", 3, {"done"}) : id \in {"b", "c", "d"}},
        !.edges = {Edge("t", "a", Absent, FALSE), Edge("a", "b", Paid, FALSE), Edge("a", "c", Absent, TRUE),
                   Edge("a", "d", Absent, FALSE)},
        !.prompt = << >>,
        !.documents = << [name |-> "brd", clauses |-> << DocClause({"save"}, "action"), DocClause({"save"}, "output") >>,
                          constraints |-> << "audit" >>] >>]

\* A model without a fallback in a loop, with a call that declares nothing.
Model ==
    [Calls EXCEPT
        !.nodes = {Start, [Node("a", "external_api", 2, {"call"}) EXCEPT !.timeout = FALSE, !.auth = FALSE],
                   [Node("b", "llm", 3, {"draft"}) EXCEPT !.opaque = TRUE, !.leaks = {"key"}, !.http = TRUE]},
        !.edges = {Edge("t", "a", Absent, FALSE), Edge("a", "b", Absent, FALSE), Edge("b", "a", Absent, FALSE)},
        !.sensitive = TRUE,
        !.prompt = << Clause({"draft", "call"}, {}, {}), Clause({"post"}, {"output"}, {}),
                      Clause({"review"}, {"approval", "when"}, {}) >>]

Workflows == {Calls, Leaky, Model}
Requests == Permutations(Request)
=============================================================================
