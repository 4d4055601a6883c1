------------------------------- MODULE MCCosting -------------------------------
(* Costing for TLC: a workflow of a question to a model, a call and a step that no        *)
(* entry prices.                                                                           *)
EXTENDS Costing, TLC

Entry(category, provider, model, date, input, output, call) ==
    [category |-> category, provider |-> provider, model |-> model, date |-> date,
     input |-> input, output |-> output, call |-> call]

MCDefault == << Entry("llm", "openai", <<"mini">>, 1, 1, 4, 0),
                Entry("llm", "openai", <<"large">>, 1, 33, 100, 0),
                Entry("external_api", "generic", None, 1, 0, 0, 10) >>

\* A price of the provider's own, an older one, a later default, and one without a model.
MCAddition == {Entry("external_api", "mailer", None, 1, 0, 0, 3),
               Entry("external_api", "generic", None, 0, 0, 0, 1),
               Entry("llm", "openai", <<"mini">>, 2, 2, 5, 0)}

MCNode(id, category, provider, model, overkill, retries, destination) ==
    [id |-> id, category |-> category, provider |-> provider, model |-> model, calls |-> 1,
     overkill |-> overkill, largeContext |-> FALSE, retries |-> retries,
     destination |-> destination]

\* The question names no model, and any of the provider's prices fits it.
MCWorkflow == {MCNode("ask", "llm", "openai", None, TRUE, 5, None),
               MCNode("mail", "external_api", "mailer", None, FALSE, 0, <<"send">>),
               MCNode("step", "compute", "generic", None, FALSE, 0, None)}

MCScenario == {[input |-> 1, output |-> 2, monthly |-> 30, retries |-> 5]}

MCSymmetry == Permutations(Request)
=============================================================================
