SPECIFICATION Spec
CONSTANTS
  Nodes = {llm, step}
  Models = {llm}
  Items = {r1, r2}
  Ghost = ghost
  MaxCases = 1
  MaxOccurrence = 5
  SuggestionCap = 2
  PostCap = 6
INVARIANTS AnswersFitTheWorkflow CallsAreBounded
PROPERTY RequestsEnd
CHECK_DEADLOCK FALSE
