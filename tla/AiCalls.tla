------------------------------- MODULE AiCalls -------------------------------
(***************************************************************************)
(* How one request asks a remote model and what it does with what comes    *)
(* back.  Four requests ask: evaluate (once for the requirements of the    *)
(* prompt, once more to match the requirements of documents), the          *)
(* generation of tests, of a repair and of fuzz cases.  A call is one or   *)
(* more posts to the provider; the provider may answer anything.  Every    *)
(* caller has a deterministic result to fall back on.                      *)
(*                                                                         *)
(* A reply stands for a class of replies the code tells apart:             *)
(*   timeout, broken        httpx gives up, or fails in another way        *)
(*   refused                401 or 403                                     *)
(*   soon, late, toobig, past  a rate limit (429, or 413 whose body says   *)
(*                          so): with a hint worth waiting for, with none  *)
(*                          or a long one, for a request that can never    *)
(*                          fit, with a hint below zero                    *)
(*   schema                 400 that mentions the response format          *)
(*   large, status          413 about the size, any other error status     *)
(*   odd                    an error status whose body is JSON, and not an *)
(*                          object that holds an error object              *)
(*   html, list, shapeless  a 200 that is no JSON, a JSON array, an object *)
(*                          without the text                               *)
(*   garbage, array, wrong, valid  a 200 whose text is no JSON, an array,  *)
(*                          an object of other fields, what was asked for  *)
(***************************************************************************)
EXTENDS Naturals, Sequences, FiniteSets, SequencesExt

CONSTANTS
  Nodes, Models,     \* the nodes of the workflow; those that are a language model
  Items,             \* the requirements of its specification
  Ghost,             \* an id that is neither a node nor a requirement
  MaxCases,          \* the fuzz cases a request asks for
  MaxOccurrence,     \* MAX_OCCURRENCE of ai/fuzzing.py
  SuggestionCap,     \* how many suggestions an answer may carry
  PostCap            \* counted posts stop here, above any number a call makes

ASSUME AiConstants ==
  /\ Models \subseteq Nodes /\ Ghost \notin Nodes \cup Items
  /\ MaxCases \in Nat /\ MaxOccurrence \in Nat \ {0}
  /\ SuggestionCap \in Nat /\ PostCap \in Nat

VARIABLES
  settings,          \* the provider configured, and whether it has a key
  request,           \* what was asked
  agenda,            \* the calls still to make
  call,              \* the call under way
  results,           \* what each call came to
  status             \* "running", "done" or "failed" (an error no caller expects)
vars == <<settings, request, agenda, call, results, status>>

Purposes == {"extract", "align", "tests", "repair", "fuzz"}
Providers == {"none", "openai", "groq", "unknown"}
\* Only an evaluation has texts to extract requirements from.
Requests ==
  [op : {"evaluate"}, useAi : BOOLEAN, prompt : BOOLEAN, documents : {"none", "empty", "clauses"}]
    \cup [op : {"tests", "repair", "fuzz"}, useAi : BOOLEAN, prompt : {FALSE}, documents : {"none"}]

RateLimits == {"soon", "late", "toobig", "past"}
Failures == RateLimits \cup {"timeout", "broken", "refused", "schema", "large", "status", "odd"}
Bodies == {"html", "list", "shapeless"}
Texts == {"garbage", "array", "wrong", "valid"}
Replies == Failures \cup Bodies \cup Texts

-----------------------------------------------------------------------------
(* What may be suggested, and what is left of a suggestion.  Of a list of   *)
(* suggestions, those that are kept keep their positions.                    *)

\* The values of FailureType; http_500 stands for all that can happen at any node.
FailureType == {"malformed_output", "http_500"}

Named == SUBSET (Nodes \cup {Ghost})
Suggestion(p) ==
  CASE p = "align" ->
         [item : Items \cup {Ghost}, status : {"matched", "partial", "missing", "bogus"}, nodes : Named]
    [] p = "tests" -> [named : BOOLEAN, path : Named]
    [] p = "fuzz" ->
         [targets : Named, failures : SUBSET (FailureType \cup {"bogus"}),
          occurrence : {0, MaxOccurrence + 1}, input : BOOLEAN]
    [] OTHER -> {}
Suggestions(p) == BoundedSeq(Suggestion(p), SuggestionCap)

\* Mutant: a match stands, whichever of its nodes exist.
BugMatchStands(s) ==
  [status |-> IF s.status \in {"matched", "partial"} THEN "matched" ELSE "missing",
   nodes |-> s.nodes \cap Nodes, low |-> s.status = "partial"]

\* A requirement is matched only by nodes that exist, a partial match is a
\* match of low confidence, and one the answer forgets is missing.
MatchOf(s) ==
  LET nodes == s.nodes \cap Nodes
      matched == s.status \in {"matched", "partial"} /\ nodes # {}
  IN  [status |-> IF matched THEN "matched" ELSE "missing", nodes |-> nodes,
       low |-> s.status = "partial"]
Verdicts(answer) ==
  [i \in Items |->
     LET about == {k \in DOMAIN answer : answer[k].item = i}
     IN  IF about = {} THEN [status |-> "missing", nodes |-> {}, low |-> TRUE]
         ELSE MatchOf(answer[Max(about)])]

\* A test keeps the nodes that exist; one without a name is dropped.
SuggestedTests(answer) ==
  [k \in {j \in DOMAIN answer : answer[j].named} |-> [path |-> answer[k].path \cap Nodes]]

\* The occurrence a failure is injected at, brought into the range the simulator knows.
Occurrence(s) ==
  LET atLeast == IF s.occurrence > 1 THEN s.occurrence ELSE 1
  IN  IF atLeast > MaxOccurrence THEN MaxOccurrence ELSE atLeast

\* Mutant: every failure that there is can happen at every node.
BugMalformedAnywhere(s) ==
  {[node |-> n, failure |-> f, occurrence |-> Occurrence(s)] :
     n \in s.targets \cap Nodes, f \in s.failures \cap FailureType}

\* A fuzz case keeps the targets that exist and the failures that there are,
\* malformed output at language models only, as often as the simulator allows;
\* with neither an injection nor an input it is dropped, and no more than were
\* asked for are read.
Injections(s) ==
  {[node |-> at[1], failure |-> at[2], occurrence |-> Occurrence(s)] :
     at \in {w \in (s.targets \cap Nodes) \X (s.failures \cap FailureType) :
               w[2] = "malformed_output" => w[1] \in Models}}
SuggestedCases(answer) ==
  LET read == {k \in DOMAIN answer : k <= MaxCases}
      usable == {k \in read : Injections(answer[k]) # {} \/ answer[k].input}
  IN  [k \in usable |->
         [targets |-> answer[k].targets \cap Nodes, injections |-> Injections(answer[k]),
          input |-> answer[k].input]]

-----------------------------------------------------------------------------
(* The provider.                                                            *)

Client(p) == IF settings.provider = "groq" THEN "groq"
             ELSE IF p = "align" THEN "chat" ELSE "responses"

\* provider_from_settings and its siblings: no provider, no key, or one that
\* does not do this.
Unconfigured(p) ==
  \/ settings.provider \in {"none", "unknown"}
  \/ ~settings.key
  \/ (p = "fuzz" /\ settings.provider = "openai")

\* Replies whose handling raises something that is no provider error.
Escapes(p) ==
  IF Client(p) = "groq" THEN {"odd", "list"} \cup (IF p = "tests" THEN {"array"} ELSE {})
  ELSE IF Client(p) = "chat" THEN {"broken"}
  ELSE {"list"}

\* Texts that are read as an answer.  Where every field has a default, an
\* object of other fields is an answer that suggests nothing.
Readable(p) ==
  IF p \in {"align", "fuzz"} \/ (p = "tests" /\ Client(p) = "groq")
  THEN {"wrong", "valid"} ELSE {"valid"}

Outcome(p, reply) ==
  IF reply \in Escapes(p) THEN "escapes"
  ELSE IF reply = "refused" THEN "unavailable"
  ELSE IF Client(p) = "groq" /\ reply \in RateLimits THEN "limited"
  ELSE IF Client(p) = "groq" /\ reply = "schema" THEN "rejected"
  ELSE IF reply \in Readable(p) THEN "used"
  ELSE "error"

\* What the caller gets from a text: an OpenAI provider's tests are validated
\* as tests, not against the nodes of the workflow.
Content(p, answer) ==
  CASE p = "align" -> Verdicts(answer)
    [] p = "tests" /\ Client(p) = "groq" -> SuggestedTests(answer)
    [] p = "tests" /\ Client(p) # "groq" -> [k \in DOMAIN answer |-> [path |-> answer[k].path]]
    [] p = "fuzz" -> SuggestedCases(answer)
    [] OTHER -> answer

-----------------------------------------------------------------------------
NoCall == [at |-> "none", phase |-> 1, retried |-> FALSE, posts |-> 0, last |-> "none"]
NewCall(p) == [NoCall EXCEPT !.at = p]

Agenda(q) ==
  IF ~q.useAi THEN <<>>
  ELSE IF q.op = "evaluate" THEN (IF q.prompt THEN <<"extract">> ELSE <<>>)
                                 \o (IF q.documents = "clauses" THEN <<"align">> ELSE <<>>)
  ELSE <<q.op>>

Init ==
  /\ settings \in [provider : Providers, key : BOOLEAN]
  /\ request \in Requests
  /\ agenda = Agenda(request)
  /\ call = NoCall
  /\ results = [p \in Purposes |-> [how |-> "none", content |-> <<>>]]
  /\ status = "running"

Settle(how, content) ==
  /\ results' = [results EXCEPT ![call.at] = [how |-> how, content |-> content]]
  /\ call' = NoCall
  /\ UNCHANGED <<settings, request, agenda, status>>

Verdict == Outcome(call.at, call.last)
Answered == status = "running" /\ call.at # "none" /\ call.last # "none"

Begin ==
  /\ status = "running" /\ call.at = "none" /\ agenda # <<>>
  /\ call' = NewCall(Head(agenda))
  /\ agenda' = Tail(agenda)
  /\ UNCHANGED <<settings, request, results, status>>

\* The caller's except clauses.
FallBack(why) == Settle(why, <<>>)

Decline ==
  /\ call.at # "none" /\ call.posts = 0 /\ Unconfigured(call.at)
  /\ FallBack("unavailable")

Post(reply) ==
  /\ call.at # "none" /\ call.last = "none" /\ ~Unconfigured(call.at)
  /\ call' = [call EXCEPT !.last = reply,
                          !.posts = IF call.posts < PostCap THEN call.posts + 1 ELSE call.posts]
  /\ UNCHANGED <<settings, request, agenda, results, status>>

\* Mutant: every rate limit is waited out.
BugAlwaysWaits == Verdict = "limited" /\ call.last = "soon"

\* A rate limit that will have passed soon is waited out, once in a phase.
WorthWaiting == Verdict = "limited" /\ call.last = "soon" /\ ~call.retried
WaitOut ==
  /\ Answered /\ WorthWaiting
  /\ call' = [call EXCEPT !.last = "none", !.retried = TRUE]
  /\ UNCHANGED <<settings, request, agenda, results, status>>

\* Mutant: the second request is as much a first one.
BugAsksAgain ==
  /\ Answered /\ Verdict = "rejected"
  /\ call' = [call EXCEPT !.last = "none", !.retried = FALSE]
  /\ UNCHANGED <<settings, request, agenda, results, status>>

\* A rejected schema is asked for once more, in words.
AskInWords ==
  /\ Answered /\ Verdict = "rejected" /\ call.phase = 1
  /\ call' = [call EXCEPT !.last = "none", !.phase = 2, !.retried = FALSE]
  /\ UNCHANGED <<settings, request, agenda, results, status>>

TakeAnswer ==
  /\ Answered /\ Verdict = "used"
  /\ \E answer \in IF call.last = "valid" THEN Suggestions(call.at) ELSE {<<>>} :
       Settle("used", Content(call.at, answer))

\* A wait of less than nothing is an error of its own.
BadWait == Verdict = "limited" /\ call.last = "past" /\ ~call.retried
GiveUp ==
  /\ Answered
  /\ \/ Verdict \in {"error", "unavailable"}
     \/ (Verdict = "limited" /\ ~WorthWaiting /\ ~BadWait)
  /\ FallBack(IF Verdict = "unavailable" THEN "unavailable" ELSE "error")

\* Only the generation of tests catches everything.
Unexpected == Verdict = "escapes" \/ BadWait \/ (Verdict = "rejected" /\ call.phase = 2)
CatchesEverything(p) == p = "tests"
Survive ==
  /\ Answered /\ Unexpected /\ CatchesEverything(call.at)
  /\ FallBack("unexpected")

\* The request fails, and its session is rolled back: nothing is stored.
Fail ==
  /\ Answered /\ Unexpected /\ ~CatchesEverything(call.at)
  /\ status' = "failed"
  /\ UNCHANGED <<settings, request, agenda, call, results>>

Finish ==
  /\ status = "running" /\ call.at = "none" /\ agenda = <<>>
  /\ status' = "done"
  /\ UNCHANGED <<settings, request, agenda, call, results>>

Next ==
  \/ Begin \/ Decline \/ (\E reply \in Replies : Post(reply))
  \/ WaitOut \/ AskInWords \/ TakeAnswer \/ GiveUp \/ Survive \/ Fail \/ Finish

\* httpx gives up on a reply that does not come, and a wait is at most
\* MAX_RATE_LIMIT_WAIT_SECONDS: no step can be put off for ever.
Spec == Init /\ [][Next]_vars /\ WF_vars(Next)

-----------------------------------------------------------------------------
(* What the requests promise.                                               *)

\* What is kept of an answer is about this workflow, whatever the model made up:
\* the verdicts of _clamp cover every requirement and are matched by a node, a
\* suggested test of Groq walks nodes that exist, and a fuzz case injects failures
\* that there are at nodes it targets, malformed output at language models only,
\* at an occurrence from 1 to MAX_OCCURRENCE, in no more cases than were asked for.
AnswersFitTheWorkflow ==
  /\ results["align"].how = "used" =>
       \A i \in Items : LET v == results["align"].content[i]
                        IN  v.nodes \subseteq Nodes /\ (v.status = "matched" => v.nodes # {})
  /\ results["tests"].how = "used" /\ settings.provider = "groq" =>
       \A k \in DOMAIN results["tests"].content : results["tests"].content[k].path \subseteq Nodes
  /\ results["fuzz"].how = "used" =>
       /\ Cardinality(DOMAIN results["fuzz"].content) <= MaxCases
       /\ \A k \in DOMAIN results["fuzz"].content :
            LET c == results["fuzz"].content[k]
            IN  /\ c.targets \subseteq Nodes /\ (c.input \/ c.injections # {})
                /\ \A j \in c.injections :
                     /\ j.node \in c.targets /\ j.failure \in FailureType
                     /\ j.failure = "malformed_output" => j.node \in Models
                     /\ j.occurrence \in 1..MaxOccurrence

\* Someone is watching the request: a call posts at most four times (once, once
\* more after a rate limit, and both again for a rejected schema), with OpenAI
\* exactly once, and a call that cannot be configured never posts.
CallsAreBounded ==
  call.posts <= IF settings.provider = "groq" THEN 4 ELSE IF settings.provider = "openai" THEN 1 ELSE 0

\* Every request ends, whatever the provider does.
RequestsEnd == <>(status \in {"done", "failed"})
=============================================================================
