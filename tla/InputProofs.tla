----------------------------- MODULE InputProofs -----------------------------
(***************************************************************************)
(* Theorems about what comes from outside, whatever it is.                  *)
(*                                                                         *)
(* First, of the replies of a model, whatever the workflow.  A call has two *)
(* chances to post again, and uses each up: the wait for a rate limit once  *)
(* in a phase, and the second phase once.  Both exist for Groq only.         *)
(*                                                                         *)
(* Then, from LeastLine on, of a requirement document, whatever its lines.   *)
(* The open section is always the last; what is inherited are the verdicts   *)
(* on the headings that a next one may stand under; and the table kept apart *)
(* is what the document ends with.                                          *)
(***************************************************************************)
EXTENDS AiCalls, MarkdownParser, FiniteSetTheorems, WellFoundedInduction, TLAPS

Call == [at : Purposes \cup {"none"}, phase : {1, 2}, retried : BOOLEAN, posts : Nat,
         last : Replies \cup {"none"}]

\* What the variables hold.
Shape ==
    /\ settings \in [provider : Providers, key : BOOLEAN]
    /\ request \in Requests
    /\ agenda \in Seq(Purposes)
    /\ call \in Call
    /\ status \in {"running", "done", "failed"}

\* The posts that a call may have made by the time that it waits for no reply.
Allowed == (IF call.phase = 1 THEN 0 ELSE 2) + (IF call.retried THEN 1 ELSE 0)

PostsAreCounted == call.posts <= Allowed + (IF call.last = "none" THEN 0 ELSE 1)

OnlyGroqPostsAgain == settings.provider # "groq" => call.phase = 1 /\ ~ call.retried

OnlyConfiguredPosts == call.posts # 0 \/ call.last # "none" => ~ Unconfigured(call.at)

\* A request that failed did so over a reply, and one that is done has no call open.
EndedForGood ==
    /\ status = "failed" => call.at # "none" /\ call.last # "none"
    /\ status = "done" => call.at = "none"

IInv == /\ Shape /\ PostsAreCounted /\ OnlyGroqPostsAgain /\ OnlyConfiguredPosts
        /\ EndedForGood
-----------------------------------------------------------------------------
LEMMA AgendaIsOfPurposes == \A q \in Requests : Agenda(q) \in Seq(Purposes)
<1> TAKE q \in Requests
<1>1. CASE ~ q.useAi
  BY <1>1 DEF Agenda
<1>2. CASE q.useAi /\ q.op = "evaluate"
  <2>1. << "extract" >> \in Seq(Purposes) /\ << "align" >> \in Seq(Purposes) /\ << >> \in Seq(Purposes)
    BY DEF Purposes
  <2>2. \A a, b \in Seq(Purposes) : a \o b \in Seq(Purposes)
    OBVIOUS
  <2> QED BY <1>2, <2>1, <2>2 DEF Agenda
<1>3. CASE q.useAi /\ q.op # "evaluate"
  <2>1. q.op \in Purposes
    BY <1>3 DEF Requests, Purposes
  <2>2. << q.op >> \in Seq(Purposes)
    BY <2>1
  <2> QED BY <1>3, <2>2 DEF Agenda
<1> QED BY <1>1, <1>2, <1>3 DEF Requests

LEMMA Establish == Init => IInv
<1> SUFFICES ASSUME Init PROVE IInv
  OBVIOUS
<1>1. Shape
  BY AgendaIsOfPurposes DEF Init, Shape, Call, NoCall
<1> QED
  BY <1>1 DEF Init, IInv, NoCall, PostsAreCounted, Allowed, OnlyGroqPostsAgain, OnlyConfiguredPosts,
              EndedForGood

\* Only Groq's client tells a rate limit or a rejected schema from another error.
LEMMA OthersKnowNoLimits ==
    ASSUME NEW p, NEW reply, settings.provider # "groq"
    PROVE  Outcome(p, reply) \notin {"limited", "rejected"}
BY DEF Outcome, Client
-----------------------------------------------------------------------------
\* A step that ends a call, or begins one, leaves nothing of it behind.
LEMMA FreshCall ==
    ASSUME IInv, UNCHANGED << settings, request, status >>, agenda' \in Seq(Purposes),
           NEW p \in Purposes \cup {"none"}, call' = NewCall(p), status = "running"
    PROVE  IInv'
<1>1. call' \in Call /\ call'.phase = 1 /\ call'.retried = FALSE /\ call'.posts = 0 /\ call'.last = "none"
  BY DEF NewCall, NoCall, Call
<1>2. Shape'
  BY <1>1 DEF IInv, Shape
<1> QED
  BY <1>1, <1>2 DEF IInv, PostsAreCounted, Allowed, OnlyGroqPostsAgain, OnlyConfiguredPosts,
                    EndedForGood

LEMMA Beginning == IInv /\ Begin => IInv'
<1> SUFFICES ASSUME IInv, Begin PROVE IInv'
  OBVIOUS
<1>1. agenda \in Seq(Purposes) /\ agenda # << >>
  BY DEF IInv, Shape, Begin
<1>2. Head(agenda) \in Purposes /\ Tail(agenda) \in Seq(Purposes)
  BY <1>1
<1> QED BY <1>2, FreshCall DEF Begin

\* A running request settles a call.
LEMMA Settling ==
    ASSUME IInv, status = "running", NEW how, NEW content, Settle(how, content)
    PROVE  IInv'
<1>1. call' = NewCall("none")
  BY DEF Settle, NewCall, NoCall
<1>2. UNCHANGED << settings, request, agenda, status >>
  BY DEF Settle
<1> QED BY <1>1, <1>2, FreshCall DEF IInv, Shape

\* Nothing is left to decline for a request that failed: its call was posted.
LEMMA Declining == IInv /\ Decline => IInv'
<1> SUFFICES ASSUME IInv, Decline PROVE IInv'
  OBVIOUS
<1>1. status = "running" /\ Settle("unavailable", << >>)
  BY DEF IInv, Shape, EndedForGood, OnlyConfiguredPosts, Decline, FallBack
<1> QED BY <1>1, Settling

LEMMA Posting == \A reply \in Replies : IInv /\ Post(reply) => IInv'
<1> SUFFICES ASSUME NEW reply \in Replies, IInv, Post(reply) PROVE IInv'
  OBVIOUS
<1>1. call \in Call /\ call.last = "none" /\ ~ Unconfigured(call.at)
  BY DEF IInv, Shape, Post
<1>2. /\ call' \in Call /\ call'.at = call.at /\ call'.phase = call.phase
      /\ call'.retried = call.retried /\ call'.last = reply /\ call'.posts <= call.posts + 1
  <2>1. PICK posts : posts = IF call.posts < PostCap THEN call.posts + 1 ELSE call.posts
    OBVIOUS
  <2>2. posts \in Nat /\ posts <= call.posts + 1
    BY <1>1, <2>1 DEF Call
  <2>3. call' = [call EXCEPT !.last = reply, !.posts = posts]
    BY <2>1 DEF Post
  <2> QED BY <1>1, <2>2, <2>3 DEF Call
<1>3. Shape'
  BY <1>2 DEF IInv, Shape, Post
<1>4. PostsAreCounted'
  <2>1. reply # "none"
    BY DEF Replies, Failures, RateLimits, Bodies, Texts
  <2>2. Allowed' = Allowed /\ Allowed \in Nat
    BY <1>2 DEF Allowed
  <2>3. call.posts \in Nat /\ call'.posts \in Nat
    BY <1>1, <1>2 DEF Call
  <2>4. call.posts <= Allowed
    BY <1>1, <2>2, <2>3 DEF IInv, PostsAreCounted
  <2> QED BY <1>2, <2>1, <2>2, <2>3, <2>4 DEF PostsAreCounted
<1>5. OnlyGroqPostsAgain'
  BY <1>2 DEF IInv, OnlyGroqPostsAgain, Post
<1>6. OnlyConfiguredPosts'
  BY <1>1, <1>2 DEF OnlyConfiguredPosts, Unconfigured, Post
<1>7. EndedForGood'
  BY <1>1 DEF IInv, EndedForGood, Post
<1> QED BY <1>3, <1>4, <1>5, <1>6, <1>7 DEF IInv

\* Posting again uses up one of the chances.
LEMMA PostingAgain == IInv /\ (WaitOut \/ AskInWords) => IInv'
<1> SUFFICES ASSUME IInv, WaitOut \/ AskInWords PROVE IInv'
  OBVIOUS
<1>1. /\ call \in Call /\ call.last # "none" /\ status = "running" /\ call.at # "none"
      /\ UNCHANGED << settings, request, agenda, status >>
  BY DEF IInv, Shape, WaitOut, AskInWords, Answered
<1>2. settings.provider = "groq"
  BY OthersKnowNoLimits DEF WaitOut, WorthWaiting, AskInWords, Verdict
<1>3. /\ call' \in Call /\ call'.at = call.at /\ call'.last = "none" /\ call'.posts = call.posts
      /\ \/ call'.phase = call.phase /\ ~ call.retried /\ call'.retried
         \/ call.phase = 1 /\ call'.phase = 2 /\ ~ call'.retried
  BY <1>1 DEF WaitOut, WorthWaiting, AskInWords, Call
<1>4. Shape'
  BY <1>1, <1>3 DEF IInv, Shape
<1>5. PostsAreCounted'
  BY <1>1, <1>3 DEF IInv, PostsAreCounted, Allowed, Call
<1>6. OnlyGroqPostsAgain' /\ EndedForGood'
  BY <1>1, <1>2 DEF OnlyGroqPostsAgain, EndedForGood
<1>7. OnlyConfiguredPosts'
  BY <1>1, <1>3 DEF IInv, OnlyConfiguredPosts, Unconfigured
<1> QED BY <1>4, <1>5, <1>6, <1>7 DEF IInv

LEMMA Ending == IInv /\ (Fail \/ Finish) => IInv'
<1> SUFFICES ASSUME IInv, Fail \/ Finish PROVE IInv'
  OBVIOUS
<1>1. UNCHANGED << settings, request, agenda, call >> /\ status' \in {"done", "failed"}
  BY DEF Fail, Finish
<1>2. EndedForGood'
  BY <1>1 DEF EndedForGood, Fail, Finish, Answered
<1> QED
  BY <1>1, <1>2 DEF IInv, Shape, PostsAreCounted, Allowed, OnlyGroqPostsAgain,
                    OnlyConfiguredPosts, Unconfigured

LEMMA Preserve == IInv /\ [Next]_vars => IInv'
<1> SUFFICES ASSUME IInv, [Next]_vars PROVE IInv'
  OBVIOUS
<1>1. CASE TakeAnswer \/ GiveUp \/ Survive
  <2>1. status = "running"
    BY <1>1 DEF TakeAnswer, GiveUp, Survive, Answered
  <2>2. \E how, content : Settle(how, content)
    BY <1>1 DEF TakeAnswer, GiveUp, Survive, FallBack
  <2> QED BY <2>1, <2>2, Settling
<1>2. CASE UNCHANGED vars
  BY <1>2 DEF vars, IInv, Shape, PostsAreCounted, Allowed, OnlyGroqPostsAgain, OnlyConfiguredPosts,
              Unconfigured, EndedForGood
<1> QED
  BY <1>1, <1>2, Beginning, Declining, Posting, PostingAgain, Ending DEF Next
-----------------------------------------------------------------------------
LEMMA AlwaysIInv == Spec => []IInv
BY Establish, Preserve, PTL DEF Spec

\* Whoever is asked and whatever they reply: a call posts four times at most, with OpenAI once,
\* and without a provider or a key never (ai/groq.py _complete; MAX_RATE_LIMIT_WAIT_SECONDS).
THEOREM PostsAreFew == Spec => []CallsAreBounded
<1>1. IInv => CallsAreBounded
  <2> SUFFICES ASSUME IInv PROVE CallsAreBounded
    OBVIOUS
  <2>1. Allowed \in {0, 1, 2, 3} /\ call.posts \in Nat /\ call.posts <= Allowed + 1
    BY DEF IInv, Shape, Call, PostsAreCounted, Allowed
  <2>2. settings.provider # "groq" => Allowed = 0
    BY DEF IInv, OnlyGroqPostsAgain, Allowed
  <2>3. settings.provider \notin {"groq", "openai"} => call.posts = 0
    BY DEF IInv, Shape, Providers, OnlyConfiguredPosts, Unconfigured
  <2> QED BY <2>1, <2>2, <2>3 DEF CallsAreBounded
<1> QED BY <1>1, AlwaysIInv, PTL
-----------------------------------------------------------------------------
(***************************************************************************)
(* What is kept of an answer.                                              *)
(***************************************************************************)

\* Every verdict about a requirement is of nodes that exist.
LEMMA VerdictsFit ==
    ASSUME NEW answer, NEW i \in Items
    PROVE  /\ Verdicts(answer)[i].nodes \subseteq Nodes
           /\ Verdicts(answer)[i].status = "matched" => Verdicts(answer)[i].nodes # {}
<1> DEFINE about == {k \in DOMAIN answer : answer[k].item = i}
<1>1. Verdicts(answer)[i] = IF about = {} THEN [status |-> "missing", nodes |-> {}, low |-> TRUE]
                            ELSE MatchOf(answer[Max(about)])
  BY DEF Verdicts
<1>2. ASSUME NEW s
      PROVE  MatchOf(s).nodes \subseteq Nodes /\ (MatchOf(s).status = "matched" => MatchOf(s).nodes # {})
  BY DEF MatchOf
<1> HIDE DEF about
<1>3. CASE about = {}
  BY <1>1, <1>3
<1>4. CASE about # {}
  <2>1. PICK s : s = answer[Max(about)]
    OBVIOUS
  <2>2. Verdicts(answer)[i] = MatchOf(s)
    BY <1>1, <1>4, <2>1
  <2> QED
    BY <1>2, <2>2
<1> QED
  BY <1>3, <1>4

\* An injection that can happen in a case that targets these nodes.
Possible(j, targets) ==
    /\ j.node \in targets /\ j.failure \in FailureType
    /\ j.failure = "malformed_output" => j.node \in Models
    /\ j.occurrence \in 1..MaxOccurrence

\* What a fuzz case that is kept does can be done.
LEMMA InjectionsFit ==
    ASSUME NEW s \in Suggestion("fuzz"), NEW j \in Injections(s)
    PROVE  Possible(j, s.targets \cap Nodes)
<1>1. Occurrence(s) \in 1..MaxOccurrence
  <2>1. s.occurrence \in Nat
    BY AiConstants DEF Suggestion
  <2> QED
    BY <2>1, AiConstants DEF Occurrence
<1> DEFINE kept == {w \in (s.targets \cap Nodes) \X (s.failures \cap FailureType) :
                       w[2] = "malformed_output" => w[1] \in Models}
<1>2. PICK w \in kept : j = [node |-> w[1], failure |-> w[2], occurrence |-> Occurrence(s)]
  BY DEF Injections
<1>3. w[1] \in s.targets \cap Nodes /\ w[2] \in FailureType /\ (w[2] = "malformed_output" => w[1] \in Models)
  OBVIOUS
<1> QED
  BY <1>1, <1>2, <1>3 DEF Possible

\* So do the cases that are kept, which are no more than were asked for.
LEMMA CasesFit ==
    ASSUME NEW answer \in Suggestions("fuzz") \cup {<< >>}, NEW content, content = SuggestedCases(answer)
    PROVE  /\ Cardinality(DOMAIN content) <= MaxCases
           /\ \A k \in DOMAIN content :
                  /\ content[k].targets \subseteq Nodes
                  /\ content[k].input \/ content[k].injections # {}
                  /\ \A j \in content[k].injections : Possible(j, content[k].targets)
<1>1. PICK n \in Nat : DOMAIN answer = 1..n /\ \A k \in 1..n : answer[k] \in Suggestion("fuzz")
  <2>1. CASE answer = << >>
    <3>1. DOMAIN answer = 1..0
      BY <2>1
    <3> QED
      BY <3>1
  <2>2. CASE answer \in Suggestions("fuzz")
    <3>1. PICK m \in 0..SuggestionCap : answer \in [1..m -> Suggestion("fuzz")]
      BY <2>2 DEF Suggestions, BoundedSeq, SeqOf
    <3> QED
      BY <3>1, AiConstants
  <2> QED
    BY <2>1, <2>2
<1> DEFINE read == {k \in DOMAIN answer : k <= MaxCases}
           usable == {k \in read : Injections(answer[k]) # {} \/ answer[k].input}
<1>2. content = [k \in usable |->
                    [targets |-> answer[k].targets \cap Nodes, injections |-> Injections(answer[k]),
                     input |-> answer[k].input]]
  BY DEF SuggestedCases
<1>3. usable \subseteq 1..MaxCases
  BY <1>1, AiConstants
<1>4. \A k \in usable : /\ answer[k] \in Suggestion("fuzz")
                        /\ answer[k].input \/ Injections(answer[k]) # {}
  BY <1>1
<1> HIDE DEF usable
<1>5. Cardinality(usable) <= MaxCases
  <2>1. MaxCases \in Nat /\ 1 \in Nat
    BY AiConstants
  <2>2. IsFiniteSet(1..MaxCases) /\ Cardinality(1..MaxCases) = MaxCases
    BY <2>1, FS_Interval
  <2> QED
    BY <1>3, <2>2, FS_Subset
<1>6. DOMAIN content = usable
  BY <1>2
<1>7. ASSUME NEW k \in usable
      PROVE  /\ content[k].targets \subseteq Nodes
             /\ content[k].input \/ content[k].injections # {}
             /\ \A j \in content[k].injections : Possible(j, content[k].targets)
  <2>1. /\ content[k].targets = answer[k].targets \cap Nodes
        /\ content[k].injections = Injections(answer[k]) /\ content[k].input = answer[k].input
    BY <1>2
  <2> QED
    BY <1>4, <2>1, InjectionsFit
<1> QED
  BY <1>5, <1>6, <1>7

\* Results are kept one for each call that was made.
Recorded == results = [p \in Purposes |-> results[p]]

\* Whatever call is settled without an answer, nothing of an answer is kept.
LEMMA SettledWithoutAnswer ==
    ASSUME IInv, Recorded, AnswersFitTheWorkflow, NEW how, NEW content, how # "used",
           Settle(how, content)
    PROVE  Recorded' /\ AnswersFitTheWorkflow'
<1>1. results' = [results EXCEPT ![call.at] = [how |-> how, content |-> content]]
      /\ settings' = settings
  BY DEF Settle
<1>2. ASSUME NEW p \in Purposes PROVE results'[p] = results[p] \/ results'[p].how # "used"
  BY <1>1 DEF Recorded
<1>3. Recorded'
  BY <1>1 DEF Recorded
<1>4. {"align", "tests", "fuzz"} \subseteq Purposes
  BY DEF Purposes
<1> QED
  BY <1>1, <1>2, <1>3, <1>4 DEF AnswersFitTheWorkflow

\* An answer that is used fits the workflow.
LEMMA AnswerTaken ==
    ASSUME IInv, Recorded, AnswersFitTheWorkflow, TakeAnswer
    PROVE  Recorded' /\ AnswersFitTheWorkflow'
<1>1. call.at \in Purposes
  BY DEF IInv, Shape, Call, TakeAnswer, Answered
<1>2. PICK answer \in Suggestions(call.at) \cup {<< >>} : Settle("used", Content(call.at, answer))
  BY DEF TakeAnswer
<1> DEFINE p == call.at
           content == Content(p, answer)
<1>3. /\ settings' = settings
      /\ results' = [results EXCEPT ![p] = [how |-> "used", content |-> content]]
  BY <1>2 DEF Settle
<1>4. Recorded' /\ results'[p].content = content
      /\ \A q \in Purposes : q # p => results'[q] = results[q]
  BY <1>1, <1>3 DEF Recorded
<1>5. {"align", "tests", "fuzz"} \subseteq Purposes
  BY DEF Purposes
<1>6. p = "align" => content = Verdicts(answer)
  BY DEF Content
<1>7. p = "tests" /\ settings.provider = "groq" => content = SuggestedTests(answer)
  <2>1. settings.provider = "groq" => Client("tests") = "groq"
    BY DEF Client
  <2>2. Client("tests") = "groq" => Content("tests", answer) = SuggestedTests(answer)
    BY DEF Content
  <2> QED
    BY <2>1, <2>2
<1>8. p = "fuzz" => content = SuggestedCases(answer) /\ answer \in Suggestions("fuzz") \cup {<< >>}
  BY <1>2 DEF Content
<1> HIDE DEF p, content
<1>9. results'["align"].how = "used" =>
          \A i \in Items : LET v == results'["align"].content[i]
                           IN  v.nodes \subseteq Nodes /\ (v.status = "matched" => v.nodes # {})
  <2>1. CASE p = "align"
    BY <1>4, <1>6, <2>1, VerdictsFit
  <2>2. CASE p # "align"
    BY <1>4, <1>5, <2>2 DEF AnswersFitTheWorkflow
  <2> QED
    BY <2>1, <2>2
<1>10. results'["tests"].how = "used" /\ settings'.provider = "groq" =>
          \A k \in DOMAIN results'["tests"].content : results'["tests"].content[k].path \subseteq Nodes
  <2>1. CASE p = "tests"
    <3>1. \A k \in DOMAIN SuggestedTests(answer) : SuggestedTests(answer)[k].path \subseteq Nodes
      BY DEF SuggestedTests
    <3> QED
      BY <1>3, <1>4, <1>7, <2>1, <3>1
  <2>2. CASE p # "tests"
    BY <1>3, <1>4, <1>5, <2>2 DEF AnswersFitTheWorkflow
  <2> QED
    BY <2>1, <2>2
<1>11. results'["fuzz"].how = "used" =>
          /\ Cardinality(DOMAIN results'["fuzz"].content) <= MaxCases
          /\ \A k \in DOMAIN results'["fuzz"].content :
               LET c == results'["fuzz"].content[k]
               IN  /\ c.targets \subseteq Nodes /\ (c.input \/ c.injections # {})
                   /\ \A j \in c.injections :
                        /\ j.node \in c.targets /\ j.failure \in FailureType
                        /\ j.failure = "malformed_output" => j.node \in Models
                        /\ j.occurrence \in 1..MaxOccurrence
  <2>1. CASE p = "fuzz"
    <3>1. PICK kept : kept = results'["fuzz"].content
      OBVIOUS
    <3>2. kept = SuggestedCases(answer)
      BY <1>4, <1>8, <2>1, <3>1
    <3> QED
      BY <1>8, <2>1, <3>1, <3>2, CasesFit DEF Possible
  <2>2. CASE p # "fuzz"
    BY <1>4, <1>5, <2>2 DEF AnswersFitTheWorkflow
  <2> QED
    BY <2>1, <2>2
<1> QED
  BY <1>4, <1>9, <1>10, <1>11 DEF AnswersFitTheWorkflow

\* No other step touches what is kept.
LEMMA AnswersGoOnFitting ==
    IInv /\ Recorded /\ AnswersFitTheWorkflow /\ [Next]_vars => Recorded' /\ AnswersFitTheWorkflow'
<1> SUFFICES ASSUME IInv, Recorded, AnswersFitTheWorkflow, [Next]_vars
             PROVE  Recorded' /\ AnswersFitTheWorkflow'
  OBVIOUS
<1>1. CASE UNCHANGED << settings, results >>
  BY <1>1 DEF Recorded, AnswersFitTheWorkflow
<1>2. CASE Decline \/ GiveUp \/ Survive
  <2>1. PICK why : why # "used" /\ FallBack(why)
    BY <1>2 DEF Decline, GiveUp, Survive
  <2> QED
    BY <2>1, SettledWithoutAnswer DEF FallBack
<1>3. CASE TakeAnswer
  BY <1>3, AnswerTaken
<1> QED
  BY <1>1, <1>2, <1>3 DEF Next, vars, Begin, Post, WaitOut, AskInWords, Fail, Finish

\* Whatever a model makes up, what is kept of its answer is about this workflow: verdicts
\* cover every requirement with nodes that exist, tests of Groq walk nodes that exist, and
\* fuzz cases, no more than were asked for, inject failures that there are at nodes they target,
\* malformed output at language models only, at an occurrence in range
\* (alignment.py 210-264, test_generation.py 112-154, fuzzing.py 228-270).
THEOREM AnswersAreClamped == Spec => []AnswersFitTheWorkflow
<1>1. Init => Recorded /\ AnswersFitTheWorkflow
  BY DEF Init, Recorded, AnswersFitTheWorkflow, Purposes
<1> QED
  BY <1>1, Establish, Preserve, AnswersGoOnFitting, PTL DEF Spec
-----------------------------------------------------------------------------
\* A set of numbers has a least one, and a bounded one has a greatest.
LEMMA LeastLine ==
    ASSUME NEW S \in SUBSET Nat, S # {}
    PROVE  Min(S) \in S /\ \A x \in S : Min(S) <= x
<1> DEFINE less == OpToRel(<, Nat)
<1>1. PICK m \in S : \A x \in S : ~ (x < m)
  <2>1. PICK m \in S : \A x \in S : ~ (<< x, m >> \in less)
    <3> HIDE DEF less
    <3> QED
      BY NatLessThanWellFounded, WFMin DEF less
  <2>2. \A x \in S : x < m => << x, m >> \in less
    BY DEF OpToRel
  <2>3. QED
    BY <2>1, <2>2
<1>2. \A x \in S : m <= x
  BY <1>1
<1>3. QED
  BY <1>2 DEF Min

LEMMA GreatestLine ==
    ASSUME NEW S \in SUBSET Nat, S # {}, NEW b \in Nat, \A x \in S : x <= b
    PROVE  Max(S) \in S /\ \A x \in S : Max(S) >= x
<1> DEFINE U == {u \in Nat : \A x \in S : x <= u}
<1>1. U \in SUBSET Nat /\ U # {}
  OBVIOUS
<1>2. Min(U) \in U /\ \A u \in U : Min(U) <= u
  <2> HIDE DEF U
  <2> QED
    BY <1>1, LeastLine
<1>3. Min(U) \in S
  <2> DEFINE m == Min(U)
  <2>1. m \in U /\ \A u \in U : m <= u
    BY <1>2
  <2> HIDE DEF m
  <2>2. m \in Nat /\ \A x \in S : x <= m
    BY <2>1
  <2>3. SUFFICES ASSUME m \notin S PROVE FALSE
    BY DEF m
  <2>4. \A x \in S : x < m /\ x \in Nat
    BY <2>2, <2>3
  <2>5. m # 0
    <3>1. PICK x : x \in S
      OBVIOUS
    <3>2. QED
      BY <2>4, <3>1
  <2>6. m - 1 \in U
    BY <2>2, <2>4, <2>5
  <2>7. QED
    BY <2>1, <2>2, <2>6
<1>4. \A x \in S : Min(U) >= x
  BY <1>2
<1>5. QED
  BY <1>3, <1>4 DEF Max

\* A least element is the least.
LEMMA LeastIs ==
    ASSUME NEW S \in SUBSET Nat, NEW m \in S, \A x \in S : m <= x
    PROVE  Min(S) = m
<1>1. Min(S) \in S /\ \A x \in S : Min(S) <= x
  BY LeastLine
<1>2. m <= Min(S) /\ Min(S) <= m /\ m \in Nat /\ Min(S) \in Nat
  BY <1>1
<1>3. QED
  BY <1>2

LEMMA GreatestIs ==
    ASSUME NEW S \in SUBSET Nat, NEW m \in S, \A x \in S : m >= x
    PROVE  Max(S) = m
<1>1. m \in Nat /\ \A x \in S : x <= m
  OBVIOUS
<1>2. Max(S) \in S /\ \A x \in S : Max(S) >= x
  BY <1>1, GreatestLine
<1>3. m >= Max(S) /\ Max(S) >= m /\ m \in Nat /\ Max(S) \in Nat
  BY <1>2
<1>4. QED
  BY <1>3
-----------------------------------------------------------------------------
(* A document with one more line.                                               *)

Extends(ls, ns, line) == ls \in Seq(Line) /\ line \in Line /\ ns = Append(ls, line)

LEMMA OneMoreLine ==
    ASSUME NEW ls, NEW ns, NEW line, Extends(ls, ns, line)
    PROVE  /\ Len(ls) \in Nat /\ DOMAIN ls = 1..Len(ls)
           /\ Len(ns) = Len(ls) + 1 /\ DOMAIN ns = 1..(Len(ls) + 1)
           /\ ns[Len(ls) + 1] = line /\ line \in Line /\ ns \in Seq(Line)
           /\ \A k \in 1..Len(ls) : ns[k] = ls[k] /\ ls[k] \in Line
BY DEF Extends

LEMMA HeadersStay ==
    ASSUME NEW ls, NEW ns, NEW line, Extends(ls, ns, line), NEW k \in 1..Len(ls)
    PROVE  HeaderOf(ns, k) = HeaderOf(ls, k)
<1> DEFINE starts(l) == {j \in 1..k : l[j].t = "row" /\ \A i \in j..k : Tabular(l[i])}
<1>1. \A j \in 1..k : j \in 1..Len(ls) /\ \A i \in j..k : i \in 1..Len(ls)
  BY OneMoreLine
<1>2. \A j \in 1..k : ns[j] = ls[j] /\ \A i \in j..k : ns[i] = ls[i]
  BY <1>1, OneMoreLine
<1>3. starts(ns) = starts(ls)
  BY <1>2
<1>4. QED
  BY <1>3 DEF HeaderOf

LEMMA HeadsGrow ==
    ASSUME NEW ls, NEW ns, NEW line, Extends(ls, ns, line)
    PROVE  /\ Heads(ls) \subseteq 1..Len(ls)
           /\ \A h \in 1..Len(ls) : h \in Heads(ns) <=> h \in Heads(ls)
           /\ Heads(ns) = IF line.t = "heading" THEN Heads(ls) \cup {Len(ls) + 1} ELSE Heads(ls)
BY OneMoreLine DEF Heads

LEMMA LineageStays ==
    ASSUME NEW ls, NEW ns, NEW line, Extends(ls, ns, line), NEW h \in 1..Len(ls)
    PROVE  Lineage(ns, h) = Lineage(ls, h)
<1>1. Len(ls) \in Nat /\ \A k \in 1..Len(ls) : ns[k] = ls[k]
  BY OneMoreLine
<1>2. \A g : g \in Heads(ns) /\ g <= h <=> g \in Heads(ls) /\ g <= h
  BY <1>1, HeadsGrow
<1>3. Heads(ls) \subseteq 1..Len(ls)
  BY HeadsGrow
<1>4. QED
  BY <1>1, <1>2, <1>3 DEF Lineage

LEMMA ScoresStay ==
    ASSUME NEW ls, NEW ns, NEW line, Extends(ls, ns, line), NEW h \in 1..Len(ls)
    PROVE  IsScored(ns, h) = IsScored(ls, h)
<1> DEFINE telling(l) == {g \in Lineage(ls, h) : l[g].topic # "plain"}
<1>1. Lineage(ns, h) = Lineage(ls, h)
  BY LineageStays
<1>2. Lineage(ls, h) \subseteq 1..h /\ Lineage(ls, h) \subseteq 1..Len(ls) /\ Len(ls) \in Nat
  BY HeadsGrow, OneMoreLine DEF Lineage
<1>3. telling(ns) = telling(ls)
  BY <1>2, OneMoreLine
<1>4. CASE telling(ls) = {}
  BY <1>1, <1>3, <1>4 DEF IsScored
<1>5. CASE telling(ls) # {}
  <2>1. telling(ls) \in SUBSET Nat /\ h \in Nat /\ \A x \in telling(ls) : x <= h
    BY <1>2
  <2>2. Max(telling(ls)) \in telling(ls)
    <3> HIDE DEF telling
    <3> QED
      BY <1>5, <2>1, GreatestLine
  <2>3. ns[Max(telling(ls))] = ls[Max(telling(ls))]
    BY <1>2, <2>2, OneMoreLine
  <2> HIDE DEF telling
  <2>4. QED
    BY <1>1, <1>3, <2>3 DEF IsScored, telling
<1>6. QED
  BY <1>4, <1>5

\* A section that is followed by a heading is closed.
LEMMA SectionsStay ==
    ASSUME NEW ls, NEW ns, NEW line, Extends(ls, ns, line), NEW h \in Heads(ls),
           NEW g \in Heads(ns), h < g
    PROVE  Section(ns, h) = Section(ls, h)
<1>1. Len(ls) \in Nat /\ h \in 1..Len(ls) /\ g \in 1..(Len(ls) + 1)
  BY HeadsGrow, OneMoreLine DEF Heads
<1>2. \A k \in 1..Len(ls) : k \in Section(ns, h) <=> k \in Section(ls, h)
  BY <1>1, HeadsGrow, OneMoreLine DEF Section
<1>3. Len(ls) + 1 \notin Section(ns, h)
  BY <1>1, OneMoreLine DEF Section
<1>4. Section(ns, h) \subseteq 1..(Len(ls) + 1) /\ Section(ls, h) \subseteq 1..Len(ls)
  BY OneMoreLine DEF Section
<1>5. \A k \in 1..(Len(ls) + 1) : k \in 1..Len(ls) \/ k = Len(ls) + 1
  BY <1>1
<1>6. \A k : k \in Section(ns, h) <=> k \in Section(ls, h)
  BY <1>2, <1>3, <1>4, <1>5
<1>7. QED
  BY <1>6 DEF Section

\* The last section holds everything after its heading.
LEMMA LastSection ==
    ASSUME NEW ls \in Seq(Line), NEW h \in Heads(ls), \A g \in Heads(ls) : g <= h
    PROVE  Section(ls, h) = {k \in 1..Len(ls) : h < k}
<1>1. Heads(ls) \subseteq 1..Len(ls) /\ DOMAIN ls = 1..Len(ls) /\ Len(ls) \in Nat
  BY DEF Heads
<1>2. QED
  BY <1>1 DEF Section
-----------------------------------------------------------------------------
(* Which sections are scored.                                                   *)

\* The headings whose sections, or whose subsections, are still open.
OpenHeads(ls) ==
    {g \in Heads(ls) : \A f \in Heads(ls) : g < f => ls[f].level > ls[g].level}

\* What is inherited is the verdict on each of them, by its level.
Inherits(ls, verdicts) ==
    /\ DOMAIN verdicts = {ls[g].level : g \in OpenHeads(ls)}
    /\ \A g \in OpenHeads(ls) : verdicts[ls[g].level] = IsScored(ls, g)

\* Of these, the ones that a heading of a level stands under.
Above(ls, level) == {g \in OpenHeads(ls) : ls[g].level < level}

LEMMA HeadingsHaveLevels ==
    ASSUME NEW line \in Line, line.t = "heading"
    PROVE  line.level \in 1..6 /\ line.topic \in {"numbered", "informational", "scored", "plain"}
BY LineAssumption

LEMMA HeadsHaveLevels ==
    ASSUME NEW ls \in Seq(Line), NEW h \in Heads(ls)
    PROVE  /\ ls[h].level \in 1..6
           /\ ls[h].topic \in {"numbered", "informational", "scored", "plain"}
<1>1. ls[h] \in Line /\ ls[h].t = "heading"
  BY DEF Heads
<1>2. QED
  BY <1>1, HeadingsHaveLevels

\* What a new heading stands under is what was open, as far as it is of a higher rank.
LEMMA NewLineage ==
    ASSUME NEW ls, NEW ns, NEW line, Extends(ls, ns, line), line.t = "heading"
    PROVE  /\ Lineage(ns, Len(ls) + 1) = Above(ls, line.level) \cup {Len(ls) + 1}
           /\ OpenHeads(ns) = Above(ls, line.level) \cup {Len(ls) + 1}
<1> DEFINE n == Len(ls)
           above == Above(ls, line.level)
<1>1. n \in Nat /\ Heads(ns) = Heads(ls) \cup {n + 1} /\ Heads(ls) \subseteq 1..n
  BY HeadsGrow, OneMoreLine
<1>2. ns[n + 1] = line /\ \A k \in Heads(ls) : ns[k] = ls[k]
  BY <1>1, OneMoreLine
<1>3. ls \in Seq(Line) /\ line \in Line
  BY DEF Extends
<1>4. line.level \in Int /\ \A k \in Heads(ls) : ls[k].level \in Int
  BY <1>3, HeadsHaveLevels, HeadingsHaveLevels
<1> HIDE DEF n
<1>5. \A g \in Heads(ls) : g \in Lineage(ns, n + 1) <=> g \in above
  BY <1>1, <1>2, <1>4 DEF Lineage, OpenHeads, Above
<1>6. \A g \in Heads(ls) : g \in OpenHeads(ns) <=> g \in above
  BY <1>1, <1>2, <1>4 DEF OpenHeads, Above
<1>7. n + 1 \in Lineage(ns, n + 1) /\ n + 1 \in OpenHeads(ns)
  BY <1>1 DEF Lineage, OpenHeads
<1>8. /\ Lineage(ns, n + 1) \subseteq Heads(ls) \cup {n + 1}
      /\ OpenHeads(ns) \subseteq Heads(ls) \cup {n + 1}
      /\ above \subseteq Heads(ls)
  BY <1>1 DEF Lineage, OpenHeads, Above
<1>9. Lineage(ns, n + 1) = above \cup {n + 1}
  BY <1>5, <1>7, <1>8
<1>10. OpenHeads(ns) = above \cup {n + 1}
  BY <1>6, <1>7, <1>8
<1>11. QED
  BY <1>9, <1>10 DEF n

\* The lowest of the open headings above a new one has their lineage.
LEMMA ParentLineage ==
    ASSUME NEW ls \in Seq(Line), NEW level \in Nat,
           NEW h \in Above(ls, level), \A g \in Above(ls, level) : ls[g].level <= ls[h].level
    PROVE  Lineage(ls, h) = Above(ls, level)
<1> DEFINE above == Above(ls, level)
<1> USE DEF Above
<1>1. Heads(ls) \subseteq 1..Len(ls) /\ Len(ls) \in Nat /\ OpenHeads(ls) \subseteq Heads(ls)
  BY DEF Heads, OpenHeads
<1>2. \A k \in Heads(ls) : ls[k].level \in Nat
  BY HeadsHaveLevels
<1>3. \A g \in above : g <= h
  BY <1>1, <1>2 DEF OpenHeads
<1>4. ASSUME NEW g \in above PROVE g \in Lineage(ls, h)
  BY <1>1, <1>2, <1>3 DEF OpenHeads, Lineage
<1>5. ASSUME NEW g \in Lineage(ls, h) PROVE g \in above
  <2>1. g \in Heads(ls) /\ h \in Heads(ls) /\ g <= h /\ g \in Nat /\ h \in Nat
    BY <1>1 DEF Lineage
  <2>2. g < h => ls[h].level > ls[g].level
    BY <2>1 DEF Lineage
  <2>3. ls[g].level <= ls[h].level
    BY <1>2, <2>1, <2>2
  <2>4. ls[g].level < level
    BY <1>2, <2>1, <2>3
  <2>5. ASSUME NEW f \in Heads(ls), g < f PROVE ls[f].level > ls[g].level
    <3>1. f \in Nat
      BY <1>1
    <3>2. CASE f <= h
      BY <2>1, <2>5, <3>2 DEF Lineage
    <3>3. CASE h < f
      <4>1. ls[f].level > ls[h].level
        BY <3>3 DEF OpenHeads
      <4>2. ls[f].level \in Nat /\ ls[g].level \in Nat /\ ls[h].level \in Nat
        BY <1>2, <2>1
      <4>3. QED
        BY <2>3, <4>1, <4>2
    <3>4. QED
      BY <2>1, <3>1, <3>2, <3>3
  <2>6. QED
    BY <2>1, <2>4, <2>5 DEF OpenHeads
<1>6. QED
  BY <1>4, <1>5

LEMMA NewScore ==
    ASSUME NEW ls, NEW ns, NEW line, Extends(ls, ns, line), line.t = "heading",
           NEW verdicts, Inherits(ls, verdicts),
           NEW open, open = [level \in {l \in DOMAIN verdicts : l < line.level} |-> verdicts[level]]
    PROVE  ScoredFor(line, open) = IsScored(ns, Len(ls) + 1)
<1> DEFINE n == Len(ls)
           above == Above(ls, line.level)
           levels == {l \in DOMAIN open : l < line.level}
           telling(l, hs) == {g \in hs : l[g].topic # "plain"}
<1>1. /\ n \in Nat /\ Heads(ls) \subseteq 1..n
      /\ OpenHeads(ls) \subseteq Heads(ls) /\ above \subseteq OpenHeads(ls)
  BY HeadsGrow, OneMoreLine DEF OpenHeads, Above
<1>2. ns[n + 1] = line /\ \A k \in Heads(ls) : ns[k] = ls[k]
  BY <1>1, OneMoreLine
<1>3. ls \in Seq(Line) /\ line \in Line
  BY DEF Extends
<1>4. line.level \in Nat /\ line.topic \in {"numbered", "informational", "scored", "plain"}
  BY <1>3, HeadingsHaveLevels
<1>5. \A k \in Heads(ls) : ls[k].level \in 1..6
  BY <1>3, HeadsHaveLevels
<1>6. Lineage(ns, n + 1) = above \cup {n + 1}
  BY NewLineage
<1>7. IsScored(ns, n + 1) = LET t == telling(ns, above \cup {n + 1})
                            IN  t # {} /\ ns[Max(t)].topic # "informational"
  BY <1>6 DEF IsScored
<1>8. levels = {ls[g].level : g \in above}
  BY DEF Inherits, Above
<1>9. CASE line.topic # "plain"
  <2> DEFINE t == telling(ns, above \cup {n + 1})
  <2>1. n + 1 \in t /\ t \in SUBSET Nat /\ \A x \in t : n + 1 >= x
    BY <1>1, <1>2, <1>9
  <2>2. Max(t) = n + 1
    <3> HIDE DEF t, n
    <3> QED
      BY <2>1, GreatestIs
  <2>3. IsScored(ns, n + 1) = (line.topic # "informational")
    <3> HIDE DEF n
    <3> QED
      BY <1>2, <1>7, <2>1, <2>2
  <2>4. ScoredFor(line, open) = (line.topic # "informational")
    BY <1>4, <1>9 DEF ScoredFor
  <2>5. QED
    BY <2>3, <2>4
<1>10. CASE line.topic = "plain"
  <2>1. telling(ns, above \cup {n + 1}) = telling(ls, above)
    BY <1>1, <1>2, <1>10
  <2>2. ScoredFor(line, open) = (levels # {} /\ open[Max(levels)])
    BY <1>10 DEF ScoredFor
  <2>3. CASE above = {}
    <3>1. levels = {} /\ telling(ls, above) = {}
      BY <1>8, <2>3
    <3> HIDE DEF levels, telling, above
    <3>2. QED
      BY <1>7, <2>1, <2>2, <3>1
  <2>4. CASE above # {}
    <3>1. levels \in SUBSET Nat /\ levels # {} /\ \A x \in levels : x <= 6
      <4>1. \A g \in above : ls[g].level \in 1..6
        BY <1>1, <1>5
      <4> HIDE DEF levels, above
      <4>2. QED
        BY <1>8, <2>4, <4>1
    <3>2. Max(levels) \in levels /\ \A x \in levels : Max(levels) >= x
      <4> HIDE DEF levels
      <4> QED
        BY <3>1, GreatestLine
    <3>3. PICK h \in above : ls[h].level = Max(levels)
      <4> HIDE DEF levels
      <4> QED
        BY <1>8, <3>2
    <3>4. \A g \in above : ls[g].level <= ls[h].level
      <4>1. \A g \in above : ls[g].level \in levels /\ ls[g].level \in Nat
        BY <1>1, <1>5, <1>8
      <4> HIDE DEF levels, above
      <4>2. QED
        BY <3>2, <3>3, <4>1
    <3>5. Lineage(ls, h) = above
      BY <1>3, <1>4, <3>4, ParentLineage
    <3>6. open[Max(levels)] = IsScored(ls, h)
      <4>1. Max(levels) \in DOMAIN open /\ h \in OpenHeads(ls)
        BY <1>1, <3>2
      <4>2. open[Max(levels)] = verdicts[Max(levels)]
        <5> HIDE DEF levels
        <5> QED
          BY <4>1
      <4>3. QED
        BY <3>3, <4>1, <4>2 DEF Inherits
    <3>7. IsScored(ls, h) = (/\ telling(ls, above) # {}
                             /\ ls[Max(telling(ls, above))].topic # "informational")
      BY <3>5 DEF IsScored
    <3>8. telling(ls, above) # {} => ns[Max(telling(ls, above))] = ls[Max(telling(ls, above))]
      <4>1. SUFFICES ASSUME telling(ls, above) # {}
                     PROVE  Max(telling(ls, above)) \in Heads(ls)
        BY <1>2
      <4>2. telling(ls, above) \in SUBSET Nat /\ \A x \in telling(ls, above) : x <= n /\ x \in Heads(ls)
        BY <1>1
      <4> HIDE DEF telling, above, n
      <4>3. Max(telling(ls, above)) \in telling(ls, above)
        BY <1>1, <4>1, <4>2, GreatestLine
      <4>4. QED
        BY <4>2, <4>3
    <3> HIDE DEF telling, above, levels, n
    <3>9. QED
      BY <1>7, <2>1, <2>2, <3>1, <3>6, <3>7, <3>8 DEF n
  <2>5. QED
    BY <2>3, <2>4
<1>11. QED
  BY <1>9, <1>10

LEMMA VerdictsStay ==
    ASSUME NEW ls, NEW ns, NEW line, Extends(ls, ns, line), line.t # "heading",
           NEW verdicts, Inherits(ls, verdicts)
    PROVE  Inherits(ns, verdicts)
<1>1. Heads(ns) = Heads(ls) /\ Heads(ls) \subseteq 1..Len(ls)
  BY HeadsGrow
<1>2. \A k \in Heads(ls) : ns[k] = ls[k] /\ IsScored(ns, k) = IsScored(ls, k)
  BY <1>1, OneMoreLine, ScoresStay
<1>3. OpenHeads(ns) = OpenHeads(ls) /\ OpenHeads(ls) \subseteq Heads(ls)
  BY <1>1, <1>2 DEF OpenHeads
<1>4. QED
  BY <1>2, <1>3 DEF Inherits

LEMMA VerdictsGrow ==
    ASSUME NEW ls, NEW ns, NEW line, Extends(ls, ns, line), line.t = "heading",
           NEW verdicts, Inherits(ls, verdicts),
           NEW open, open = [level \in {l \in DOMAIN verdicts : l < line.level} |-> verdicts[level]],
           NEW scored, scored = ScoredFor(line, open)
    PROVE  Inherits(ns, [level \in DOMAIN open \cup {line.level} |->
                            IF level = line.level THEN scored ELSE open[level]])
<1> DEFINE n == Len(ls)
           above == Above(ls, line.level)
           after == [level \in DOMAIN open \cup {line.level} |->
                        IF level = line.level THEN scored ELSE open[level]]
<1>1. /\ n \in Nat /\ Heads(ls) \subseteq 1..n
      /\ OpenHeads(ls) \subseteq Heads(ls) /\ above \subseteq OpenHeads(ls)
  BY HeadsGrow, OneMoreLine DEF OpenHeads, Above
<1>2. ns[n + 1] = line /\ \A k \in Heads(ls) : ns[k] = ls[k] /\ IsScored(ns, k) = IsScored(ls, k)
  BY <1>1, OneMoreLine, ScoresStay
<1>3. OpenHeads(ns) = above \cup {n + 1}
  BY NewLineage
<1>4. scored = IsScored(ns, n + 1)
  BY NewScore
<1>5. DOMAIN open = {ls[g].level : g \in above}
  BY DEF Inherits, Above
<1>6. DOMAIN after = {ns[g].level : g \in OpenHeads(ns)}
  BY <1>1, <1>2, <1>3, <1>5
<1>7. ASSUME NEW g \in above PROVE after[ns[g].level] = IsScored(ns, g)
  <2>1. ls[g].level \in Nat /\ line.level \in Nat /\ ls[g].level < line.level
    BY <1>1, HeadsHaveLevels, HeadingsHaveLevels DEF Extends, Above
  <2>2. ls[g].level \in DOMAIN open /\ ls[g].level # line.level
    BY <1>5, <2>1
  <2>3. after[ls[g].level] = verdicts[ls[g].level]
    BY <2>2
  <2>4. QED
    BY <1>1, <1>2, <2>3 DEF Inherits
<1>8. after[ns[n + 1].level] = IsScored(ns, n + 1)
  BY <1>2, <1>4
<1>9. QED
  BY <1>3, <1>6, <1>7, <1>8 DEF Inherits
-----------------------------------------------------------------------------
(* Sections and their tables.                                                   *)

SectionRecord ==
    [heading : Nat, scored : BOOLEAN, bullets : SUBSET Nat, body : SUBSET Nat,
     tables : Seq([header : Nat, rows : SUBSET Nat])]

\* Row k is under a header and holds something.
Says(ls, k) ==
    ls[k].t = "row" /\ HeaderOf(ls, k) # k /\ (ls[k].key \/ ls[k].value)

\* The tables ts are made of the lines ks.
TablesOf(ls, ts, ks) ==
    /\ \A j \in DOMAIN ts : \A k \in ts[j].rows :
          k \in ks /\ Says(ls, k) /\ ts[j].header = HeaderOf(ls, k)
    /\ \A k \in ks : Says(ls, k) => \E j \in DOMAIN ts : k \in ts[j].rows
    /\ \A i, j \in DOMAIN ts : \A k \in ts[i].rows : k \in ts[j].rows => i = j

Kept(ls, h, kind) == {k \in Section(ls, h) : ls[k].t = kind}

Rows(ls, h) == {k \in Section(ls, h) : Tabular(ls[k])}

\* What stands at the end of the document without another line in between.
LastTable(ls) == {k \in 1..Len(ls) : \A i \in k..Len(ls) : Tabular(ls[i])}

\* Section s holds what stands under its heading.
Whole(ls, s) ==
    /\ s \in SectionRecord /\ s.heading \in Heads(ls)
    /\ s.scored = IsScored(ls, s.heading)
    /\ s.bullets = Kept(ls, s.heading, "bullet")
    /\ s.body = Kept(ls, s.heading, "text")
    /\ TablesOf(ls, s.tables, Rows(ls, s.heading))

\* So does the open section s with the text and the table that are still kept apart.
Begun(ls, s, text, rows) ==
    /\ s \in SectionRecord /\ s.heading \in Heads(ls) /\ \A g \in Heads(ls) : g <= s.heading
    /\ s.scored = IsScored(ls, s.heading)
    /\ s.bullets = Kept(ls, s.heading, "bullet")
    /\ text = Kept(ls, s.heading, "text")
    /\ rows = LastTable(ls)
    /\ TablesOf(ls, s.tables, Rows(ls, s.heading) \ rows)

\* The header of the last table is its first row.
LEMMA LastTableHeader ==
    ASSUME NEW ls \in Seq(Line), NEW k \in LastTable(ls), ls[k].t = "row",
           NEW cells, cells = {j \in LastTable(ls) : ls[j].t = "row"}
    PROVE  /\ HeaderOf(ls, k) = Min(cells)
           /\ HeaderOf(ls, k) # k <=> \E j \in cells : j < k
<1> DEFINE n == Len(ls)
           starts == {j \in 1..k : ls[j].t = "row" /\ \A i \in j..k : Tabular(ls[i])}
           m == Min(cells)
<1>1. n \in Nat /\ k \in 1..n /\ k \in cells /\ cells \in SUBSET Nat /\ cells # {}
  BY DEF LastTable
<1>2. m \in cells /\ m \in Nat /\ \A x \in cells : m <= x
  BY <1>1, LeastLine
<1> HIDE DEF m
<1>3. m \in starts
  BY <1>1, <1>2 DEF LastTable
<1>4. ASSUME NEW x \in starts PROVE m <= x
  <2>1. \A i \in x..n : i \in x..k \/ i \in k..n
    BY <1>1
  <2>2. x \in cells
    BY <1>1, <2>1 DEF LastTable
  <2>3. QED
    BY <1>2, <2>2
<1>5. starts \in SUBSET Nat
  BY <1>1
<1> HIDE DEF starts
<1>6. Min(starts) = m
  BY <1>3, <1>4, <1>5, LeastIs
<1>7. HeaderOf(ls, k) = m
  BY <1>6 DEF HeaderOf, starts
<1>8. m # k <=> \E j \in cells : j < k
  <2>1. \A j \in cells : j \in Nat
    BY <1>1
  <2> HIDE DEF n
  <2>2. QED
    BY <1>1, <1>2, <2>1
<1>9. QED
  BY <1>7, <1>8 DEF m

LEMMA TablesStay ==
    ASSUME NEW ls, NEW ns, NEW line, Extends(ls, ns, line), NEW ts, NEW ks \in SUBSET (1..Len(ls)),
           TablesOf(ls, ts, ks)
    PROVE  TablesOf(ns, ts, ks)
<1>1. \A k \in ks : ns[k] = ls[k] /\ HeaderOf(ns, k) = HeaderOf(ls, k)
  BY OneMoreLine, HeadersStay
<1>2. \A k \in ks : Says(ns, k) <=> Says(ls, k)
  BY <1>1 DEF Says
<1>3. QED
  BY <1>1, <1>2 DEF TablesOf

\* A closed section stays what it is.
LEMMA WholeStays ==
    ASSUME NEW ls, NEW ns, NEW line, Extends(ls, ns, line), NEW s, Whole(ls, s),
           NEW g \in Heads(ns), s.heading < g
    PROVE  Whole(ns, s)
<1> DEFINE h == s.heading
<1>1. h \in Heads(ls) /\ h \in Heads(ns) /\ h \in 1..Len(ls)
  BY HeadsGrow DEF Whole
<1>2. Section(ns, h) = Section(ls, h)
  BY <1>1, SectionsStay
<1>3. Section(ls, h) \subseteq 1..Len(ls) /\ \A k \in Section(ls, h) : ns[k] = ls[k]
  BY OneMoreLine DEF Section
<1>4. IsScored(ns, h) = IsScored(ls, h)
  BY <1>1, ScoresStay
<1>5. \A kind : Kept(ns, h, kind) = Kept(ls, h, kind)
  BY <1>2, <1>3 DEF Kept
<1>6. Rows(ns, h) = Rows(ls, h) /\ Rows(ls, h) \in SUBSET (1..Len(ls))
  BY <1>2, <1>3 DEF Rows
<1>7. TablesOf(ns, s.tables, Rows(ns, h))
  BY <1>6, TablesStay DEF Whole
<1>8. QED
  BY <1>1, <1>4, <1>5, <1>7 DEF Whole

LEMMA LastTableGrows ==
    ASSUME NEW ls, NEW ns, NEW line, Extends(ls, ns, line)
    PROVE  LastTable(ns) = IF Tabular(line) THEN LastTable(ls) \cup {Len(ls) + 1} ELSE {}
<1> DEFINE n == Len(ls)
<1>1. n \in Nat /\ Len(ns) = n + 1 /\ ns[n + 1] = line /\ \A k \in 1..n : ns[k] = ls[k]
  BY OneMoreLine
<1> HIDE DEF n
<1>2. CASE Tabular(line)
  <2>1. \A k \in 1..n : k \in LastTable(ns) <=> k \in LastTable(ls)
    <3>1. ASSUME NEW k \in 1..n PROVE k \in LastTable(ns) <=> k \in LastTable(ls)
      <4>1. \A i \in k..(n + 1) : i \in k..n \/ i = n + 1
        BY <1>1
      <4>2. \A i \in k..n : i \in k..(n + 1) /\ ns[i] = ls[i]
        BY <1>1
      <4>3. n + 1 \in k..(n + 1)
        BY <1>1
      <4>4. QED
        BY <1>1, <1>2, <4>1, <4>2, <4>3 DEF LastTable, n
    <3>2. QED
      BY <3>1
  <2>2. n + 1 \in LastTable(ns)
    BY <1>1, <1>2 DEF LastTable
  <2>3. LastTable(ns) \subseteq 1..(n + 1) /\ LastTable(ls) \subseteq 1..n
    BY <1>1 DEF LastTable, n
  <2>4. \A k \in 1..(n + 1) : k \in 1..n \/ k = n + 1
    BY <1>1
  <2>5. QED
    BY <1>2, <2>1, <2>2, <2>3, <2>4 DEF n
<1>3. CASE ~ Tabular(line)
  <2>1. \A k \in 1..(n + 1) : n + 1 \in k..(n + 1)
    BY <1>1
  <2>2. QED
    BY <1>1, <1>3, <2>1 DEF LastTable
<1>4. QED
  BY <1>2, <1>3
-----------------------------------------------------------------------------
\* The open section with its table absorbed has all its tables.
LEMMA AbsorbedHasTables ==
    ASSUME lines \in Seq(Line), current # None, Begun(lines, current, body, table)
    PROVE  /\ Absorbed \in SectionRecord
           /\ Absorbed.heading = current.heading /\ Absorbed.scored = current.scored
           /\ Absorbed.bullets = current.bullets
           /\ TablesOf(lines, Absorbed.tables, Rows(lines, current.heading))
<1> DEFINE h == current.heading
           n == Len(lines)
           old == current.tables
           rows == Rows(lines, h)
           under == TableBody(table)
           last == [header |-> Min(Cells(table)), rows |-> under]
<1>1. /\ current \in SectionRecord /\ h \in Heads(lines) /\ table = LastTable(lines)
      /\ TablesOf(lines, old, rows \ table)
  BY DEF Begun
<1>2. Section(lines, h) = {k \in 1..n : h < k} /\ n \in Nat /\ h \in 1..n
  BY <1>1, LastSection DEF Begun, Heads
<1>3. table \subseteq rows
  <2>1. lines[h].t = "heading"
    BY <1>1 DEF Heads
  <2>2. ASSUME NEW k \in table PROVE k \in 1..n /\ h < k /\ Tabular(lines[k])
    <3>1. k \in 1..n /\ \A i \in k..n : Tabular(lines[i])
      BY <1>1 DEF LastTable
    <3>2. ~ (h \in k..n)
      BY <2>1, <3>1 DEF Tabular
    <3>3. QED
      BY <1>2, <3>1, <3>2
  <2>3. QED
    BY <1>2, <2>2 DEF Rows
<1>4. table \in SUBSET (1..n) /\ table \in SUBSET Nat
  BY <1>1, <1>2 DEF LastTable
<1>5. \A k \in table : Says(lines, k) <=> k \in under
  <2>1. SUFFICES ASSUME NEW k \in table, lines[k].t = "row"
                 PROVE  HeaderOf(lines, k) # k <=> \E j \in Cells(table) : j < k
    BY DEF Says, TableBody, Cells
  <2>2. Cells(table) = {j \in LastTable(lines) : lines[j].t = "row"}
    BY <1>1 DEF Cells
  <2>3. QED
    BY <1>1, <2>1, <2>2, LastTableHeader
<1>6. \A k \in under : k \in table /\ last.header = HeaderOf(lines, k)
  <2>1. Cells(table) = {j \in LastTable(lines) : lines[j].t = "row"}
    BY <1>1 DEF Cells
  <2>2. ASSUME NEW k \in under PROVE k \in table /\ lines[k].t = "row"
    BY DEF TableBody, Cells
  <2>3. ASSUME NEW k \in under PROVE HeaderOf(lines, k) = Min(Cells(table))
    BY <1>1, <2>1, <2>2, LastTableHeader
  <2>4. QED
    BY <2>2, <2>3
<1>7. CASE under = {}
  <2>1. Absorbed = current
    BY <1>7 DEF Absorbed
  <2>2. TablesOf(lines, old, rows)
    BY <1>1, <1>5, <1>7 DEF TablesOf
  <2>3. QED
    BY <1>1, <2>1, <2>2
<1>8. CASE under # {}
  <2> DEFINE new == Append(old, last)
  <2>1. Absorbed = [current EXCEPT !.tables = new]
    BY <1>8 DEF Absorbed
  <2>2. last \in [header : Nat, rows : SUBSET Nat]
    <3>1. Cells(table) \in SUBSET Nat /\ Cells(table) # {}
      BY <1>4, <1>8 DEF TableBody, Cells
    <3>2. Min(Cells(table)) \in Nat
      BY <3>1, LeastLine
    <3>3. under \in SUBSET Nat
      BY <1>4, <1>6
    <3>4. QED
      BY <3>2, <3>3
  <2>3. old \in Seq([header : Nat, rows : SUBSET Nat])
    BY <1>1 DEF SectionRecord
  <2> HIDE DEF last, old, under
  <2>4. /\ new \in Seq([header : Nat, rows : SUBSET Nat])
        /\ DOMAIN new = DOMAIN old \cup {Len(old) + 1} /\ Len(old) + 1 \notin DOMAIN old
        /\ new[Len(old) + 1] = last /\ \A j \in DOMAIN old : new[j] = old[j]
    BY <2>2, <2>3
  <2>5. last.rows = under
    BY DEF last
  <2> HIDE DEF new, rows
  <2>6. \A j \in DOMAIN new : \A k \in new[j].rows :
            k \in rows /\ Says(lines, k) /\ new[j].header = HeaderOf(lines, k)
    BY <1>1, <1>3, <1>5, <1>6, <2>4, <2>5 DEF TablesOf
  <2>7. \A k \in rows : Says(lines, k) => \E j \in DOMAIN new : k \in new[j].rows
    BY <1>1, <1>5, <2>4, <2>5 DEF TablesOf
  <2>8. \A j \in DOMAIN old : \A k \in old[j].rows : k \notin under
    BY <1>1, <1>6 DEF TablesOf
  <2>9. \A i, j \in DOMAIN new : \A k \in new[i].rows : k \in new[j].rows => i = j
    BY <1>1, <2>4, <2>5, <2>8 DEF TablesOf
  <2>10. TablesOf(lines, new, rows)
    BY <2>6, <2>7, <2>9 DEF TablesOf
  <2>11. QED
    BY <1>1, <2>1, <2>4, <2>10 DEF SectionRecord, rows
<1>9. QED
  BY <1>7, <1>8
-----------------------------------------------------------------------------
(* The invariant.                                                               *)

\* Sections that hold what stands under their headings, in the order of the document.
InOrder(ls, ss) ==
    /\ ss \in Seq(SectionRecord) /\ \A i \in DOMAIN ss : Whole(ls, ss[i])
    /\ \A i, j \in DOMAIN ss : i < j => ss[i].heading < ss[j].heading

\* Each heading has one.
Complete(ls, ss) == InOrder(ls, ss) /\ \A g \in Heads(ls) : \E i \in DOMAIN ss : ss[i].heading = g

NothingYet == Heads(lines) = {} /\ sections = << >> /\ body = {} /\ table = {}

\* Of the headings so far, the last is that of the open section.
Underway ==
    /\ Begun(lines, current, body, table)
    /\ InOrder(lines, sections)
    /\ \A i \in DOMAIN sections : sections[i].heading < current.heading
    /\ \A g \in Heads(lines) : g = current.heading \/ \E i \in DOMAIN sections : sections[i].heading = g

ParserInv ==
    /\ lines \in Seq(Line)
    /\ document = None => /\ Inherits(lines, inherited)
                          /\ current = None => NothingYet
                          /\ current # None => Underway
    /\ ParsesAsAnOutline

LEMMA LastSectionGrows ==
    ASSUME NEW ls, NEW ns, NEW line, Extends(ls, ns, line), line.t # "heading",
           NEW h \in Heads(ls), \A g \in Heads(ls) : g <= h
    PROVE  /\ h \in Heads(ns) /\ \A g \in Heads(ns) : g <= h
           /\ IsScored(ns, h) = IsScored(ls, h)
           /\ \A kind : Kept(ns, h, kind) = IF line.t = kind THEN Kept(ls, h, kind) \cup {Len(ls) + 1}
                                                             ELSE Kept(ls, h, kind)
           /\ Rows(ns, h) = IF Tabular(line) THEN Rows(ls, h) \cup {Len(ls) + 1} ELSE Rows(ls, h)
           /\ Rows(ls, h) \in SUBSET (1..Len(ls))
<1> DEFINE n == Len(ls)
<1>1. /\ n \in Nat /\ Len(ns) = n + 1 /\ ns[n + 1] = line /\ ns \in Seq(Line) /\ ls \in Seq(Line)
      /\ \A k \in 1..n : ns[k] = ls[k]
  BY OneMoreLine DEF Extends
<1>2. Heads(ns) = Heads(ls) /\ h \in 1..n
  BY HeadsGrow
<1>3. IsScored(ns, h) = IsScored(ls, h)
  BY <1>2, ScoresStay
<1>4. Section(ls, h) = {k \in 1..n : h < k}
  BY <1>1, LastSection
<1>5. Section(ns, h) = {k \in 1..(n + 1) : h < k}
  BY <1>1, <1>2, LastSection
<1> HIDE DEF n
<1>6. Section(ns, h) = Section(ls, h) \cup {n + 1} /\ Section(ls, h) \subseteq 1..n
  <2>1. \A k \in 1..(n + 1) : k \in 1..n \/ k = n + 1
    BY <1>1
  <2>2. n + 1 \in 1..(n + 1) /\ h < n + 1 /\ \A k \in 1..n : k \in 1..(n + 1)
    BY <1>1, <1>2
  <2>3. QED
    BY <1>4, <1>5, <2>1, <2>2
<1>7. ASSUME NEW kind
      PROVE  Kept(ns, h, kind) = IF line.t = kind THEN Kept(ls, h, kind) \cup {n + 1}
                                                  ELSE Kept(ls, h, kind)
  BY <1>1, <1>6 DEF Kept
<1>8. Rows(ns, h) = IF Tabular(line) THEN Rows(ls, h) \cup {n + 1} ELSE Rows(ls, h)
  BY <1>1, <1>6 DEF Rows
<1>9. Rows(ls, h) \in SUBSET (1..n)
  BY <1>6 DEF Rows
<1>10. QED
  BY <1>2, <1>3, <1>7, <1>8, <1>9 DEF n

LEMMA OthersStay ==
    ASSUME NEW ls, NEW ns, NEW line, Extends(ls, ns, line), NEW ss, InOrder(ls, ss),
           NEW g \in Heads(ns), \A i \in DOMAIN ss : ss[i].heading < g
    PROVE  InOrder(ns, ss)
<1>1. \A i \in DOMAIN ss : Whole(ns, ss[i])
  BY WholeStays DEF InOrder
<1>2. QED
  BY <1>1 DEF InOrder

LEMMA RecordIsSome ==
    ASSUME NEW s \in SectionRecord
    PROVE  s # None
<1>1. DOMAIN s = {"heading", "scored", "bullets", "body", "tables"}
  BY DEF SectionRecord
<1>2. DOMAIN << >> = {}
  OBVIOUS
<1>3. QED
  BY <1>1, <1>2 DEF None

LEMMA FlushedIsComplete ==
    ASSUME ParserInv, document = None
    PROVE  Complete(lines, Flushed)
<1>1. CASE current = None
  BY <1>1 DEF ParserInv, NothingYet, Flushed, Complete, InOrder
<1>2. CASE current # None
  <2> DEFINE s == [Absorbed EXCEPT !.body = body]
             n == Len(sections)
  <2>1. /\ lines \in Seq(Line) /\ Begun(lines, current, body, table) /\ InOrder(lines, sections)
        /\ \A i \in DOMAIN sections : sections[i].heading < current.heading
        /\ \A g \in Heads(lines) : g = current.heading \/ \E i \in DOMAIN sections : sections[i].heading = g
    BY <1>2 DEF ParserInv, Underway
  <2>2. /\ Absorbed \in SectionRecord
        /\ Absorbed.heading = current.heading /\ Absorbed.scored = current.scored
        /\ Absorbed.bullets = current.bullets
        /\ TablesOf(lines, Absorbed.tables, Rows(lines, current.heading))
    BY <1>2, <2>1, AbsorbedHasTables
  <2>3. body \in SUBSET Nat /\ body = Kept(lines, current.heading, "text")
    BY <2>1 DEF Begun, Kept, Section
  <2>4. /\ s \in SectionRecord /\ s.heading = current.heading /\ s.scored = current.scored
        /\ s.bullets = current.bullets /\ s.body = body /\ s.tables = Absorbed.tables
    BY <2>2, <2>3 DEF SectionRecord
  <2> HIDE DEF s
  <2>5. Whole(lines, s)
    BY <2>1, <2>2, <2>3, <2>4 DEF Whole, Begun
  <2>6. Flushed = Append(sections, s)
    BY <1>2 DEF Flushed, s
  <2>7. sections \in Seq(SectionRecord)
    BY <2>1 DEF InOrder
  <2>8. /\ Flushed \in Seq(SectionRecord) /\ DOMAIN sections = 1..n /\ n \in Nat
        /\ DOMAIN Flushed = 1..(n + 1) /\ Flushed[n + 1] = s
        /\ \A i \in 1..n : Flushed[i] = sections[i]
    BY <2>4, <2>6, <2>7
  <2> HIDE DEF n
  <2>9. \A i \in DOMAIN Flushed : i \in 1..n \/ i = n + 1
    BY <2>8
  <2>10. \A i \in DOMAIN Flushed : Whole(lines, Flushed[i])
    BY <2>1, <2>5, <2>8, <2>9 DEF InOrder
  <2>11. ASSUME NEW i \in DOMAIN Flushed, NEW j \in DOMAIN Flushed, i < j
         PROVE  Flushed[i].heading < Flushed[j].heading
    <3>1. i \in 1..n
      BY <2>8, <2>11
    <3>2. CASE j \in 1..n
      BY <2>1, <2>8, <2>11, <3>1, <3>2 DEF InOrder
    <3>3. CASE j = n + 1
      BY <2>1, <2>4, <2>8, <3>1, <3>3
    <3>4. QED
      BY <2>9, <3>2, <3>3
  <2>12. ASSUME NEW g \in Heads(lines) PROVE \E i \in DOMAIN Flushed : Flushed[i].heading = g
    <3>1. CASE g = current.heading
      BY <2>4, <2>8, <3>1
    <3>2. CASE g # current.heading
      <4>1. PICK i \in DOMAIN sections : sections[i].heading = g
        BY <2>1, <3>2
      <4>2. i \in DOMAIN Flushed
        BY <2>8
      <4>3. QED
        BY <2>8, <4>1, <4>2
    <3>3. QED
      BY <3>1, <3>2
  <2>13. QED
    BY <2>8, <2>10, <2>11, <2>12 DEF Complete, InOrder
<1>3. QED
  BY <1>1, <1>2
-----------------------------------------------------------------------------
\* A step that reads a line appends it.
LEMMA ReadingExtends ==
    ASSUME ParserInv, NEW line \in Line, Reading(line)
    PROVE  Extends(lines, lines', line) /\ document = None /\ document' = None
BY DEF ParserInv, Reading, Extends

LEMMA ParserInitEstablishes == ParserInit => ParserInv
<1> SUFFICES ASSUME ParserInit PROVE ParserInv
  OBVIOUS
<1> USE DEF ParserInit
<1>1. lines \in Seq(Line) /\ Heads(lines) = {}
  BY DEF Heads
<1>2. OpenHeads(lines) = {}
  BY <1>1 DEF OpenHeads
<1>3. Inherits(lines, inherited)
  BY <1>2 DEF Inherits
<1>4. NothingYet
  BY <1>1 DEF NothingYet
<1>5. ParsesAsAnOutline
  BY DEF ParsesAsAnOutline
<1>6. QED
  BY <1>1, <1>3, <1>4, <1>5 DEF ParserInv

LEMMA HeadingPreserves == ASSUME ParserInv, NEW line \in Line, Heading(line) PROVE ParserInv'
<1> DEFINE n == Len(lines)
           open == [level \in StillOpen(line.level) |-> inherited[level]]
           scored == ScoredFor(line, open)
<1>1. line.t = "heading" /\ Reading(line)
  BY DEF Heading
<1>2. Extends(lines, lines', line) /\ document = None /\ document' = None
  BY <1>1, ReadingExtends
<1>3. /\ n \in Nat /\ lines' \in Seq(Line) /\ Heads(lines') = Heads(lines) \cup {n + 1}
      /\ Heads(lines) \subseteq 1..n
  BY <1>1, <1>2, OneMoreLine, HeadsGrow
<1>4. Inherits(lines, inherited)
  BY <1>2 DEF ParserInv
<1>5. open = [level \in {l \in DOMAIN inherited : l < line.level} |-> inherited[level]]
  BY DEF StillOpen
<1>6. scored = IsScored(lines', n + 1)
  BY <1>1, <1>2, <1>4, <1>5, NewScore
<1>7. Inherits(lines', inherited')
  <2>1. inherited' = [level \in DOMAIN open \cup {line.level} |->
                         IF level = line.level THEN scored ELSE open[level]]
    BY DEF Heading
  <2>2. Inherits(lines', [level \in DOMAIN open \cup {line.level} |->
                             IF level = line.level THEN scored ELSE open[level]])
    <3> HIDE DEF open, scored
    <3>1. scored = ScoredFor(line, open)
      BY DEF scored
    <3>2. QED
      BY <1>1, <1>2, <1>4, <1>5, <3>1, VerdictsGrow
  <2>3. QED
    BY <2>1, <2>2
<1>8. /\ current' = [heading |-> n + 1, scored |-> scored, bullets |-> {}, body |-> {}, tables |-> << >>]
      /\ body' = {} /\ table' = {} /\ sections' = Flushed
  BY DEF Heading
<1> HIDE DEF n, open, scored
<1>9. /\ current' \in SectionRecord /\ current'.heading = n + 1 /\ current'.bullets = {}
      /\ current'.tables = << >> /\ current'.scored = IsScored(lines', n + 1)
  <2>1. IsScored(lines', n + 1) \in BOOLEAN
    BY DEF IsScored
  <2>2. << >> \in Seq([header : Nat, rows : SUBSET Nat])
    OBVIOUS
  <2>3. QED
    BY <1>3, <1>6, <1>8, <2>1, <2>2 DEF SectionRecord
<1>10. n + 1 \in Heads(lines') /\ \A g \in Heads(lines') : g <= n + 1
  BY <1>3
<1>11. Begun(lines', current', body', table')
  <2>1. Section(lines', n + 1) = {}
    <3>1. Section(lines', n + 1) = {k \in 1..Len(lines') : n + 1 < k}
      BY <1>3, <1>10, LastSection
    <3>2. Len(lines') = n + 1
      BY <1>2, OneMoreLine DEF n
    <3>3. QED
      BY <1>3, <3>1, <3>2
  <2>2. \A kind : Kept(lines', n + 1, kind) = {}
    BY <2>1 DEF Kept
  <2>3. LastTable(lines') = {}
    BY <1>1, <1>2, LastTableGrows DEF Tabular
  <2>4. TablesOf(lines', << >>, Rows(lines', n + 1) \ {})
    BY <2>1 DEF TablesOf, Rows
  <2>5. QED
    BY <1>8, <1>9, <1>10, <2>2, <2>3, <2>4 DEF Begun
<1>12. Complete(lines, sections')
  BY <1>2, <1>8, FlushedIsComplete
<1>13. \A i \in DOMAIN sections' : sections'[i].heading < n + 1
  BY <1>3, <1>12 DEF Complete, InOrder, Whole
<1>14. InOrder(lines', sections')
  BY <1>2, <1>10, <1>12, <1>13, OthersStay DEF Complete
<1>15. \A g \in Heads(lines') : g = n + 1 \/ \E i \in DOMAIN sections' : sections'[i].heading = g
  BY <1>3, <1>12 DEF Complete
<1>16. Underway'
  BY <1>9, <1>11, <1>13, <1>14, <1>15 DEF Underway
<1>17. current' # None
  BY <1>9, RecordIsSome
<1>18. QED
  BY <1>2, <1>3, <1>7, <1>16, <1>17 DEF ParserInv, ParsesAsAnOutline

LEMMA PreamblePreserves == ASSUME ParserInv, NEW line \in Line, Preamble(line) PROVE ParserInv'
<1>1. /\ line.t # "heading" /\ current = None /\ Reading(line)
      /\ UNCHANGED << current, body, table, inherited, sections >>
  BY DEF Preamble
<1>2. Extends(lines, lines', line) /\ document = None /\ document' = None
  BY <1>1, ReadingExtends
<1>3. Heads(lines') = Heads(lines) /\ lines' \in Seq(Line)
  BY <1>1, <1>2, HeadsGrow, OneMoreLine
<1>4. Inherits(lines', inherited')
  <2>1. Inherits(lines', inherited)
    BY <1>1, <1>2, VerdictsStay DEF ParserInv
  <2>2. QED
    BY <1>1, <2>1
<1>5. NothingYet'
  BY <1>1, <1>2, <1>3 DEF ParserInv, NothingYet
<1>6. QED
  BY <1>1, <1>2, <1>3, <1>4, <1>5 DEF ParserInv, ParsesAsAnOutline

\* A line under a heading extends the last section alone.
LEMMA SectionGoesOn ==
    ASSUME ParserInv, NEW line \in Line, Reading(line), line.t # "heading", current # None,
           UNCHANGED << inherited, sections >>, current'.heading = current.heading,
           Begun(lines', current', body', table')
    PROVE  ParserInv'
<1>1. Extends(lines, lines', line) /\ document = None /\ document' = None
  BY ReadingExtends
<1>2. Underway /\ Inherits(lines, inherited)
  BY <1>1 DEF ParserInv
<1>3. Heads(lines') = Heads(lines) /\ lines' \in Seq(Line)
  BY <1>1, HeadsGrow, OneMoreLine
<1>4. Inherits(lines', inherited')
  <2>1. Inherits(lines', inherited)
    BY <1>1, <1>2, VerdictsStay
  <2>2. QED
    BY <2>1
<1>5. InOrder(lines', sections')
  <2>1. current.heading \in Heads(lines')
    BY <1>2, <1>3 DEF Underway, Begun
  <2>2. InOrder(lines', sections)
    BY <1>1, <1>2, <2>1, OthersStay DEF Underway
  <2>3. QED
    BY <2>2
<1>6. Underway'
  BY <1>2, <1>3, <1>5 DEF Underway
<1>7. current' # None
  BY RecordIsSome DEF Begun
<1>8. QED
  BY <1>1, <1>3, <1>4, <1>6, <1>7 DEF ParserInv, ParsesAsAnOutline

LEMMA TableRowPreserves == ASSUME ParserInv, NEW line \in Line, TableRow(line) PROVE ParserInv'
<1> DEFINE n == Len(lines)
           h == current.heading
<1>1. /\ Tabular(line) /\ current # None /\ Reading(line) /\ table' = table \cup {n + 1}
      /\ UNCHANGED << current, body, inherited, sections >>
  BY DEF TableRow
<1>2. line.t \notin {"heading", "bullet", "text"}
  BY <1>1 DEF Tabular
<1>3. Extends(lines, lines', line) /\ document = None /\ document' = None
  BY <1>1, ReadingExtends
<1>4. Begun(lines, current, body, table)
  BY <1>1, <1>3 DEF ParserInv, Underway
<1>5. h \in Heads(lines) /\ \A g \in Heads(lines) : g <= h
  BY <1>4 DEF Begun
<1>6. /\ h \in Heads(lines') /\ \A g \in Heads(lines') : g <= h
      /\ IsScored(lines', h) = IsScored(lines, h)
      /\ \A kind : Kept(lines', h, kind) = IF line.t = kind THEN Kept(lines, h, kind) \cup {n + 1}
                                                            ELSE Kept(lines, h, kind)
      /\ Rows(lines', h) = Rows(lines, h) \cup {n + 1}
      /\ Rows(lines, h) \in SUBSET (1..n)
  <2> HIDE DEF h
  <2>1. QED
    BY <1>1, <1>2, <1>3, <1>5, LastSectionGrows
<1>7. table' = LastTable(lines')
  BY <1>1, <1>3, <1>4, LastTableGrows DEF Begun
<1>8. TablesOf(lines', current.tables, Rows(lines', h) \ table')
  <2>1. Rows(lines, h) \ table \in SUBSET (1..n)
    BY <1>6
  <2>2. TablesOf(lines', current.tables, Rows(lines, h) \ table)
    BY <1>3, <1>4, <2>1, TablesStay DEF Begun
  <2>3. n \in Nat
    BY <1>3, OneMoreLine
  <2>4. Rows(lines', h) \ table' = Rows(lines, h) \ table
    BY <1>1, <1>6, <2>3
  <2>5. QED
    BY <2>2, <2>4
<1>9. Begun(lines', current', body', table')
  BY <1>1, <1>2, <1>4, <1>6, <1>7, <1>8 DEF Begun
<1>10. QED
  BY <1>1, <1>2, <1>9, SectionGoesOn

\* What a line does to the open section that is no row: the table is absorbed first.
LEMMA AbsorbedGoesOn ==
    ASSUME ParserInv, NEW line \in Line, Reading(line), line.t # "heading", ~ Tabular(line),
           current # None
    PROVE  LET h == current.heading IN
           /\ Absorbed \in SectionRecord /\ Absorbed.heading = h
           /\ h \in Heads(lines') /\ \A g \in Heads(lines') : g <= h
           /\ Absorbed.scored = IsScored(lines', h)
           /\ Absorbed.bullets = Kept(lines, h, "bullet") /\ body = Kept(lines, h, "text")
           /\ \A kind : Kept(lines', h, kind) = IF line.t = kind
                                                THEN Kept(lines, h, kind) \cup {Len(lines) + 1}
                                                ELSE Kept(lines, h, kind)
           /\ LastTable(lines') = {}
           /\ TablesOf(lines', Absorbed.tables, Rows(lines', h) \ {})
<1> DEFINE h == current.heading
<1>1. Extends(lines, lines', line) /\ document = None
  BY ReadingExtends
<1>2. Begun(lines, current, body, table) /\ lines \in Seq(Line)
  BY <1>1 DEF ParserInv, Underway
<1>3. /\ Absorbed \in SectionRecord
      /\ Absorbed.heading = current.heading /\ Absorbed.scored = current.scored
      /\ Absorbed.bullets = current.bullets
      /\ TablesOf(lines, Absorbed.tables, Rows(lines, h))
  BY <1>2, AbsorbedHasTables
<1>4. h \in Heads(lines) /\ \A g \in Heads(lines) : g <= h
  BY <1>2 DEF Begun
<1>5. /\ h \in Heads(lines') /\ \A g \in Heads(lines') : g <= h
      /\ IsScored(lines', h) = IsScored(lines, h)
      /\ \A kind : Kept(lines', h, kind) = IF line.t = kind
                                           THEN Kept(lines, h, kind) \cup {Len(lines) + 1}
                                           ELSE Kept(lines, h, kind)
      /\ Rows(lines', h) = Rows(lines, h)
      /\ Rows(lines, h) \in SUBSET (1..Len(lines))
  <2> HIDE DEF h
  <2>1. QED
    BY <1>1, <1>4, LastSectionGrows
<1>6. LastTable(lines') = {}
  BY <1>1, LastTableGrows
<1>7. TablesOf(lines', Absorbed.tables, Rows(lines, h))
  BY <1>1, <1>3, <1>5, TablesStay
<1>8. Rows(lines', h) \ {} = Rows(lines, h)
  BY <1>5
<1>9. QED
  BY <1>2, <1>3, <1>5, <1>6, <1>7, <1>8 DEF Begun

LEMMA BulletPreserves == ASSUME ParserInv, NEW line \in Line, Bullet(line) PROVE ParserInv'
<1> DEFINE n == Len(lines)
           h == current.heading
           s == [Absorbed EXCEPT !.bullets = @ \cup {n + 1}]
<1>1. /\ line.t = "bullet" /\ current # None /\ Reading(line) /\ current' = s /\ table' = {}
      /\ UNCHANGED << body, inherited, sections >>
  BY DEF Bullet
<1>2. line.t # "heading" /\ line.t # "text" /\ ~ Tabular(line)
  BY <1>1 DEF Tabular
<1>3. /\ Absorbed \in SectionRecord /\ Absorbed.heading = h
      /\ h \in Heads(lines') /\ \A g \in Heads(lines') : g <= h
      /\ Absorbed.scored = IsScored(lines', h)
      /\ Absorbed.bullets = Kept(lines, h, "bullet") /\ body = Kept(lines, h, "text")
      /\ Kept(lines', h, "bullet") = Kept(lines, h, "bullet") \cup {n + 1}
      /\ Kept(lines', h, "text") = Kept(lines, h, "text")
      /\ LastTable(lines') = {}
      /\ TablesOf(lines', Absorbed.tables, Rows(lines', h) \ {})
  BY <1>1, <1>2, AbsorbedGoesOn
<1>4. n \in Nat
  BY <1>1, ReadingExtends, OneMoreLine
<1>5. /\ s \in SectionRecord /\ s.heading = h /\ s.scored = Absorbed.scored
      /\ s.bullets = Absorbed.bullets \cup {n + 1} /\ s.tables = Absorbed.tables
  <2> HIDE DEF n, h
  <2>1. Absorbed.bullets \in SUBSET Nat
    BY <1>3 DEF SectionRecord
  <2>2. QED
    BY <1>3, <1>4, <2>1 DEF SectionRecord
<1> HIDE DEF s
<1>6. Begun(lines', current', body', table')
  <2> HIDE DEF n, h
  <2>1. Begun(lines', s, body, {})
    BY <1>3, <1>5 DEF Begun
  <2>2. QED
    BY <1>1, <2>1
<1>7. QED
  BY <1>1, <1>2, <1>5, <1>6, SectionGoesOn

LEMMA TextPreserves == ASSUME ParserInv, NEW line \in Line, Text(line) PROVE ParserInv'
<1> DEFINE n == Len(lines)
           h == current.heading
<1>1. /\ line.t = "text" /\ current # None /\ Reading(line) /\ current' = Absorbed /\ table' = {}
      /\ body' = body \cup {n + 1} /\ UNCHANGED << inherited, sections >>
  BY DEF Text
<1>2. line.t # "heading" /\ line.t # "bullet" /\ ~ Tabular(line)
  BY <1>1 DEF Tabular
<1>3. /\ Absorbed \in SectionRecord /\ Absorbed.heading = h
      /\ h \in Heads(lines') /\ \A g \in Heads(lines') : g <= h
      /\ Absorbed.scored = IsScored(lines', h)
      /\ Absorbed.bullets = Kept(lines, h, "bullet") /\ body = Kept(lines, h, "text")
      /\ Kept(lines', h, "text") = Kept(lines, h, "text") \cup {n + 1}
      /\ Kept(lines', h, "bullet") = Kept(lines, h, "bullet")
      /\ LastTable(lines') = {}
      /\ TablesOf(lines', Absorbed.tables, Rows(lines', h) \ {})
  BY <1>1, <1>2, AbsorbedGoesOn
<1>4. Begun(lines', current', body', table')
  <2> HIDE DEF n, h
  <2>1. Begun(lines', Absorbed, body \cup {n + 1}, {})
    BY <1>3 DEF Begun
  <2>2. QED
    BY <1>1, <2>1
<1>5. QED
  BY <1>1, <1>2, <1>3, <1>4, SectionGoesOn
-----------------------------------------------------------------------------
(* The clauses.                                                                 *)

LEMMA ClauseFields ==
    ASSUME NEW i, NEW part, NEW k, NEW kind
    PROVE  Clause(i, part, k, kind).place[1] = i /\ Clause(i, part, k, kind).place[3] = k
BY DEF Clause

LEMMA BulletsSay ==
    ASSUME NEW h, NEW k \in Kept(lines, h, "bullet")
    PROVE  k \in LeafBullets(Kept(lines, h, "bullet")) /\ lines[k].said >= 2 <=> States(lines, k, h)
<1> DEFINE bullets == Kept(lines, h, "bullet")
<1>1. {j \in bullets : j > k} = {j \in Section(lines, h) : j > k /\ lines[j].t = "bullet"}
  BY DEF Kept
<1>2. k \in bullets /\ lines[k].t = "bullet"
  BY DEF Kept
<1> DEFINE later == {j \in bullets : j > k}
<1>3. k \in LeafBullets(bullets)
      <=> ~ (lines[k].intro /\ later # {} /\ Depth(lines[Min(later)]) > Depth(lines[k]))
  BY <1>2 DEF LeafBullets
<1>4. States(lines, k, h)
      <=> /\ lines[k].said >= 2
          /\ ~ (lines[k].intro /\ later # {} /\ Depth(lines[Min(later)]) > Depth(lines[k]))
  <2>1. later = {j \in Section(lines, h) : j > k /\ lines[j].t = "bullet"}
    BY <1>1
  <2> HIDE DEF later
  <2>2. QED
    BY <1>2, <2>1 DEF States
<1>5. QED
  BY <1>3, <1>4

LEMMA TextSays ==
    ASSUME NEW h, NEW k \in Kept(lines, h, "text")
    PROVE  k \in Statements(Kept(lines, h, "text")) /\ lines[k].said >= 2 <=> States(lines, k, h)
<1>1. lines[k].t = "text"
  BY DEF Kept
<1>2. QED
  BY <1>1 DEF Statements, States

\* A row of a table is a case or names a system, or yields nothing.
LEMMA RowsSay ==
    ASSUME NEW h, NEW t, NEW k \in t.rows, Says(lines, k), t.header = HeaderOf(lines, k)
    PROVE  k \in Cases(t) \/ k \in Systems(t) <=> States(lines, k, h)
<1>1. lines[k].t = "row" /\ HeaderOf(lines, k) # k
  BY DEF Says
<1>2. States(lines, k, h)
      <=> /\ lines[k].key
          /\ \/ lines[t.header].names = "system"
             \/ lines[t.header].names = "condition" /\ lines[k].value
  BY <1>1 DEF States
<1>3. QED
  BY <1>2 DEF Cases, Systems

\* What a section yields, by the lines that it stands for.
LEMMA SectionYields ==
    ASSUME NEW s, Whole(lines, s), NEW i, NEW heading, heading = lines[s.heading]
    PROVE  /\ \A c \in Clauses(i, Bullets, LeafBullets(s.bullets), heading) :
                 \E k \in Kept(lines, s.heading, "bullet") :
                     c = Clause(i, Bullets, k, Kind(lines[k], heading)) /\ States(lines, k, s.heading)
           /\ \A c \in Clauses(i, Body, Statements(s.body), heading) :
                 \E k \in Kept(lines, s.heading, "text") :
                     c = Clause(i, Body, k, Kind(lines[k], heading)) /\ States(lines, k, s.heading)
           /\ \A j \in DOMAIN s.tables : \A c \in TableClauses(i, j, s.tables[j], heading) :
                 \E k \in s.tables[j].rows :
                     /\ k \in Rows(lines, s.heading) /\ lines[k].t = "row" /\ States(lines, k, s.heading)
                     /\ c = Clause(i, Table(j), k, IF lines[HeaderOf(lines, k)].names = "condition"
                                                   THEN TableKind(heading) ELSE "integration")
<1> DEFINE h == s.heading
<1>1. s.bullets = Kept(lines, h, "bullet") /\ s.body = Kept(lines, h, "text")
  BY DEF Whole
<1>2. ASSUME NEW c \in Clauses(i, Bullets, LeafBullets(s.bullets), heading)
      PROVE  \E k \in Kept(lines, h, "bullet") :
                 c = Clause(i, Bullets, k, Kind(lines[k], heading)) /\ States(lines, k, h)
  <2>1. PICK k \in LeafBullets(s.bullets) :
            lines[k].said >= 2 /\ c = Clause(i, Bullets, k, Kind(lines[k], heading))
    BY DEF Clauses
  <2>2. k \in Kept(lines, h, "bullet")
    BY <1>1, <2>1 DEF LeafBullets
  <2>3. States(lines, k, h)
    BY <1>1, <2>1, <2>2, BulletsSay
  <2>4. QED
    BY <2>1, <2>2, <2>3
<1>3. ASSUME NEW c \in Clauses(i, Body, Statements(s.body), heading)
      PROVE  \E k \in Kept(lines, h, "text") :
                 c = Clause(i, Body, k, Kind(lines[k], heading)) /\ States(lines, k, h)
  <2>1. PICK k \in Statements(s.body) :
            lines[k].said >= 2 /\ c = Clause(i, Body, k, Kind(lines[k], heading))
    BY DEF Clauses
  <2>2. k \in Kept(lines, h, "text")
    BY <1>1, <2>1 DEF Statements
  <2>3. States(lines, k, h)
    BY <1>1, <2>1, <2>2, TextSays
  <2>4. QED
    BY <2>1, <2>2, <2>3
<1>4. ASSUME NEW j \in DOMAIN s.tables, NEW c \in TableClauses(i, j, s.tables[j], heading)
      PROVE  \E k \in s.tables[j].rows :
                 /\ k \in Rows(lines, h) /\ lines[k].t = "row" /\ States(lines, k, h)
                 /\ c = Clause(i, Table(j), k, IF lines[HeaderOf(lines, k)].names = "condition"
                                               THEN TableKind(heading) ELSE "integration")
  <2> DEFINE t == s.tables[j]
  <2>1. \A k \in t.rows : k \in Rows(lines, h) /\ Says(lines, k) /\ t.header = HeaderOf(lines, k)
    BY DEF Whole, TablesOf
  <2> HIDE DEF t
  <2>2. PICK k \in t.rows : \/ k \in Cases(t) /\ c = Clause(i, Table(j), k, TableKind(heading))
                            \/ k \in Systems(t) /\ c = Clause(i, Table(j), k, "integration")
    BY DEF TableClauses, Cases, Systems, t
  <2>3. States(lines, k, h) /\ lines[k].t = "row" /\ k \in Rows(lines, h) /\ t.header = HeaderOf(lines, k)
    <3>1. Says(lines, k) /\ t.header = HeaderOf(lines, k)
      BY <2>1
    <3>2. States(lines, k, h)
      BY <2>2, <3>1, RowsSay
    <3>3. QED
      BY <2>1, <3>1, <3>2 DEF Says
  <2>4. k \in Cases(t) => lines[t.header].names = "condition"
    BY DEF Cases
  <2>5. k \in Systems(t) => lines[t.header].names # "condition"
    BY DEF Systems
  <2>6. QED
    BY <2>2, <2>3, <2>4, <2>5 DEF t
<1>5. QED
  BY <1>2, <1>3, <1>4

LEMMA SectionStates ==
    ASSUME NEW s, Whole(lines, s), NEW i
    PROVE  /\ \A c \in SectionClauses(i, s) :
                 /\ c.place[1] = i /\ c.place[3] \in Section(lines, s.heading)
                 /\ States(lines, c.place[3], s.heading)
           /\ \A k \in Section(lines, s.heading) :
                 States(lines, k, s.heading) => \E c \in SectionClauses(i, s) : c.place[3] = k
           /\ \A c, d \in SectionClauses(i, s) : c.place[3] = d.place[3] => c = d
<1> DEFINE h == s.heading
           heading == lines[h]
           ofBullets == Clauses(i, Bullets, LeafBullets(s.bullets), heading)
           ofText == Clauses(i, Body, Statements(s.body), heading)
           ofTable(j) == TableClauses(i, j, s.tables[j], heading)
           kindOf(k) == IF lines[HeaderOf(lines, k)].names = "condition" THEN TableKind(heading)
                                                                         ELSE "integration"
<1>1. \A c : c \in SectionClauses(i, s)
             <=> c \in ofBullets \/ c \in ofText \/ \E j \in DOMAIN s.tables : c \in ofTable(j)
  BY DEF SectionClauses
<1>2. \A c \in ofBullets : \E k \in Section(lines, h) :
          /\ lines[k].t = "bullet" /\ c = Clause(i, Bullets, k, Kind(lines[k], heading))
          /\ States(lines, k, h)
  BY SectionYields DEF Kept
<1>3. \A c \in ofText : \E k \in Section(lines, h) :
          lines[k].t = "text" /\ c = Clause(i, Body, k, Kind(lines[k], heading)) /\ States(lines, k, h)
  BY SectionYields DEF Kept
<1>4. \A j \in DOMAIN s.tables : \A c \in ofTable(j) : \E k \in Section(lines, h) :
          /\ k \in s.tables[j].rows /\ lines[k].t = "row"
          /\ c = Clause(i, Table(j), k, kindOf(k)) /\ States(lines, k, h)
  <2>1. Rows(lines, h) \subseteq Section(lines, h)
    BY DEF Rows
  <2>2. QED
    BY <2>1, SectionYields
<1> HIDE DEF ofBullets, ofText, ofTable, kindOf, heading, h
<1>5. ASSUME NEW c \in SectionClauses(i, s)
      PROVE  c.place[1] = i /\ c.place[3] \in Section(lines, h) /\ States(lines, c.place[3], h)
  BY <1>1, <1>2, <1>3, <1>4, ClauseFields
<1>6. ASSUME NEW k \in Section(lines, h), States(lines, k, h)
      PROVE  \E c \in SectionClauses(i, s) : c.place[3] = k
  <2>1. CASE lines[k].t = "bullet"
    <3>1. k \in Kept(lines, h, "bullet") /\ s.bullets = Kept(lines, h, "bullet")
      BY <2>1 DEF Kept, Whole, h
    <3>2. k \in LeafBullets(s.bullets) /\ lines[k].said >= 2
      BY <1>6, <3>1, BulletsSay
    <3>3. Clause(i, Bullets, k, Kind(lines[k], heading)) \in ofBullets
      BY <3>2 DEF ofBullets, Clauses
    <3>4. QED
      BY <1>1, <3>3, ClauseFields
  <2>2. CASE lines[k].t = "text"
    <3>1. k \in Kept(lines, h, "text") /\ s.body = Kept(lines, h, "text")
      BY <2>2 DEF Kept, Whole, h
    <3>2. k \in Statements(s.body) /\ lines[k].said >= 2
      BY <1>6, <3>1, TextSays
    <3>3. Clause(i, Body, k, Kind(lines[k], heading)) \in ofText
      BY <3>2 DEF ofText, Clauses
    <3>4. QED
      BY <1>1, <3>3, ClauseFields
  <2>3. CASE lines[k].t = "row"
    <3>1. k \in Rows(lines, h)
      BY <2>3 DEF Rows, Tabular
    <3>2. Says(lines, k)
      BY <1>6, <2>3 DEF States, Says
    <3>3. PICK j \in DOMAIN s.tables : k \in s.tables[j].rows
      BY <3>1, <3>2 DEF Whole, TablesOf, h
    <3> DEFINE t == s.tables[j]
    <3>4. k \in t.rows /\ t.header = HeaderOf(lines, k)
      BY <3>3 DEF Whole, TablesOf
    <3> HIDE DEF t
    <3>5. k \in Cases(t) \/ k \in Systems(t)
      BY <1>6, <3>2, <3>4, RowsSay
    <3>6. PICK kind : Clause(i, Table(j), k, kind) \in TableClauses(i, j, t, heading)
      BY <3>5 DEF TableClauses
    <3>7. QED
      BY <1>1, <3>3, <3>6, ClauseFields DEF ofTable, t
  <2>4. CASE lines[k].t \notin {"bullet", "text", "row"}
    BY <1>6, <2>4 DEF States
  <2>5. QED
    BY <2>1, <2>2, <2>3, <2>4
<1>7. ASSUME NEW c \in SectionClauses(i, s), NEW d \in SectionClauses(i, s), c.place[3] = d.place[3]
      PROVE  c = d
  <2> DEFINE k == c.place[3]
  <2>1. \/ lines[k].t = "bullet" /\ c = Clause(i, Bullets, k, Kind(lines[k], heading))
        \/ lines[k].t = "text" /\ c = Clause(i, Body, k, Kind(lines[k], heading))
        \/ /\ lines[k].t = "row"
           /\ \E j \in DOMAIN s.tables : k \in s.tables[j].rows /\ c = Clause(i, Table(j), k, kindOf(k))
    BY <1>1, <1>2, <1>3, <1>4, ClauseFields
  <2>2. \/ lines[k].t = "bullet" /\ d = Clause(i, Bullets, k, Kind(lines[k], heading))
        \/ lines[k].t = "text" /\ d = Clause(i, Body, k, Kind(lines[k], heading))
        \/ /\ lines[k].t = "row"
           /\ \E j \in DOMAIN s.tables : k \in s.tables[j].rows /\ d = Clause(i, Table(j), k, kindOf(k))
    <3>1. k = d.place[3]
      BY <1>7
    <3> HIDE DEF k
    <3>2. QED
      BY <1>1, <1>2, <1>3, <1>4, <3>1, ClauseFields
  <2>3. \A j, m \in DOMAIN s.tables : k \in s.tables[j].rows /\ k \in s.tables[m].rows => j = m
    BY DEF Whole, TablesOf
  <2> HIDE DEF k
  <2>4. QED
    BY <2>1, <2>2, <2>3
<1>8. QED
  BY <1>5, <1>6, <1>7 DEF h
-----------------------------------------------------------------------------
LEMMA SectionsAreDisjoint ==
    ASSUME NEW ls \in Seq(Line), NEW g \in Heads(ls), NEW h \in Heads(ls),
           NEW k \in Section(ls, g), k \in Section(ls, h)
    PROVE  g = h
<1>1. g \in Nat /\ h \in Nat
  BY DEF Heads
<1>2. g < k /\ h < k /\ ~ (g < h /\ h <= k) /\ ~ (h < g /\ g <= k) /\ k \in Nat
  BY DEF Section
<1>3. QED
  BY <1>1, <1>2

\* As many sections as headings.
LEMMA SectionsAreCounted ==
    ASSUME NEW ls \in Seq(Line), NEW ss, Complete(ls, ss)
    PROVE  Len(ss) = Cardinality(Heads(ls))
<1> DEFINE n == Len(ss)
           f == [i \in 1..n |-> ss[i].heading]
<1>1. /\ ss \in Seq(SectionRecord) /\ n \in Nat /\ DOMAIN ss = 1..n
      /\ \A i \in 1..n : ss[i].heading \in Heads(ls)
      /\ \A g \in Heads(ls) : \E i \in 1..n : ss[i].heading = g
      /\ \A i, j \in 1..n : i < j => ss[i].heading < ss[j].heading
  BY DEF Complete, InOrder, Whole
<1>2. Heads(ls) \subseteq Nat
  BY DEF Heads
<1> HIDE DEF n
<1>3. f \in Surjection(1..n, Heads(ls))
  BY <1>1 DEF Surjection
<1>4. f \in Injection(1..n, Heads(ls))
  <2>1. ASSUME NEW i \in 1..n, NEW j \in 1..n, f[i] = f[j] PROVE i = j
    <3>1. f[i] \in Nat /\ f[j] \in Nat /\ i \in Nat /\ j \in Nat
      BY <1>1, <1>2
    <3>2. ~ (i < j) /\ ~ (j < i)
      BY <1>1, <2>1, <3>1
    <3>3. QED
      BY <3>1, <3>2
  <2>2. f \in [1..n -> Heads(ls)]
    BY <1>1
  <2> HIDE DEF f
  <2>3. QED
    BY <2>1, <2>2 DEF Injection, IsInjective
<1>5. f \in Bijection(1..n, Heads(ls))
  BY <1>3, <1>4 DEF Bijection
<1>6. IsFiniteSet(1..n) /\ Cardinality(1..n) = n
  BY <1>1, FS_Interval
<1>7. Cardinality(Heads(ls)) = Cardinality(1..n)
  <2> HIDE DEF f
  <2>1. QED
    BY <1>5, <1>6, FS_Bijection DEF ExistsBijection
<1>8. QED
  BY <1>6, <1>7 DEF n

\* Complete sections, and the clauses of those that are scored, are the outline.
LEMMA OutlineIsParsed ==
    ASSUME lines \in Seq(Line), NEW ss, Complete(lines, ss),
           NEW clauses,
           \A c : c \in clauses <=> \E i \in DOMAIN ss : ss[i].scored /\ c \in SectionClauses(i, ss[i])
    PROVE  /\ Len(ss) = Cardinality(Heads(lines))
           /\ \A i \in DOMAIN ss :
                 /\ ss[i].heading \in Heads(lines)
                 /\ i > 1 => ss[i - 1].heading < ss[i].heading
                 /\ ss[i].scored = IsScored(lines, ss[i].heading)
           /\ \A k \in DOMAIN lines :
                 (\E c \in clauses : c.place[3] = k) <=>
                    (\E h \in Heads(lines) :
                         IsScored(lines, h) /\ k \in Section(lines, h) /\ States(lines, k, h))
           /\ \A c, d \in clauses : c.place[3] = d.place[3] => c = d
<1>1. /\ ss \in Seq(SectionRecord)
      /\ \A i \in DOMAIN ss : /\ Whole(lines, ss[i]) /\ ss[i].heading \in Heads(lines)
                              /\ ss[i].scored = IsScored(lines, ss[i].heading)
      /\ \A i, j \in DOMAIN ss : i < j => ss[i].heading < ss[j].heading
      /\ \A g \in Heads(lines) : \E i \in DOMAIN ss : ss[i].heading = g
  BY DEF Complete, InOrder, Whole
<1>2. \A i \in DOMAIN ss : i > 1 => ss[i - 1].heading < ss[i].heading
  <2>1. ASSUME NEW i \in DOMAIN ss, i > 1 PROVE i - 1 \in DOMAIN ss /\ i - 1 < i
    BY <1>1, <2>1
  <2>2. QED
    BY <1>1, <2>1
<1>3. ASSUME NEW k \in DOMAIN lines, NEW c \in clauses, c.place[3] = k
      PROVE  \E h \in Heads(lines) : IsScored(lines, h) /\ k \in Section(lines, h) /\ States(lines, k, h)
  <2>1. PICK i \in DOMAIN ss : ss[i].scored /\ c \in SectionClauses(i, ss[i])
    OBVIOUS
  <2>2. Whole(lines, ss[i])
    BY <1>1
  <2>3. k \in Section(lines, ss[i].heading) /\ States(lines, k, ss[i].heading)
    BY <1>3, <2>1, <2>2, SectionStates
  <2>4. QED
    BY <1>1, <2>1, <2>3
<1>4. ASSUME NEW k \in DOMAIN lines, NEW h \in Heads(lines),
             IsScored(lines, h), k \in Section(lines, h), States(lines, k, h)
      PROVE  \E c \in clauses : c.place[3] = k
  <2>1. PICK i \in DOMAIN ss : ss[i].heading = h
    BY <1>1
  <2>2. Whole(lines, ss[i]) /\ ss[i].scored
    BY <1>1, <1>4, <2>1
  <2>3. k \in Section(lines, ss[i].heading) /\ States(lines, k, ss[i].heading)
    BY <1>4, <2>1
  <2>4. \E c \in SectionClauses(i, ss[i]) : c.place[3] = k
    <3> DEFINE s == ss[i]
    <3>1. Whole(lines, s) /\ k \in Section(lines, s.heading) /\ States(lines, k, s.heading)
      BY <2>2, <2>3
    <3> HIDE DEF s
    <3>2. \E c \in SectionClauses(i, s) : c.place[3] = k
      BY ONLY <3>1, SectionStates
    <3>3. QED
      BY <3>2 DEF s
  <2>5. QED
    BY <2>2, <2>4
<1>5. ASSUME NEW c \in clauses, NEW d \in clauses, c.place[3] = d.place[3] PROVE c = d
  <2>1. PICK i \in DOMAIN ss : ss[i].scored /\ c \in SectionClauses(i, ss[i])
    OBVIOUS
  <2>2. PICK j \in DOMAIN ss : ss[j].scored /\ d \in SectionClauses(j, ss[j])
    OBVIOUS
  <2> DEFINE k == c.place[3]
  <2>3. k \in Section(lines, ss[i].heading) /\ k \in Section(lines, ss[j].heading)
    <3>1. Whole(lines, ss[i]) /\ Whole(lines, ss[j])
      BY <1>1
    <3>2. c.place[3] \in Section(lines, ss[i].heading)
      BY <2>1, <3>1, SectionStates
    <3>3. d.place[3] \in Section(lines, ss[j].heading)
      BY <2>2, <3>1, SectionStates
    <3>4. QED
      BY <1>5, <3>2, <3>3
  <2>4. ss[i].heading = ss[j].heading
    <3> HIDE DEF k
    <3>1. QED
      BY <1>1, <2>3, SectionsAreDisjoint
  <2>5. i = j
    <3>1. i \in Nat /\ j \in Nat /\ ss[i].heading \in Nat
      <4>1. DOMAIN ss \subseteq Nat /\ ss[i] \in SectionRecord
        BY <1>1
      <4>2. QED
        BY <4>1 DEF SectionRecord
    <3>2. ~ (i < j) /\ ~ (j < i)
      BY <1>1, <2>4, <3>1
    <3>3. QED
      BY <3>1, <3>2
  <2>6. Whole(lines, ss[i]) /\ d \in SectionClauses(i, ss[i])
    BY <1>1, <2>2, <2>5
  <2>7. QED
    BY <1>5, <2>1, <2>6, SectionStates
<1>6. Len(ss) = Cardinality(Heads(lines))
  BY SectionsAreCounted
<1>7. QED
  BY <1>1, <1>2, <1>3, <1>4, <1>5, <1>6

LEMMA ParsePreserves == ParserInv /\ Parse => ParserInv'
<1> SUFFICES ASSUME ParserInv, Parse PROVE ParserInv'
  OBVIOUS
<1> DEFINE clauses == UNION {SectionClauses(i, Flushed[i]) : i \in {m \in DOMAIN Flushed : Flushed[m].scored}}
<1>1. /\ document = None /\ sections' = Flushed /\ lines' = lines
      /\ document'.clauses = clauses
  BY DEF Parse
<1>2. document' # None
  <2>1. DOMAIN document' = {"title", "clauses", "constraints"}
    BY DEF Parse
  <2>2. DOMAIN << >> = {}
    OBVIOUS
  <2>3. QED
    BY <2>1, <2>2 DEF None
<1>3. Complete(lines, Flushed) /\ lines \in Seq(Line)
  BY <1>1, FlushedIsComplete DEF ParserInv
<1>4. \A c : c \in clauses
             <=> \E i \in DOMAIN Flushed : Flushed[i].scored /\ c \in SectionClauses(i, Flushed[i])
  OBVIOUS
<1> HIDE DEF clauses
<1>5. /\ Len(Flushed) = Cardinality(Heads(lines))
      /\ \A i \in DOMAIN Flushed :
            /\ Flushed[i].heading \in Heads(lines)
            /\ i > 1 => Flushed[i - 1].heading < Flushed[i].heading
            /\ Flushed[i].scored = IsScored(lines, Flushed[i].heading)
      /\ \A k \in DOMAIN lines :
            (\E c \in clauses : c.place[3] = k) <=>
               (\E h \in Heads(lines) :
                    IsScored(lines, h) /\ k \in Section(lines, h) /\ States(lines, k, h))
      /\ \A c, d \in clauses : c.place[3] = d.place[3] => c = d
  BY <1>3, <1>4, OutlineIsParsed
<1>6. ParsesAsAnOutline'
  BY <1>1, <1>5 DEF ParsesAsAnOutline
<1>7. QED
  BY <1>1, <1>2, <1>3, <1>6 DEF ParserInv

LEMMA ParserNextPreserves == ParserInv /\ [ParserNext]_parservars => ParserInv'
<1> SUFFICES ASSUME ParserInv, [ParserNext]_parservars PROVE ParserInv'
  OBVIOUS
<1>1. ASSUME NEW line \in Line, Heading(line) PROVE ParserInv'
  BY <1>1, HeadingPreserves
<1>2. ASSUME NEW line \in Line, Preamble(line) PROVE ParserInv'
  BY <1>2, PreamblePreserves
<1>3. ASSUME NEW line \in Line, TableRow(line) PROVE ParserInv'
  BY <1>3, TableRowPreserves
<1>4. ASSUME NEW line \in Line, Bullet(line) PROVE ParserInv'
  BY <1>4, BulletPreserves
<1>5. ASSUME NEW line \in Line, Text(line) PROVE ParserInv'
  BY <1>5, TextPreserves
<1>6. CASE Parse
  BY <1>6, ParsePreserves
<1>7. CASE UNCHANGED parservars
  BY <1>7 DEF parservars, ParserInv, NothingYet, Underway, ParsesAsAnOutline
<1>8. QED
  BY <1>1, <1>2, <1>3, <1>4, <1>5, <1>6, <1>7 DEF ParserNext

\* Of every document, however long and however its headings are nested: each heading opens one
\* section that is scored as the outline says, and a line yields a clause, one, exactly when it
\* says something in a section that is scored (documents/markdown.py).
THEOREM OutlinesAreParsed == ParserSpec => []ParsesAsAnOutline
<1>1. ParserInv => ParsesAsAnOutline
  BY DEF ParserInv
<1>2. QED
  BY <1>1, ParserInitEstablishes, ParserNextPreserves, PTL DEF ParserSpec
=============================================================================
