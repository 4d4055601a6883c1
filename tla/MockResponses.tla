---------------------------- MODULE MockResponses ----------------------------
(***************************************************************************)
(* What a mock endpoint answers: the pure half of execution/mocks.py.       *)
(*                                                                         *)
(* A test is a record with the two lists of a WorkflowTest the registry     *)
(* reads: "mocks" (test.mocked_integrations) and "failures"                 *)
(* (test.failure_injections).  Bodies, headers and messages are abstracted; *)
(* a status, whether the answer is delayed and whether an injection caused  *)
(* it are what callers can tell apart.  Python's None is the empty sequence *)
(* and a present value the one-element sequence.                            *)
(***************************************************************************)
EXTENDS Naturals, Sequences

FailureType == {"timeout", "rate_limit", "http_500", "authorization",
                "unavailable", "malformed_output"}

\* _FAILURE_STATUS, the table a failure type is looked up in.
FailureStatus == [rate_limit    |-> 429, http_500    |-> 500,
                  authorization |-> 401, unavailable |-> 503]

\* A mock's status 0 stands for status_code = None.
MockIntegration(Node)  == [node : Node, status : Nat, error : BOOLEAN, slow : BOOLEAN]
FailureInjection(Node) == [node : Node, type : FailureType, occurrence : Nat]
TestSet(Node) == [mocks    : Seq(MockIntegration(Node)),
                  failures : Seq(FailureInjection(Node))]

\* An answer always has a status.
Response == [status : Nat \ {0}, delayed : BOOLEAN, raw : BOOLEAN]

\* What the HTTP handlers send when respond() returned None.
NotFound == [status |-> 404, delayed |-> FALSE, raw |-> FALSE]
-----------------------------------------------------------------------------
\* A mistake the code could have made, kept to show what notices it: an injection
\* that keeps firing after its attempt.
BugFiresFromThenOn(test, n, k) ==
    {i \in DOMAIN test.failures : /\ test.failures[i].node = n
                                  /\ test.failures[i].occurrence <= k}

\* Positions of the injections a test declares for one attempt on one node.
Declared(test, n, k) ==
    {i \in DOMAIN test.failures : /\ test.failures[i].node = n
                                  /\ test.failures[i].occurrence = k}

\* _injection_for over the grouped list: the first declared injection, if any.
InjectionFor(test, n, k) ==
    LET hits == Declared(test, n, k)
    IN  IF hits = {} THEN << >>
        ELSE << test.failures[CHOOSE i \in hits : \A j \in hits : i <= j] >>

\* The dict comprehension of open(): a later mock of a node replaces an earlier.
MockFor(test, n) ==
    LET hits == {i \in DOMAIN test.mocks : test.mocks[i].node = n}
    IN  IF hits = {} THEN << >>
        ELSE << test.mocks[CHOOSE i \in hits : \A j \in hits : i >= j] >>

InjectedResponse(type) ==
    [status  |-> IF type = "timeout" THEN 504
                 ELSE IF type = "malformed_output" THEN 200 ELSE FailureStatus[type],
     delayed |-> type = "timeout",
     raw     |-> type = "malformed_output"]

\* A mistake the code could have made: the default of a status that is not given is
\* forgotten.
BugStatusAsGiven(mock) ==
    [status |-> mock.status, delayed |-> mock.slow, raw |-> FALSE]

MockedResponse(mock) ==
    [status  |-> IF mock.status # 0 THEN mock.status
                 ELSE IF mock.error THEN 500 ELSE 200,
     delayed |-> mock.slow,
     raw     |-> FALSE]

\* _build_response: an injection wins over a mock, a mock over the bland success.
BuildResponse(injection, mock) ==
    IF injection # << >> THEN InjectedResponse(injection[1].type)
    ELSE IF mock # << >> THEN MockedResponse(mock[1])
    ELSE [status |-> 200, delayed |-> FALSE, raw |-> FALSE]
=============================================================================
