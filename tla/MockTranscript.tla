--------------------------- MODULE MockTranscript ----------------------------
(***************************************************************************)
(* What the mock registry promises, without locks, threads or logs: a run   *)
(* is a transcript of attempts, an attempt is numbered and answered in one  *)
(* step, the number is one more than the attempts already made on that node *)
(* in that run, and the answer is one the run's own test declares for that  *)
(* attempt.  MockRegistry implements this although it takes its lock twice  *)
(* per request and logs the call after the second.                          *)
(***************************************************************************)
EXTENDS MockResponses, FiniteSets

CONSTANTS Token,     \* run tokens
          Node,      \* integration nodes of the workflow under test
          Test,      \* the tests that may be run
          MaxRuns    \* bound: runs opened

VARIABLES registry,  \* token -> index of the open run, 0 when closed
          tests,     \* run -> the test it was opened with
          attempts   \* run -> the set of its attempts

tvars == << registry, tests, attempts >>

\* The answers a test allows to attempt k on node n.
Allowed(test, n, k) ==
    LET injected == {BuildResponse(<< test.failures[i] >>, << >>) : i \in Declared(test, n, k)}
        mocked   == {BuildResponse(<< >>, << test.mocks[i] >>) :
                        i \in {j \in DOMAIN test.mocks : test.mocks[j].node = n}}
    IN  IF injected # {} THEN injected
        ELSE IF mocked # {} THEN mocked
        ELSE {BuildResponse(<< >>, << >>)}

Made(r, n) == {a \in attempts[r] : a.node = n}

TInit == /\ registry = [t \in Token |-> 0]
         /\ tests = << >>
         /\ attempts = << >>

\* Opening gives a token a run with an empty transcript; any other registration
\* may lapse at that moment.
TOpen(t, test) ==
    /\ Len(tests) < MaxRuns
    /\ tests' = Append(tests, test)
    /\ attempts' = Append(attempts, {})
    /\ registry'[t] = Len(tests) + 1
    /\ registry' \in [Token -> 0..MaxRuns]
    /\ \A x \in Token \ {t} : registry'[x] \in {registry[x], 0}

TClose(t) == /\ registry' = [registry EXCEPT ![t] = 0]
             /\ UNCHANGED << tests, attempts >>

TServe(t, n) ==
    LET r == registry[t]
        k == Cardinality(Made(r, n)) + 1
    IN  /\ r # 0
        /\ \E answer \in Allowed(tests[r], n, k) :
               attempts' = [attempts EXCEPT ![r] =
                   @ \cup {[node |-> n, occurrence |-> k, status |-> answer.status,
                            error |-> Declared(tests[r], n, k) # {}]}]
        /\ UNCHANGED << registry, tests >>

TNext == \/ \E t \in Token, test \in Test : TOpen(t, test)
         \/ \E t \in Token : TClose(t)
         \/ \E t \in Token, n \in Node : TServe(t, n)

TSpec == TInit /\ [][TNext]_tvars
=============================================================================
