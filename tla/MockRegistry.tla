---------------------------- MODULE MockRegistry -----------------------------
(***************************************************************************)
(* execution/mocks.py MockRegistry with the request threads of              *)
(* execution/mock_server.py (and api/mocks.py, which calls the same way).   *)
(*                                                                         *)
(* respond() holds the registry's lock twice: once to look the run up, count *)
(* the attempt and pick its answer, and again to log the call on the RunMocks *)
(* object it still references.  Between the two, runs may be closed, reopened *)
(* under the same token, or swept, and other requests may be served.        *)
(***************************************************************************)
EXTENDS MockResponses, FiniteSets

CONSTANTS Token,     \* run tokens
          Node,      \* integration nodes of the workflow under test
          Test,      \* the tests that may be run
          Handler,   \* request threads of the mock server
          MaxAge,    \* _MAX_RUN_AGE_SECONDS, in clock ticks
          MaxRuns,   \* bound: runs opened
          MaxHits,   \* bound: attempts per run
          MaxTime    \* bound: clock ticks

ASSUME RegistryAssumption ==
    /\ MaxAge \in Nat /\ MaxRuns \in Nat /\ MaxHits \in Nat /\ MaxTime \in Nat
    /\ Test \subseteq TestSet(Node)
    /\ Node # {}

VARIABLES registry,  \* _runs: token -> index into runs, 0 when absent
          runs,      \* every RunMocks object ever opened, oldest first
          handler,   \* what each request thread is doing
          now        \* time.monotonic(), in ticks

vars == << registry, runs, handler, now >>

Call == [node : Node, occurrence : Nat, status : Nat \ {0}, error : BOOLEAN]

RunMocks == [run_token : Token, test : Test, occurrences : [Node -> Nat],
             calls : Seq(Call), opened_at : Nat]

\* "responding": between the two lock sections; "answering": call logged, or run
\* unknown, and the delay and the write to the socket still ahead.
HandlerState == [pc : {"idle", "responding", "answering"}, run : Nat,
                 node : Node, occurrence : Nat, response : Response]

Idle == [pc |-> "idle", run |-> 0, node |-> CHOOSE n \in Node : TRUE,
         occurrence |-> 0, response |-> NotFound]
-----------------------------------------------------------------------------
(* Operators named Bug... are not the code: each is a mistake the code could   *)
(* plausibly have made, and shows that a property would notice it.            *)

BugCountersKept(t, test) ==
    [run_token |-> t, test |-> test,
     occurrences |-> IF registry[t] # 0 THEN runs[registry[t]].occurrences
                     ELSE [n \in Node |-> 0],
     calls |-> << >>, opened_at |-> now]

\* The RunMocks object open() builds: its counters and log start empty.
NewRun(t, test) == [run_token |-> t, test |-> test,
                    occurrences |-> [n \in Node |-> 0],
                    calls |-> << >>, opened_at |-> now]

NewIndex == Len(runs) + 1

\* _sweep_locked: the entries whose run was opened before now - _MAX_RUN_AGE_SECONDS.
Abandoned(t) == registry[t] # 0 /\ runs[registry[t]].opened_at + MaxAge < now

BugNumberFromLog(r, n) ==
    Cardinality({i \in DOMAIN runs[r].calls : runs[r].calls[i].node = n}) + 1

BugSharedCounter(r, n) ==
    Cardinality({a \in Node \X (1..MaxHits) : a[2] <= runs[r].occurrences[a[1]]}) + 1

\* The number of the next attempt on a node comes from the run's own counter.
NextAttempt(r, n) == runs[r].occurrences[n] + 1

Counting(run, n, k) == [run EXCEPT !.occurrences = [run.occurrences EXCEPT ![n] = k]]

Logging(run, call) == [run EXCEPT !.calls = Append(run.calls, call)]

BugLogByToken(h) == registry[runs[handler[h].run].run_token]

\* The call is logged on the object the thread holds, not on what the token means now.
LoggedRun(h) == handler[h].run
-----------------------------------------------------------------------------
Init == /\ registry = [t \in Token |-> 0]
        /\ runs = << >>
        /\ handler = [h \in Handler |-> Idle]
        /\ now = 0

\* Requests counted on run r whose call is not logged yet.
InFlight(r) == {h \in Handler : handler[h].pc = "responding" /\ handler[h].run = r}

\* open: a fresh RunMocks replaces whatever the token had; abandoned runs go first.
Open(t, test) ==
    /\ Len(runs) < MaxRuns
    /\ runs' = Append(runs, NewRun(t, test))
    /\ registry' = [x \in Token |-> IF x = t THEN NewIndex
                                    ELSE IF Abandoned(x) THEN 0 ELSE registry[x]]
    /\ UNCHANGED << handler, now >>

\* close: pop(run_token, None), so closing twice is harmless.
Close(t) == /\ registry' = [registry EXCEPT ![t] = 0]
            /\ UNCHANGED << runs, handler, now >>

\* respond, first lock section: the attempt is counted and its answer chosen.
CountAttempt(h, t, n) ==
    LET r == registry[t]
        k == NextAttempt(r, n)
        test == runs[r].test
    IN  /\ handler[h].pc = "idle"
        /\ r # 0
        /\ Len(runs[r].calls) + Cardinality(InFlight(r)) < MaxHits
        /\ runs' = [runs EXCEPT ![r] = Counting(runs[r], n, k)]
        /\ handler' = [handler EXCEPT ![h] =
               [pc |-> "responding", run |-> r, node |-> n, occurrence |-> k,
                response |-> BuildResponse(InjectionFor(test, n, k), MockFor(test, n))]]
        /\ UNCHANGED << registry, now >>

\* respond returning None: the handler is left with a 404 to send.
RefuseUnknownRun(h, t) ==
    /\ handler[h].pc = "idle"
    /\ registry[t] = 0
    /\ handler' = [handler EXCEPT ![h] = [Idle EXCEPT !.pc = "answering"]]
    /\ UNCHANGED << registry, runs, now >>

\* respond, second lock section: the call is appended to the object it counted on.
LogCall(h) ==
    LET r == LoggedRun(h)
        test == runs[handler[h].run].test
        call == [node |-> handler[h].node, occurrence |-> handler[h].occurrence,
                 status |-> handler[h].response.status,
                 error |-> InjectionFor(test, handler[h].node,
                                        handler[h].occurrence) # << >>]
    IN  /\ handler[h].pc = "responding"
        /\ runs' = [runs EXCEPT ![r] = Logging(runs[r], call)]
        /\ handler' = [handler EXCEPT ![h] = [@ EXCEPT !.pc = "answering"]]
        /\ UNCHANGED << registry, now >>

\* The delay has passed and the answer is written; a broken pipe ends it the same way.
Answer(h) == /\ handler[h].pc = "answering"
             /\ handler' = [handler EXCEPT ![h] = Idle]
             /\ UNCHANGED << registry, runs, now >>

Tick == /\ now < MaxTime
        /\ now' = now + 1
        /\ UNCHANGED << registry, runs, handler >>

Respond(h) == \E t \in Token : \/ \E n \in Node : CountAttempt(h, t, n)
                               \/ RefuseUnknownRun(h, t)

Next == \/ \E t \in Token, test \in Test : Open(t, test)
        \/ \E t \in Token : Close(t)
        \/ \E h \in Handler : Respond(h) \/ LogCall(h) \/ Answer(h)
        \/ Tick

\* A request thread never blocks for good: the lock is held for a few assignments
\* and the delay is finite.
Fairness == \A h \in Handler : WF_vars(LogCall(h)) /\ WF_vars(Answer(h))

Spec == Init /\ [][Next]_vars /\ Fairness
-----------------------------------------------------------------------------
\* The type invariant: registrations point at runs that exist, and so do requests; an
\* answer sent or logged has a status, whatever its mock leaves out.
TypeOK == /\ registry \in [Token -> 0..Len(runs)]
          /\ runs \in Seq(RunMocks)
          /\ Len(runs) <= MaxRuns
          /\ handler \in [Handler -> HandlerState]
          /\ \A h \in Handler : handler[h].pc = "responding" => handler[h].run \in DOMAIN runs
          /\ now \in Nat

\* A logged or pending attempt number was given out by the run's counter.
NumbersWereCounted ==
    \A r \in DOMAIN runs :
        /\ \A i \in DOMAIN runs[r].calls :
               runs[r].calls[i].occurrence \in 1..runs[r].occurrences[runs[r].calls[i].node]
        /\ \A h \in InFlight(r) :
               handler[h].occurrence \in 1..runs[r].occurrences[handler[h].node]

\* No attempt on a node of a run is logged twice, in flight twice, or both.
NumbersAreUnique ==
    \A r \in DOMAIN runs :
        /\ \A i, j \in DOMAIN runs[r].calls :
               /\ runs[r].calls[i].node = runs[r].calls[j].node
               /\ runs[r].calls[i].occurrence = runs[r].calls[j].occurrence
               => i = j
        /\ \A g, h \in InFlight(r) :
               /\ handler[g].node = handler[h].node
               /\ handler[g].occurrence = handler[h].occurrence
               => g = h
        /\ \A h \in InFlight(r), i \in DOMAIN runs[r].calls :
               ~ (/\ runs[r].calls[i].node = handler[h].node
                  /\ runs[r].calls[i].occurrence = handler[h].occurrence)

\* Every number the counter gave out is logged or still in flight.
NoAttemptIsLost ==
    \A r \in DOMAIN runs, n \in Node : \A k \in 1..runs[r].occurrences[n] :
        \/ \E i \in DOMAIN runs[r].calls : /\ runs[r].calls[i].node = n
                                           /\ runs[r].calls[i].occurrence = k
        \/ \E h \in InFlight(r) : handler[h].node = n /\ handler[h].occurrence = k

\* The call log is exact: however requests interleave with one another and with
\* open, close and the sweep, the attempts a run counted are the calls it logged
\* plus the requests between the two lock sections, each exactly once.  This is
\* what lets the log stand in for n8n, which reports no attempts (mocks.py 8-14).
CallLogExact == NumbersWereCounted /\ NumbersAreUnique /\ NoAttemptIsLost

\* The attempts on a run so far: those in its log and those in flight.
LoggedAttempts(r) == {runs[r].calls[i] : i \in DOMAIN runs[r].calls}

PendingAttempts(r) ==
    {[node |-> handler[h].node, occurrence |-> handler[h].occurrence,
      status |-> handler[h].response.status,
      error |-> InjectionFor(runs[r].test, handler[h].node, handler[h].occurrence) # << >>]
     : h \in InFlight(r)}

Served(r, n) == {a \in LoggedAttempts(r) \cup PendingAttempts(r) : a.node = n}

\* What a test says of the k-th attempt on a node, read off its two lists: the first
\* failure listed for that attempt decides, without one the last mock listed for the
\* node, and without either it is a success.
Promised(test, n, k, answer) ==
    LET fails(i) == test.failures[i].node = n /\ test.failures[i].occurrence = k
        mocks(i) == test.mocks[i].node = n
    IN  \/ \E i \in DOMAIN test.failures :
               /\ fails(i) /\ \A j \in DOMAIN test.failures : j < i => ~ fails(j)
               /\ answer.error
               /\ answer.status = InjectedResponse(test.failures[i].type).status
        \/ /\ \A i \in DOMAIN test.failures : ~ fails(i)
           /\ ~ answer.error
           /\ \/ \E i \in DOMAIN test.mocks :
                     /\ mocks(i) /\ \A j \in DOMAIN test.mocks : i < j => ~ mocks(j)
                     /\ answer.status = MockedResponse(test.mocks[i]).status
              \/ (\A i \in DOMAIN test.mocks : ~ mocks(i)) /\ answer.status = 200

\* An injected failure fires on the attempt it is declared for and on no other: of the
\* k requests on a node that a run has answered, in whatever order they were logged or
\* are still in flight, one got what the run's own test says of the first attempt, one
\* what it says of the second, and so on to the k-th.  The numbers the registry keeps
\* have no part in this, only what callers were answered and how many they are; as it
\* holds after every request, the k-th to arrive got what the test says of attempt k.
InjectionsFireOnTheirAttempt ==
    \A r \in DOMAIN runs, n \in Node :
        LET made == 1..Cardinality(Served(r, n))
        IN  \E turn \in [made -> Served(r, n)] :
                /\ \A j, k \in made : turn[j] = turn[k] => j = k
                /\ \A k \in made : Promised(runs[r].test, n, k, turn[k])

\* Every attempt counted is eventually in the log of the run that counted it, even
\* if the run was closed, reopened or swept meanwhile.
CountedIsLogged ==
    \A r \in 1..MaxRuns, n \in Node, k \in 1..MaxHits :
        (r \in DOMAIN runs /\ runs[r].occurrences[n] >= k)
            ~> (r \in DOMAIN runs /\ \E i \in DOMAIN runs[r].calls :
                    runs[r].calls[i].node = n /\ runs[r].calls[i].occurrence = k)
-----------------------------------------------------------------------------
\* Refinement: the transcript of a run is its log together with the attempts still
\* in flight, so a request takes effect in its first lock section.
Transcript ==
    INSTANCE MockTranscript WITH
        tests    <- [r \in DOMAIN runs |-> runs[r].test],
        attempts <- [r \in DOMAIN runs |-> LoggedAttempts(r) \cup PendingAttempts(r)]

\* The registry implements MockTranscript: attempts are numbered and answered as if
\* each request were one atomic step.
TranscriptSpec == Transcript!TSpec
=============================================================================
