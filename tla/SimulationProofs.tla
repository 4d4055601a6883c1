--------------------------- MODULE SimulationProofs ---------------------------
(***************************************************************************)
(* Theorems about a simulated run.                                           *)
(*                                                                         *)
(* First, of the registry that answers its calls, for every set of tokens,   *)
(* nodes, tests and request threads and every value of the bounds.           *)
(*                                                                         *)
(* Then, from RunInv on, of what n8n does with the compiled workflow and of  *)
(* how the record is read back, for every workflow and every error message:  *)
(* the invariant of an execution, then the blame, the status, the fuzz       *)
(* verdict and the path that the record yields, and last that the execution  *)
(* is one of the canonical workflow.                                         *)
(***************************************************************************)
EXTENDS MockRegistry, FuzzVerdict, FiniteSetTheorems, SequenceTheorems, FunctionTheorems,
        WellFoundedInduction, TLAPS

(***************************************************************************)
(* Positions in a list.  A non-empty set of positions has a least and a     *)
(* greatest element: the sets of smaller positions are finite and strict    *)
(* inclusion is well founded on finite sets.                                *)
(***************************************************************************)

\* A non-empty set of positions of a list has a first one, so the CHOOSE in
\* InjectionFor (mocks.py 184-188) picks an element that exists.
LEMMA LeastPosition ==
    ASSUME NEW n \in Nat, NEW T \in SUBSET (1..n), T # {}
    PROVE  \E i \in T : \A j \in T : i <= j
<1> DEFINE Below(i) == {j \in T : j < i}
           Family == {Below(i) : i \in T}
           S == 1..n
<1>1. IsFiniteSet(S)
  BY FS_Interval
<1>2. Family \subseteq FiniteSubsetsOf(S)
  <2>1. \A i \in T : Below(i) \in SUBSET S
    OBVIOUS
  <2>2. \A i \in T : IsFiniteSet(Below(i))
    BY <1>1, <2>1, FS_Subset, Zenon
  <2> QED
    BY <2>1, <2>2 DEF FiniteSubsetsOf
<1>3. Family # {}
  OBVIOUS
<1>4. PICK X \in Family : \A Y \in Family : ~ (<< Y, X >> \in StrictSubsetOrdering(S))
  <2> HIDE DEF Family, S
  <2> QED
    BY <1>2, <1>3, FS_StrictSubsetOrderingWellFounded, WFMin, Zenon
<1>5. PICK i \in T : X = Below(i)
  OBVIOUS
<1>6. Below(i) = {}
  <2>1. SUFFICES ASSUME NEW j \in Below(i) PROVE FALSE
    OBVIOUS
  <2>2. j \in T /\ j < i /\ i \in Nat /\ j \in Nat
    OBVIOUS
  <2>3. Below(j) \subseteq Below(i)
    <3>1. SUFFICES ASSUME NEW k \in Below(j) PROVE k \in Below(i)
      OBVIOUS
    <3>2. k \in T /\ k < j /\ k \in Nat
      OBVIOUS
    <3> QED
      BY <2>2, <3>2
  <2>4. Below(j) # Below(i)
    <3>1. j \notin Below(j)
      BY <2>2
    <3> QED
      BY <2>1, <3>1
  <2>5. << Below(j), X >> \in StrictSubsetOrdering(S)
    <3>1. Below(j) \in SUBSET S /\ X \in SUBSET S
      BY <1>5
    <3>2. Below(j) \subseteq X /\ Below(j) # X
      BY <1>5, <2>3, <2>4
    <3> HIDE DEF Below, S
    <3> QED
      BY <3>1, <3>2 DEF StrictSubsetOrdering
  <2>6. Below(j) \in Family
    BY <2>2
  <2> QED
    BY <1>4, <2>5, <2>6
<1>7. \A j \in T : j \in Nat /\ ~ (j < i) /\ i \in Nat
  BY <1>6
<1> QED
  BY <1>7

\* Likewise a last one, which MockFor (mocks.py 125) picks.
LEMMA GreatestPosition ==
    ASSUME NEW n \in Nat, NEW T \in SUBSET (1..n), T # {}
    PROVE  \E i \in T : \A j \in T : i >= j
<1> DEFINE Mirror == {k \in 1..n : n + 1 - k \in T}
<1>1. Mirror \in SUBSET (1..n)
  OBVIOUS
<1>2. Mirror # {}
  <2>1. PICK j \in T : TRUE
    OBVIOUS
  <2>2. n + 1 - j \in 1..n /\ n + 1 - (n + 1 - j) = j
    OBVIOUS
  <2> QED
    BY <2>1, <2>2
<1>3. PICK k \in Mirror : \A l \in Mirror : k <= l
  <2> HIDE DEF Mirror
  <2> QED
    BY <1>1, <1>2, LeastPosition, Zenon
<1>4. n + 1 - k \in T
  OBVIOUS
<1>5. ASSUME NEW j \in T PROVE n + 1 - k >= j
  <2>1. j \in 1..n /\ n + 1 - j \in 1..n /\ n + 1 - (n + 1 - j) = j
    OBVIOUS
  <2>2. n + 1 - j \in Mirror
    BY <2>1
  <2>3. k <= n + 1 - j
    BY <1>3, <2>2
  <2> QED
    BY <2>1, <2>3
<1> QED
  BY <1>4, <1>5
-----------------------------------------------------------------------------
(***************************************************************************)
(* Responses.                                                               *)
(***************************************************************************)

\* An injection is picked exactly when the test declares one for that attempt, and
\* the one picked is the first declared (mocks.py 184-188).
LEMMA InjectionForProperties ==
    ASSUME NEW test \in TestSet(Node), NEW n \in Node, NEW k \in Nat
    PROVE  /\ InjectionFor(test, n, k) # << >> <=> Declared(test, n, k) # {}
           /\ InjectionFor(test, n, k) # << >> =>
                  /\ InjectionFor(test, n, k)[1] \in FailureInjection(Node)
                  /\ \E i \in Declared(test, n, k) :
                         /\ InjectionFor(test, n, k) = << test.failures[i] >>
                         /\ \A j \in Declared(test, n, k) : i <= j
<1> DEFINE hits == Declared(test, n, k)
<1>1. test.failures \in Seq(FailureInjection(Node))
  BY DEF TestSet
<1>2. /\ Len(test.failures) \in Nat
      /\ DOMAIN test.failures = 1..Len(test.failures)
      /\ hits \in SUBSET (1..Len(test.failures))
  BY <1>1 DEF Declared
<1>3. CASE hits = {}
  BY <1>3 DEF InjectionFor
<1>4. CASE hits # {}
  <2> DEFINE first == CHOOSE i \in hits : \A j \in hits : i <= j
  <2>1. \E i \in hits : \A j \in hits : i <= j
    <3> HIDE DEF hits
    <3> QED
      BY <1>2, <1>4, LeastPosition, Zenon
  <2>2. first \in hits /\ \A j \in hits : first <= j
    <3> HIDE DEF hits
    <3> QED
      BY <2>1
  <2>3. test.failures[first] \in FailureInjection(Node)
    BY <1>1, <1>2, <2>2, ElementOfSeq
  <2>4. InjectionFor(test, n, k) = << test.failures[first] >>
    BY <1>4 DEF InjectionFor
  <2>5. \E i \in hits : /\ InjectionFor(test, n, k) = << test.failures[i] >>
                        /\ \A j \in hits : i <= j
    <3> HIDE DEF hits, first
    <3> QED
      BY <2>2, <2>4
  <2>6. InjectionFor(test, n, k) # << >> /\ InjectionFor(test, n, k)[1] = test.failures[first]
    <3> HIDE DEF first
    <3> QED
      BY <2>4
  <2> QED
    BY <1>4, <2>3, <2>5, <2>6
<1> QED
  BY <1>3, <1>4

\* A mock is picked for a node exactly when the test has one, and it is the last of those
\* (mocks.py 125).
LEMMA MockForProperties ==
    ASSUME NEW test \in TestSet(Node), NEW n \in Node
    PROVE  LET hits == {i \in DOMAIN test.mocks : test.mocks[i].node = n}
           IN  /\ MockFor(test, n) # << >> <=> hits # {}
               /\ MockFor(test, n) # << >> =>
                      /\ MockFor(test, n)[1] \in MockIntegration(Node)
                      /\ \E i \in hits : /\ MockFor(test, n) = << test.mocks[i] >>
                                         /\ \A j \in hits : i >= j
<1> DEFINE hits == {i \in DOMAIN test.mocks : test.mocks[i].node = n}
<1>1. test.mocks \in Seq(MockIntegration(Node))
  BY DEF TestSet
<1>2. /\ Len(test.mocks) \in Nat
      /\ DOMAIN test.mocks = 1..Len(test.mocks)
      /\ hits \in SUBSET (1..Len(test.mocks))
  BY <1>1
<1>3. CASE hits = {}
  BY <1>3 DEF MockFor
<1>4. CASE hits # {}
  <2> DEFINE last == CHOOSE i \in hits : \A j \in hits : i >= j
  <2>1. \E i \in hits : \A j \in hits : i >= j
    <3> HIDE DEF hits
    <3> QED
      BY <1>2, <1>4, GreatestPosition, Zenon
  <2>2. last \in hits /\ \A j \in hits : last >= j
    <3> HIDE DEF hits
    <3> QED
      BY <2>1
  <2>3. test.mocks[last] \in MockIntegration(Node)
    BY <1>1, <1>2, <2>2, ElementOfSeq
  <2>4. MockFor(test, n) = << test.mocks[last] >>
    BY <1>4 DEF MockFor
  <2>5. \E i \in hits : /\ MockFor(test, n) = << test.mocks[i] >>
                        /\ \A j \in hits : i >= j
    <3> HIDE DEF hits, last
    <3> QED
      BY <2>2, <2>4
  <2>6. MockFor(test, n) # << >> /\ MockFor(test, n)[1] = test.mocks[last]
    <3> HIDE DEF last
    <3> QED
      BY <2>4
  <2> QED
    BY <1>4, <2>3, <2>5, <2>6
<1> QED
  BY <1>3, <1>4

\* Whatever a test says, _build_response (mocks.py 191-223) returns a response.
LEMMA BuildResponseType ==
    ASSUME NEW test \in TestSet(Node), NEW n \in Node, NEW k \in Nat
    PROVE  BuildResponse(InjectionFor(test, n, k), MockFor(test, n)) \in Response
<1>1. \A type \in FailureType : InjectedResponse(type) \in Response
  BY DEF InjectedResponse, FailureType, FailureStatus, Response
<1>2. \A mock \in MockIntegration(Node) : MockedResponse(mock) \in Response
  BY DEF MockedResponse, MockIntegration, Response
<1>3. \A injection \in FailureInjection(Node) : injection.type \in FailureType
  BY DEF FailureInjection
<1>4. CASE InjectionFor(test, n, k) # << >>
  <2>1. InjectionFor(test, n, k)[1] \in FailureInjection(Node)
    BY <1>4, InjectionForProperties
  <2> QED
    BY <1>1, <1>3, <1>4, <2>1 DEF BuildResponse
<1>5. CASE InjectionFor(test, n, k) = << >> /\ MockFor(test, n) # << >>
  <2>1. MockFor(test, n)[1] \in MockIntegration(Node)
    BY <1>5, MockForProperties
  <2> QED
    BY <1>2, <1>5, <2>1 DEF BuildResponse
<1>6. CASE InjectionFor(test, n, k) = << >> /\ MockFor(test, n) = << >>
  BY <1>6 DEF BuildResponse, Response
<1> QED
  BY <1>4, <1>5, <1>6
-----------------------------------------------------------------------------
(***************************************************************************)
(* What each action that touches runs does to them.                         *)
(***************************************************************************)

\* A sequence with one element replaced.
LEMMA UpdateRun ==
    ASSUME NEW r \in DOMAIN runs, runs \in Seq(RunMocks), NEW m \in RunMocks,
           runs' = [runs EXCEPT ![r] = m]
    PROVE  /\ runs' \in Seq(RunMocks)
           /\ Len(runs') = Len(runs)
           /\ DOMAIN runs' = DOMAIN runs
           /\ runs'[r] = m
           /\ \A q \in DOMAIN runs : q # r => runs'[q] = runs[q]
BY ExceptSeq, LenProperties

\* Opening a run (mocks.py 122-131) appends an empty run and changes no other.
LEMMA OpenEffect ==
    ASSUME TypeOK, NEW t \in Token, NEW test \in Test, Open(t, test)
    PROVE  /\ runs' \in Seq(RunMocks)
           /\ Len(runs') = Len(runs) + 1
           /\ DOMAIN runs' = DOMAIN runs \cup {Len(runs) + 1}
           /\ \A q \in DOMAIN runs : runs'[q] = runs[q]
           /\ runs'[Len(runs) + 1] = NewRun(t, test)
<1>1. NewRun(t, test) \in RunMocks
  BY RegistryAssumption, EmptySeq DEF NewRun, RunMocks, TypeOK
<1>2. runs \in Seq(RunMocks) /\ runs' = Append(runs, NewRun(t, test))
  BY DEF TypeOK, Open
<1> HIDE DEF NewRun, RunMocks
<1> QED
  BY <1>1, <1>2, AppendProperties, LenProperties

\* The first lock section (mocks.py 147-154) advances one counter of one run.
LEMMA CountEffect ==
    ASSUME TypeOK, NEW h \in Handler, NEW t \in Token, NEW n \in Node, CountAttempt(h, t, n)
    PROVE  LET r == registry[t]
               k == runs[r].occurrences[n] + 1
           IN  /\ r \in DOMAIN runs /\ k \in Nat
               /\ runs' \in Seq(RunMocks)
               /\ Len(runs') = Len(runs)
               /\ DOMAIN runs' = DOMAIN runs
               /\ \A q \in DOMAIN runs : q # r => runs'[q] = runs[q]
               /\ runs'[r].calls = runs[r].calls
               /\ runs'[r].test = runs[r].test
               /\ runs'[r].occurrences = [runs[r].occurrences EXCEPT ![n] = k]
<1> DEFINE r == registry[t]
           k == runs[r].occurrences[n] + 1
           m == Counting(runs[r], n, k)
<1>1. r \in DOMAIN runs
  BY LenProperties DEF TypeOK, CountAttempt
<1>2. runs[r] \in RunMocks
  BY <1>1, ElementOfSeq, LenProperties DEF TypeOK
<1>3. k \in Nat
  BY <1>2 DEF RunMocks
<1>4. m \in RunMocks
  BY <1>2, <1>3 DEF RunMocks, Counting
<1>5. runs' = [runs EXCEPT ![r] = m]
  BY DEF CountAttempt, NextAttempt
<1>6. /\ runs' \in Seq(RunMocks)
      /\ Len(runs') = Len(runs)
      /\ DOMAIN runs' = DOMAIN runs
      /\ runs'[r] = m
      /\ \A q \in DOMAIN runs : q # r => runs'[q] = runs[q]
  <2> HIDE DEF r, m
  <2> QED
    BY <1>1, <1>4, <1>5, UpdateRun DEF TypeOK
<1>7. /\ m.calls = runs[r].calls
      /\ m.test = runs[r].test
      /\ m.occurrences = [runs[r].occurrences EXCEPT ![n] = k]
  BY <1>2 DEF RunMocks, Counting
<1> HIDE DEF m
<1> QED
  BY <1>1, <1>3, <1>6, <1>7

\* The call the second lock section logs (mocks.py 157-168).
CallOf(h) == [node |-> handler[h].node, occurrence |-> handler[h].occurrence,
              status |-> handler[h].response.status,
              error |-> InjectionFor(runs[handler[h].run].test, handler[h].node,
                                     handler[h].occurrence) # << >>]

\* The second lock section appends one call to the run the request was counted on.
LEMMA LogEffect ==
    ASSUME TypeOK, NEW h \in Handler, LogCall(h)
    PROVE  LET r == handler[h].run
           IN  /\ r \in DOMAIN runs
               /\ CallOf(h) \in Call
               /\ runs' \in Seq(RunMocks)
               /\ Len(runs') = Len(runs)
               /\ DOMAIN runs' = DOMAIN runs
               /\ \A q \in DOMAIN runs : q # r => runs'[q] = runs[q]
               /\ runs'[r].calls = Append(runs[r].calls, CallOf(h))
               /\ runs[r].calls \in Seq(Call)
               /\ runs'[r].test = runs[r].test
               /\ runs'[r].occurrences = runs[r].occurrences
<1> DEFINE r == handler[h].run
           m == Logging(runs[r], CallOf(h))
<1>1. r \in DOMAIN runs
  BY DEF TypeOK, LogCall
<1>2. runs[r] \in RunMocks
  BY <1>1, ElementOfSeq, LenProperties DEF TypeOK
<1>3. handler[h] \in HandlerState
  BY DEF TypeOK
<1>4. CallOf(h) \in Call
  BY <1>3 DEF CallOf, Call, HandlerState, Response
<1>5. m \in RunMocks /\ runs[r].calls \in Seq(Call)
  <2>1. runs[r].calls \in Seq(Call)
    BY <1>2 DEF RunMocks
  <2>2. Append(runs[r].calls, CallOf(h)) \in Seq(Call)
    BY <1>4, <2>1, AppendProperties
  <2> QED
    BY <1>2, <2>1, <2>2 DEF RunMocks, Logging
<1>6. runs' = [runs EXCEPT ![r] = m]
  BY DEF LogCall, LoggedRun, CallOf
<1>7. /\ runs' \in Seq(RunMocks)
      /\ Len(runs') = Len(runs)
      /\ DOMAIN runs' = DOMAIN runs
      /\ runs'[r] = m
      /\ \A q \in DOMAIN runs : q # r => runs'[q] = runs[q]
  <2> HIDE DEF r, m
  <2> QED
    BY <1>1, <1>5, <1>6, UpdateRun DEF TypeOK
<1>8. /\ m.calls = Append(runs[r].calls, CallOf(h))
      /\ m.test = runs[r].test
      /\ m.occurrences = runs[r].occurrences
  BY <1>2 DEF RunMocks, Logging
<1> HIDE DEF m
<1> QED
  BY <1>1, <1>4, <1>5, <1>7, <1>8
-----------------------------------------------------------------------------
(***************************************************************************)
(* Type correctness.                                                        *)
(***************************************************************************)

\* A thread without a request (mock_server.py 57-60) is a well-formed thread.
LEMMA IdleType == Idle \in HandlerState /\ Idle.pc = "idle"
BY RegistryAssumption DEF Idle, HandlerState, NotFound, Response

\* Every action of the registry and of its request threads preserves the types.
LEMMA TypeStep == TypeOK /\ [Next]_vars => TypeOK'
<1> SUFFICES ASSUME TypeOK, [Next]_vars PROVE TypeOK'
  OBVIOUS
<1>0. DOMAIN runs = 1..Len(runs) /\ Len(runs) \in Nat
  BY LenProperties DEF TypeOK
<1>1. ASSUME NEW t \in Token, NEW test \in Test, Open(t, test) PROVE TypeOK'
  <2>1. /\ runs' \in Seq(RunMocks)
        /\ Len(runs') = Len(runs) + 1
        /\ DOMAIN runs' = DOMAIN runs \cup {Len(runs) + 1}
    BY <1>1, OpenEffect
  <2>2. Len(runs') <= MaxRuns
    BY <1>0, <1>1, <2>1, RegistryAssumption DEF Open
  <2>3. registry' \in [Token -> 0..Len(runs')]
    BY <1>0, <1>1, <2>1 DEF Open, TypeOK, NewIndex
  <2>4. handler' = handler /\ now' = now
    BY <1>1 DEF Open
  <2> QED
    BY <2>1, <2>2, <2>3, <2>4 DEF TypeOK
<1>2. ASSUME NEW t \in Token, Close(t) PROVE TypeOK'
  BY <1>0, <1>2 DEF TypeOK, Close
<1>3. ASSUME NEW h \in Handler, NEW t \in Token, NEW n \in Node, CountAttempt(h, t, n)
      PROVE  TypeOK'
  <2> DEFINE r == registry[t]
             k == runs[r].occurrences[n] + 1
  <2>1. /\ r \in DOMAIN runs /\ k \in Nat
        /\ runs' \in Seq(RunMocks)
        /\ Len(runs') = Len(runs)
        /\ DOMAIN runs' = DOMAIN runs
    BY <1>3, CountEffect
  <2>2. runs[r].test \in TestSet(Node)
    <3>1. runs[r] \in RunMocks
      BY <1>0, <2>1, ElementOfSeq DEF TypeOK
    <3> QED
      BY <3>1, RegistryAssumption DEF RunMocks
  <2>3. BuildResponse(InjectionFor(runs[r].test, n, k), MockFor(runs[r].test, n)) \in Response
    BY <2>1, <2>2, BuildResponseType
  <2>4. handler' = [handler EXCEPT ![h] =
            [pc |-> "responding", run |-> r, node |-> n, occurrence |-> k,
             response |-> BuildResponse(InjectionFor(runs[r].test, n, k),
                                        MockFor(runs[r].test, n))]]
    BY <1>3 DEF CountAttempt, NextAttempt
  <2>5. r \in Nat
    BY <1>0, <2>1
  <2> HIDE DEF r, k
  <2>6. handler' \in [Handler -> HandlerState]
    BY <2>1, <2>3, <2>4, <2>5 DEF TypeOK, HandlerState
  <2>7. \A g \in Handler : handler'[g].pc = "responding" => handler'[g].run \in DOMAIN runs'
    BY <2>1, <2>4 DEF TypeOK
  <2>8. registry' = registry /\ now' = now
    BY <1>3 DEF CountAttempt
  <2> QED
    BY <2>1, <2>6, <2>7, <2>8 DEF TypeOK
<1>4. ASSUME NEW h \in Handler, NEW t \in Token, RefuseUnknownRun(h, t) PROVE TypeOK'
  <2>1. handler' = [handler EXCEPT ![h] = [Idle EXCEPT !.pc = "answering"]]
    BY <1>4 DEF RefuseUnknownRun
  <2>2. /\ [Idle EXCEPT !.pc = "answering"] \in HandlerState
        /\ [Idle EXCEPT !.pc = "answering"].pc = "answering"
    BY IdleType DEF HandlerState
  <2>3. /\ handler' \in [Handler -> HandlerState]
        /\ \A g \in Handler : handler'[g].pc = "responding" => handler'[g] = handler[g]
    <3> HIDE DEF HandlerState
    <3> QED
      BY <2>1, <2>2 DEF TypeOK
  <2> QED
    BY <1>4, <2>3 DEF TypeOK, RefuseUnknownRun
<1>5. ASSUME NEW h \in Handler, LogCall(h) PROVE TypeOK'
  <2>1. /\ runs' \in Seq(RunMocks)
        /\ Len(runs') = Len(runs)
        /\ DOMAIN runs' = DOMAIN runs
    BY <1>5, LogEffect
  <2>2. handler' = [handler EXCEPT ![h] = [handler[h] EXCEPT !.pc = "answering"]]
    BY <1>5 DEF LogCall
  <2>3. /\ [handler[h] EXCEPT !.pc = "answering"] \in HandlerState
        /\ [handler[h] EXCEPT !.pc = "answering"].pc = "answering"
    BY DEF TypeOK, HandlerState
  <2>4. /\ handler' \in [Handler -> HandlerState]
        /\ \A g \in Handler : handler'[g].pc = "responding" => handler'[g] = handler[g]
    <3> HIDE DEF HandlerState
    <3> QED
      BY <2>2, <2>3 DEF TypeOK
  <2> QED
    BY <1>5, <2>1, <2>4 DEF TypeOK, LogCall
<1>6. ASSUME NEW h \in Handler, Answer(h) PROVE TypeOK'
  <2>1. /\ handler' \in [Handler -> HandlerState]
        /\ \A g \in Handler : handler'[g].pc = "responding" => handler'[g] = handler[g]
    BY <1>6, IdleType DEF TypeOK, Answer
  <2> QED
    BY <1>6, <2>1 DEF TypeOK, Answer
<1>7. ASSUME Tick PROVE TypeOK'
  BY <1>7 DEF TypeOK, Tick
<1>8. ASSUME UNCHANGED vars PROVE TypeOK'
  BY <1>8 DEF TypeOK, vars
<1> QED
  BY <1>1, <1>2, <1>3, <1>4, <1>5, <1>6, <1>7, <1>8 DEF Next, Respond

\* In every behaviour registrations and in-flight requests refer to runs that exist,
\* and every stored value has its declared type.
THEOREM TypeCorrect == Spec => []TypeOK
<1>1. Init => TypeOK
  BY IdleType, EmptySeq, RegistryAssumption DEF Init, TypeOK
<1> QED
  BY <1>1, TypeStep, PTL DEF Spec
-----------------------------------------------------------------------------
(***************************************************************************)
(* The call log is exact.  CallLogExact is inductive once the types are     *)
(* known: a number enters the in-flight requests in the step that advances  *)
(* the counter to it, and moves to the log in the step that takes it out.   *)
(***************************************************************************)

\* What TypeOK says of one registered run and of one request thread (mocks.py 67-101).
LEMMA RunTypes ==
    ASSUME TypeOK, NEW r \in DOMAIN runs
    PROVE  /\ runs[r].occurrences \in [Node -> Nat]
           /\ runs[r].calls \in Seq(Call)
           /\ runs[r].test \in TestSet(Node)
           /\ Len(runs[r].calls) \in Nat
           /\ DOMAIN runs[r].calls = 1..Len(runs[r].calls)
           /\ \A i \in DOMAIN runs[r].calls :
                  /\ runs[r].calls[i].node \in Node
                  /\ runs[r].calls[i].occurrence \in Nat
<1>1. runs[r] \in RunMocks
  BY ElementOfSeq, LenProperties DEF TypeOK
<1>2. /\ runs[r].calls \in Seq(Call)
      /\ runs[r].occurrences \in [Node -> Nat]
      /\ runs[r].test \in TestSet(Node)
  BY <1>1, RegistryAssumption DEF RunMocks
<1>3. /\ Len(runs[r].calls) \in Nat
      /\ DOMAIN runs[r].calls = 1..Len(runs[r].calls)
  BY <1>2, LenProperties
<1>4. \A i \in DOMAIN runs[r].calls : runs[r].calls[i] \in Call
  BY <1>2, <1>3, ElementOfSeq
<1> QED
  BY <1>2, <1>3, <1>4 DEF Call

\* A step that leaves the runs and the responding threads alone keeps the log exact.
LEMMA FrameKeepsLogExact ==
    ASSUME TypeOK, CallLogExact, runs' = runs,
           \A h \in Handler : /\ handler'[h].pc = "responding" <=> handler[h].pc = "responding"
                              /\ handler[h].pc = "responding" => handler'[h] = handler[h]
    PROVE  CallLogExact'
<1>1. \A r : InFlight(r)' = InFlight(r)
  BY DEF InFlight
<1>2. \A r : \A h \in InFlight(r) : handler'[h] = handler[h]
  BY DEF InFlight
<1>3. NumbersWereCounted'
  BY <1>1, <1>2 DEF CallLogExact, NumbersWereCounted
<1>4. NumbersAreUnique'
  BY <1>1, <1>2 DEF CallLogExact, NumbersAreUnique
<1>5. NoAttemptIsLost'
  BY <1>1, <1>2 DEF CallLogExact, NoAttemptIsLost
<1> QED
  BY <1>3, <1>4, <1>5 DEF CallLogExact

\* A newly opened run has counted, logged and in flight nothing.
LEMMA OpenKeepsLogExact ==
    ASSUME TypeOK, CallLogExact, NEW t \in Token, NEW test \in Test, Open(t, test)
    PROVE  CallLogExact'
<1> DEFINE new == Len(runs) + 1
<1>1. /\ DOMAIN runs' = DOMAIN runs \cup {new}
      /\ \A q \in DOMAIN runs : runs'[q] = runs[q]
      /\ runs'[new] = NewRun(t, test)
  BY OpenEffect
<1>2. handler' = handler
  BY DEF Open
<1>3. new \notin DOMAIN runs /\ DOMAIN runs = 1..Len(runs)
  BY LenProperties DEF TypeOK
<1>4. \A r : InFlight(r)' = InFlight(r)
  BY <1>2 DEF InFlight
<1>5. InFlight(new) = {}
  BY <1>3 DEF InFlight, TypeOK
<1>6. /\ runs'[new].calls = << >>
      /\ DOMAIN runs'[new].calls = {}
      /\ \A n \in Node : runs'[new].occurrences[n] = 0
  BY <1>1 DEF NewRun
<1> HIDE DEF new
<1>7. NumbersWereCounted'
  BY <1>1, <1>2, <1>4, <1>5, <1>6 DEF CallLogExact, NumbersWereCounted
<1>8. NumbersAreUnique'
  BY <1>1, <1>2, <1>4, <1>5, <1>6 DEF CallLogExact, NumbersAreUnique
<1>9. NoAttemptIsLost'
  BY <1>1, <1>2, <1>4, <1>5, <1>6 DEF CallLogExact, NoAttemptIsLost
<1> QED
  BY <1>7, <1>8, <1>9 DEF CallLogExact

\* The first lock section (mocks.py 147-156) puts the request it serves in flight.
LEMMA CountInFlight ==
    ASSUME TypeOK, NEW h \in Handler, NEW t \in Token, NEW n \in Node, CountAttempt(h, t, n),
           NEW r, r = registry[t]
    PROVE  /\ InFlight(r)' = InFlight(r) \cup {h}
           /\ h \notin InFlight(r)
           /\ \A q \in DOMAIN runs : q # r => InFlight(q)' = InFlight(q)
           /\ \A q \in DOMAIN runs : \A g \in InFlight(q) : handler'[g] = handler[g]
<1>1. /\ handler[h].pc = "idle"
      /\ handler'[h].pc = "responding" /\ handler'[h].run = r
      /\ \A g \in Handler : g # h => handler'[g] = handler[g]
  BY DEF CountAttempt, TypeOK
<1>2. h \notin InFlight(r)
  BY <1>1 DEF InFlight
<1>3. \A q \in DOMAIN runs : \A g \in InFlight(q) : handler'[g] = handler[g]
  BY <1>1 DEF InFlight
<1>4. InFlight(r)' = InFlight(r) \cup {h}
  BY <1>1 DEF InFlight
<1>5. ASSUME NEW q \in DOMAIN runs, q # r PROVE InFlight(q)' = InFlight(q)
  BY <1>1, <1>5 DEF InFlight
<1> QED
  BY <1>2, <1>3, <1>4, <1>5

\* The second lock section (mocks.py 157-168) ends its flight, and that of no other.
LEMMA LogInFlight ==
    ASSUME TypeOK, NEW h \in Handler, LogCall(h), NEW r, r = handler[h].run
    PROVE  /\ h \in InFlight(r)
           /\ InFlight(r)' = InFlight(r) \ {h}
           /\ \A q \in DOMAIN runs : q # r => InFlight(q)' = InFlight(q)
           /\ \A q \in DOMAIN runs : \A g \in InFlight(q)' : handler'[g] = handler[g]
<1>1. /\ h \in InFlight(r)
      /\ handler'[h].pc = "answering"
      /\ \A g \in Handler : g # h => handler'[g] = handler[g]
  BY DEF LogCall, TypeOK, HandlerState, InFlight
<1>2. \A q \in DOMAIN runs : \A g \in InFlight(q)' : handler'[g] = handler[g]
  BY <1>1 DEF InFlight
<1>3. InFlight(r)' = InFlight(r) \ {h}
  BY <1>1 DEF InFlight
<1>4. ASSUME NEW q \in DOMAIN runs, q # r PROVE InFlight(q)' = InFlight(q)
  BY <1>1, <1>4 DEF InFlight
<1> QED
  BY <1>1, <1>2, <1>3, <1>4

\* Counting hands out the one number that is neither logged nor in flight.
LEMMA CountKeepsLogExact ==
    ASSUME TypeOK, CallLogExact,
           NEW h \in Handler, NEW t \in Token, NEW n \in Node, CountAttempt(h, t, n)
    PROVE  CallLogExact'
<1>a. PICK r : r = registry[t]
  OBVIOUS
<1>b. PICK k : k = runs[r].occurrences[n] + 1
  OBVIOUS
<1>1. /\ r \in DOMAIN runs /\ k \in Nat
      /\ DOMAIN runs' = DOMAIN runs
      /\ \A q \in DOMAIN runs : q # r => runs'[q] = runs[q]
      /\ runs'[r].calls = runs[r].calls
      /\ runs'[r].occurrences = [runs[r].occurrences EXCEPT ![n] = k]
  BY <1>a, <1>b, CountEffect
<1>2. /\ handler[h].pc = "idle"
      /\ handler'[h].pc = "responding" /\ handler'[h].run = r
      /\ handler'[h].node = n /\ handler'[h].occurrence = k
      /\ \A g \in Handler : g # h => handler'[g] = handler[g]
  BY <1>a, <1>b DEF CountAttempt, NextAttempt, TypeOK
<1>3. /\ InFlight(r)' = InFlight(r) \cup {h}
      /\ h \notin InFlight(r)
      /\ \A q \in DOMAIN runs : q # r => InFlight(q)' = InFlight(q)
      /\ \A q \in DOMAIN runs : \A g \in InFlight(q) : handler'[g] = handler[g]
  BY <1>a, CountInFlight
<1>4. /\ runs[r].occurrences \in [Node -> Nat]
      /\ \A i \in DOMAIN runs[r].calls : runs[r].calls[i].node \in Node
  BY <1>1, RunTypes
<1>5. \A g \in InFlight(r) : handler[g].node \in Node
  BY DEF InFlight, TypeOK, HandlerState
<1>6. k = runs[r].occurrences[n] + 1
  BY <1>b
<1>7. NumbersWereCounted'
  <2>1. ASSUME NEW q \in DOMAIN runs, q # r
        PROVE  /\ \A i \in DOMAIN runs'[q].calls :
                      runs'[q].calls[i].occurrence \in
                          1..runs'[q].occurrences[runs'[q].calls[i].node]
               /\ \A g \in InFlight(q)' :
                      handler'[g].occurrence \in 1..runs'[q].occurrences[handler'[g].node]
    BY <1>1, <1>3, <2>1 DEF CallLogExact, NumbersWereCounted
  <2>2. ASSUME NEW i \in DOMAIN runs[r].calls
        PROVE  runs[r].calls[i].occurrence \in
                   1..runs'[r].occurrences[runs[r].calls[i].node]
    <3>1. runs[r].calls[i].occurrence \in 1..runs[r].occurrences[runs[r].calls[i].node]
      BY <1>1 DEF CallLogExact, NumbersWereCounted
    <3> QED
      BY <1>1, <1>4, <1>6, <3>1
  <2>3. ASSUME NEW g \in InFlight(r)
        PROVE  handler[g].occurrence \in 1..runs'[r].occurrences[handler[g].node]
    <3>1. handler[g].occurrence \in 1..runs[r].occurrences[handler[g].node]
      BY <1>1 DEF CallLogExact, NumbersWereCounted
    <3> QED
      BY <1>1, <1>4, <1>5, <1>6, <3>1
  <2>4. handler'[h].occurrence \in 1..runs'[r].occurrences[handler'[h].node]
    BY <1>1, <1>2, <1>4, <1>6
  <2>5. ASSUME NEW g \in InFlight(r)'
        PROVE  handler'[g].occurrence \in 1..runs'[r].occurrences[handler'[g].node]
    BY <1>1, <1>3, <2>3, <2>4, <2>5
  <2> QED
    BY <1>1, <2>1, <2>2, <2>5 DEF NumbersWereCounted
<1>8. /\ \A i \in DOMAIN runs[r].calls :
             ~ (runs[r].calls[i].node = n /\ runs[r].calls[i].occurrence = k)
      /\ \A g \in InFlight(r) : ~ (handler[g].node = n /\ handler[g].occurrence = k)
  <2>1. runs[r].occurrences[n] \in Nat /\ k \notin 1..runs[r].occurrences[n]
    BY <1>4, <1>6
  <2> QED
    BY <1>1, <2>1 DEF CallLogExact, NumbersWereCounted
<1>9. NumbersAreUnique'
  <2>1. ASSUME NEW q \in DOMAIN runs, q # r
        PROVE  /\ runs'[q] = runs[q]
               /\ InFlight(q)' = InFlight(q)
               /\ \A g \in InFlight(q) : handler'[g] = handler[g]
    BY <1>1, <1>3, <2>1
  <2>2. /\ runs'[r].calls = runs[r].calls
        /\ InFlight(r)' = InFlight(r) \cup {h}
        /\ \A g \in InFlight(r) : handler'[g] = handler[g]
    BY <1>1, <1>3
  <2>3. \A g, f \in InFlight(r)' :
            /\ handler'[g].node = handler'[f].node
            /\ handler'[g].occurrence = handler'[f].occurrence
            => g = f
    BY <1>1, <1>2, <1>8, <2>2 DEF CallLogExact, NumbersAreUnique
  <2>4. \A g \in InFlight(r)', i \in DOMAIN runs'[r].calls :
            ~ (/\ runs'[r].calls[i].node = handler'[g].node
               /\ runs'[r].calls[i].occurrence = handler'[g].occurrence)
    BY <1>1, <1>2, <1>8, <2>2 DEF CallLogExact, NumbersAreUnique
  <2>5. \A i, j \in DOMAIN runs'[r].calls :
            /\ runs'[r].calls[i].node = runs'[r].calls[j].node
            /\ runs'[r].calls[i].occurrence = runs'[r].calls[j].occurrence
            => i = j
    BY <1>1, <2>2 DEF CallLogExact, NumbersAreUnique
  <2> QED
    BY <1>1, <2>1, <2>3, <2>4, <2>5 DEF CallLogExact, NumbersAreUnique
<1>10. NoAttemptIsLost'
  <2>1. SUFFICES ASSUME NEW q \in DOMAIN runs, NEW m \in Node,
                        NEW l \in 1..runs'[q].occurrences[m]
                 PROVE  \/ \E i \in DOMAIN runs'[q].calls : /\ runs'[q].calls[i].node = m
                                                            /\ runs'[q].calls[i].occurrence = l
                        \/ \E g \in InFlight(q)' : /\ handler'[g].node = m
                                                   /\ handler'[g].occurrence = l
    BY <1>1 DEF NoAttemptIsLost
  <2>2. CASE q = r /\ m = n /\ l = k
    BY <1>2, <1>3, <2>2
  <2>3. CASE ~ (q = r /\ m = n /\ l = k)
    <3>1. l \in 1..runs[q].occurrences[m]
      BY <1>1, <1>4, <1>6, <2>3
    <3>2. runs'[q].calls = runs[q].calls /\ InFlight(q) \subseteq InFlight(q)'
      BY <1>1, <1>3
    <3>3. \A g \in InFlight(q) : handler'[g] = handler[g]
      BY <1>3
    <3> QED
      BY <3>1, <3>2, <3>3 DEF CallLogExact, NoAttemptIsLost
  <2> QED
    BY <2>2, <2>3
<1> QED
  BY <1>7, <1>9, <1>10 DEF CallLogExact

\* Logging moves one number from the in-flight requests to the log.
LEMMA LogKeepsLogExact ==
    ASSUME TypeOK, CallLogExact, NEW h \in Handler, LogCall(h)
    PROVE  CallLogExact'
<1>a. PICK r : r = handler[h].run
  OBVIOUS
<1>b. PICK last : last = Len(runs[r].calls) + 1
  OBVIOUS
<1>1. /\ r \in DOMAIN runs
      /\ CallOf(h) \in Call
      /\ DOMAIN runs' = DOMAIN runs
      /\ \A q \in DOMAIN runs : q # r => runs'[q] = runs[q]
      /\ runs'[r].calls = Append(runs[r].calls, CallOf(h))
      /\ runs[r].calls \in Seq(Call)
      /\ runs'[r].occurrences = runs[r].occurrences
  BY <1>a, LogEffect
<1>2. /\ h \in InFlight(r)
      /\ handler'[h].pc = "answering"
      /\ \A g \in Handler : g # h => handler'[g] = handler[g]
  BY <1>a DEF LogCall, TypeOK, HandlerState, InFlight
<1>3. /\ InFlight(r)' = InFlight(r) \ {h}
      /\ \A q \in DOMAIN runs : q # r => InFlight(q)' = InFlight(q)
      /\ \A q \in DOMAIN runs : \A g \in InFlight(q)' : handler'[g] = handler[g]
  BY <1>a, LogInFlight
<1>4. /\ DOMAIN runs[r].calls = 1..Len(runs[r].calls) /\ Len(runs[r].calls) \in Nat
      /\ DOMAIN runs'[r].calls = DOMAIN runs[r].calls \cup {last}
      /\ last \notin DOMAIN runs[r].calls
      /\ \A i \in DOMAIN runs[r].calls : runs'[r].calls[i] = runs[r].calls[i]
      /\ runs'[r].calls[last] = CallOf(h)
  <2>1. /\ DOMAIN runs[r].calls = 1..Len(runs[r].calls) /\ Len(runs[r].calls) \in Nat
        /\ Append(runs[r].calls, CallOf(h)) \in Seq(Call)
        /\ Len(Append(runs[r].calls, CallOf(h))) = last
        /\ \A i \in 1..Len(runs[r].calls) : Append(runs[r].calls, CallOf(h))[i] = runs[r].calls[i]
        /\ Append(runs[r].calls, CallOf(h))[last] = CallOf(h)
    BY <1>1, <1>b, AppendProperties, LenProperties
  <2>2. DOMAIN Append(runs[r].calls, CallOf(h)) = 1..last
    BY <2>1, LenProperties
  <2>3. 1..last = 1..Len(runs[r].calls) \cup {last}
    <3>1. \A m \in Nat : 1..(m + 1) = 1..m \cup {m + 1}
      OBVIOUS
    <3> QED
      BY <2>1, <3>1, <1>b
  <2> QED
    BY <1>1, <1>b, <2>1, <2>2, <2>3
<1>5. CallOf(h).node = handler[h].node /\ CallOf(h).occurrence = handler[h].occurrence
  BY DEF CallOf
<1>6. NumbersWereCounted'
  <2>1. \A i \in DOMAIN runs'[r].calls :
            runs'[r].calls[i].occurrence \in 1..runs[r].occurrences[runs'[r].calls[i].node]
    BY <1>1, <1>2, <1>4, <1>5 DEF CallLogExact, NumbersWereCounted
  <2>2. \A g \in InFlight(r)' : handler'[g].occurrence \in 1..runs[r].occurrences[handler'[g].node]
    BY <1>1, <1>3 DEF CallLogExact, NumbersWereCounted
  <2>3. ASSUME NEW q \in DOMAIN runs, q # r
        PROVE  /\ \A i \in DOMAIN runs'[q].calls :
                      runs'[q].calls[i].occurrence \in
                          1..runs'[q].occurrences[runs'[q].calls[i].node]
               /\ \A g \in InFlight(q)' :
                      handler'[g].occurrence \in 1..runs'[q].occurrences[handler'[g].node]
    BY <1>1, <1>3, <2>3 DEF CallLogExact, NumbersWereCounted
  <2> QED
    BY <1>1, <2>1, <2>2, <2>3 DEF NumbersWereCounted
<1>7. NumbersAreUnique'
  <2>1. \A i, j \in DOMAIN runs'[r].calls :
            /\ runs'[r].calls[i].node = runs'[r].calls[j].node
            /\ runs'[r].calls[i].occurrence = runs'[r].calls[j].occurrence
            => i = j
    BY <1>1, <1>2, <1>4, <1>5 DEF CallLogExact, NumbersAreUnique
  <2>2. \A g \in InFlight(r)', i \in DOMAIN runs'[r].calls :
            ~ (/\ runs'[r].calls[i].node = handler'[g].node
               /\ runs'[r].calls[i].occurrence = handler'[g].occurrence)
    BY <1>1, <1>2, <1>3, <1>4, <1>5 DEF CallLogExact, NumbersAreUnique
  <2>3. \A g, f \in InFlight(r)' :
            /\ handler'[g].node = handler'[f].node
            /\ handler'[g].occurrence = handler'[f].occurrence
            => g = f
    BY <1>1, <1>3 DEF CallLogExact, NumbersAreUnique
  <2>4. ASSUME NEW q \in DOMAIN runs, q # r
        PROVE  /\ runs'[q] = runs[q]
               /\ InFlight(q)' = InFlight(q)
               /\ \A g \in InFlight(q) : handler'[g] = handler[g]
    BY <1>1, <1>3, <2>4
  <2>5. ASSUME NEW q \in DOMAIN runs, q # r
        PROVE  /\ \A i, j \in DOMAIN runs'[q].calls :
                      /\ runs'[q].calls[i].node = runs'[q].calls[j].node
                      /\ runs'[q].calls[i].occurrence = runs'[q].calls[j].occurrence
                      => i = j
               /\ \A g, f \in InFlight(q)' :
                      /\ handler'[g].node = handler'[f].node
                      /\ handler'[g].occurrence = handler'[f].occurrence
                      => g = f
               /\ \A g \in InFlight(q)', i \in DOMAIN runs'[q].calls :
                      ~ (/\ runs'[q].calls[i].node = handler'[g].node
                         /\ runs'[q].calls[i].occurrence = handler'[g].occurrence)
    <3>1. /\ runs'[q] = runs[q]
          /\ InFlight(q)' = InFlight(q)
          /\ \A g \in InFlight(q) : handler'[g] = handler[g]
      BY <2>4, <2>5
    <3>2. NumbersAreUnique
      BY DEF CallLogExact
    <3> QED
      BY <3>1, <3>2 DEF NumbersAreUnique
  <2>6. /\ \A i, j \in DOMAIN runs'[r].calls :
               /\ runs'[r].calls[i].node = runs'[r].calls[j].node
               /\ runs'[r].calls[i].occurrence = runs'[r].calls[j].occurrence
               => i = j
        /\ \A g, f \in InFlight(r)' :
               /\ handler'[g].node = handler'[f].node
               /\ handler'[g].occurrence = handler'[f].occurrence
               => g = f
        /\ \A g \in InFlight(r)', i \in DOMAIN runs'[r].calls :
               ~ (/\ runs'[r].calls[i].node = handler'[g].node
                  /\ runs'[r].calls[i].occurrence = handler'[g].occurrence)
    BY <2>1, <2>2, <2>3
  <2>7. DOMAIN runs' = DOMAIN runs
    BY <1>1
  <2> QED
    BY <2>5, <2>6, <2>7, Zenon DEF NumbersAreUnique
<1>8. NoAttemptIsLost'
  <2>1. SUFFICES ASSUME NEW q \in DOMAIN runs, NEW m \in Node,
                        NEW l \in 1..runs[q].occurrences[m]
                 PROVE  \/ \E i \in DOMAIN runs'[q].calls : /\ runs'[q].calls[i].node = m
                                                            /\ runs'[q].calls[i].occurrence = l
                        \/ \E g \in InFlight(q)' : /\ handler'[g].node = m
                                                   /\ handler'[g].occurrence = l
    BY <1>1 DEF NoAttemptIsLost
  <2>2. CASE q # r
    BY <1>1, <1>3, <2>2 DEF CallLogExact, NoAttemptIsLost
  <2>3. CASE q = r
    <3>1. CASE \E i \in DOMAIN runs[r].calls : /\ runs[r].calls[i].node = m
                                               /\ runs[r].calls[i].occurrence = l
      BY <1>4, <2>3, <3>1
    <3>2. CASE \E g \in InFlight(r) : handler[g].node = m /\ handler[g].occurrence = l
      <4>1. PICK g \in InFlight(r) : handler[g].node = m /\ handler[g].occurrence = l
        BY <3>2
      <4>2. CASE g = h
        BY <1>4, <1>5, <2>3, <4>1, <4>2
      <4>3. CASE g # h
        BY <1>1, <1>3, <2>3, <4>1, <4>3
      <4> QED
        BY <4>2, <4>3
    <3> QED
      BY <2>3, <3>1, <3>2 DEF CallLogExact, NoAttemptIsLost
  <2> QED
    BY <2>2, <2>3
<1> QED
  BY <1>6, <1>7, <1>8 DEF CallLogExact

\* Every action keeps the log exact: the inductive step of CallLogIsExact, one case
\* per operation of the registry (mocks.py 122-174) and of its threads.
LEMMA LogExactStep == TypeOK /\ CallLogExact /\ [Next]_vars => CallLogExact'
<1> SUFFICES ASSUME TypeOK, CallLogExact, [Next]_vars PROVE CallLogExact'
  OBVIOUS
<1>1. ASSUME NEW t \in Token, NEW test \in Test, Open(t, test) PROVE CallLogExact'
  BY <1>1, OpenKeepsLogExact
<1>2. ASSUME NEW t \in Token, Close(t) PROVE CallLogExact'
  BY <1>2, FrameKeepsLogExact DEF Close
<1>3. ASSUME NEW h \in Handler, NEW t \in Token, NEW n \in Node, CountAttempt(h, t, n)
      PROVE  CallLogExact'
  BY <1>3, CountKeepsLogExact
<1>4. ASSUME NEW h \in Handler, NEW t \in Token, RefuseUnknownRun(h, t) PROVE CallLogExact'
  <2>1. [Idle EXCEPT !.pc = "answering"].pc = "answering"
    BY IdleType DEF HandlerState
  <2> QED
    BY <1>4, <2>1, FrameKeepsLogExact DEF RefuseUnknownRun, TypeOK
<1>5. ASSUME NEW h \in Handler, LogCall(h) PROVE CallLogExact'
  BY <1>5, LogKeepsLogExact
<1>6. ASSUME NEW h \in Handler, Answer(h) PROVE CallLogExact'
  BY <1>6, IdleType, FrameKeepsLogExact DEF Answer, TypeOK
<1>7. ASSUME Tick PROVE CallLogExact'
  BY <1>7, FrameKeepsLogExact DEF Tick
<1>8. ASSUME UNCHANGED vars PROVE CallLogExact'
  BY <1>8, FrameKeepsLogExact DEF vars
<1> QED
  BY <1>1, <1>2, <1>3, <1>4, <1>5, <1>6, <1>7, <1>8 DEF Next, Respond

\* However many threads serve however many runs, and however open, close and the
\* sweep interleave with them, no attempt on a mock endpoint is lost or recorded twice.
THEOREM CallLogIsExact == Spec => []CallLogExact
<1>1. Init => CallLogExact
  BY DEF Init, CallLogExact, NumbersWereCounted, NumbersAreUnique, NoAttemptIsLost
<1>2. Init => TypeOK
  BY IdleType, EmptySeq, RegistryAssumption DEF Init, TypeOK
<1> QED
  BY <1>1, <1>2, TypeStep, LogExactStep, PTL DEF Spec
-----------------------------------------------------------------------------
(***************************************************************************)
(* The registry implements MockTranscript.                                  *)
(***************************************************************************)

\* What the refinement mapping takes for the attempts of a run.
Attempts(r) == LoggedAttempts(r) \cup PendingAttempts(r)

\* An attempt is a call in the log or the call that a thread between the two lock
\* sections (mocks.py 147-168) will log.
LEMMA AttemptOrigin ==
    ASSUME NEW r
    PROVE  \A a : a \in Attempts(r) <=> \/ \E i \in DOMAIN runs[r].calls : a = runs[r].calls[i]
                                        \/ \E h \in InFlight(r) : a = CallOf(h)
<1>1. PendingAttempts(r) = {CallOf(h) : h \in InFlight(r)}
  BY DEF PendingAttempts, CallOf, InFlight
<1> QED
  BY <1>1 DEF Attempts, LoggedAttempts

\* The numbers of the attempts on a node are exactly those the counter gave out, each
\* once (mocks.py 147-154).
LEMMA AttemptNumbers ==
    ASSUME TypeOK, CallLogExact, NEW r \in DOMAIN runs, NEW n \in Node
    PROVE  LET made == {a \in Attempts(r) : a.node = n}
               last == runs[r].occurrences[n]
           IN  /\ \A a \in made : a.occurrence \in 1..last
               /\ \A a, b \in made : a.occurrence = b.occurrence => a = b
               /\ \A k \in 1..last : \E a \in made : a.occurrence = k
<1> DEFINE made == {a \in Attempts(r) : a.node = n}
           last == runs[r].occurrences[n]
<1>1. \A h : CallOf(h).node = handler[h].node /\ CallOf(h).occurrence = handler[h].occurrence
  BY DEF CallOf
<1>2. \A a \in made : a.occurrence \in 1..last
  BY <1>1, AttemptOrigin DEF CallLogExact, NumbersWereCounted
<1>3. \A a, b \in made : a.occurrence = b.occurrence => a = b
  <2>1. SUFFICES ASSUME NEW a \in made, NEW b \in made, a.occurrence = b.occurrence
                 PROVE  a = b
    OBVIOUS
  <2>2. NumbersAreUnique
    BY DEF CallLogExact
  <2>3. ASSUME NEW i \in DOMAIN runs[r].calls, a = runs[r].calls[i]
        PROVE  a = b
    BY <1>1, <2>1, <2>2, <2>3, AttemptOrigin DEF NumbersAreUnique
  <2>4. ASSUME NEW h \in InFlight(r), a = CallOf(h)
        PROVE  a = b
    BY <1>1, <2>1, <2>2, <2>4, AttemptOrigin DEF NumbersAreUnique
  <2> QED
    BY <2>3, <2>4, AttemptOrigin
<1>4. \A k \in 1..last : \E a \in made : a.occurrence = k
  <2>1. SUFFICES ASSUME NEW k \in 1..last PROVE \E a \in made : a.occurrence = k
    OBVIOUS
  <2> QED
    BY <1>1, AttemptOrigin DEF CallLogExact, NoAttemptIsLost
<1> QED
  BY <1>2, <1>3, <1>4

\* A run has as many attempts on a node as its counter says.
LEMMA CounterCounts ==
    ASSUME TypeOK, CallLogExact, NEW r \in DOMAIN runs, NEW n \in Node
    PROVE  Cardinality({a \in Attempts(r) : a.node = n}) = runs[r].occurrences[n]
<1> DEFINE made == {a \in Attempts(r) : a.node = n}
           last == runs[r].occurrences[n]
           number == [a \in made |-> a.occurrence]
<1>2. last \in Nat
  BY RunTypes
<1>3. /\ \A a \in made : a.occurrence \in 1..last
      /\ \A a, b \in made : a.occurrence = b.occurrence => a = b
      /\ \A k \in 1..last : \E a \in made : a.occurrence = k
  BY AttemptNumbers
<1>4. number \in [made -> 1..last]
  BY <1>3
<1>5. /\ \A a, b \in made : number[a] = number[b] => a = b
      /\ \A k \in 1..last : \E a \in made : number[a] = k
  <2> HIDE DEF made, last
  <2> QED
    BY <1>3
<1>6. number \in Bijection(made, 1..last)
  <2> HIDE DEF made, last, number
  <2> QED
    BY <1>4, <1>5, Fun_IsBij
<1>7. ExistsBijection(1..last, made)
  <2> HIDE DEF made, last, number
  <2> QED
    BY <1>6, Fun_ExistsBijSymmetric DEF ExistsBijection
<1>8. IsFiniteSet(1..last) /\ Cardinality(1..last) = last
  <2> HIDE DEF last
  <2>1. IsFiniteSet(1..last) /\ Cardinality(1..last) = IF 1 > last THEN 0 ELSE last - 1 + 1
    BY <1>2, FS_Interval
  <2> QED
    BY <1>2, <2>1
<1> HIDE DEF made, last
<1> QED
  BY <1>7, <1>8, FS_Bijection DEF made, last

\* The answer picked (mocks.py 151-156, 184-223) is one that the test declares for that
\* attempt.
LEMMA AnswerIsAllowed ==
    ASSUME NEW test \in TestSet(Node), NEW n \in Node, NEW k \in Nat
    PROVE  BuildResponse(InjectionFor(test, n, k), MockFor(test, n))
               \in Transcript!Allowed(test, n, k)
<1> DEFINE injected == {Transcript!BuildResponse(<< test.failures[i] >>, << >>)
                            : i \in Transcript!Declared(test, n, k)}
           mocks == {j \in DOMAIN test.mocks : test.mocks[j].node = n}
           mocked == {Transcript!BuildResponse(<< >>, << test.mocks[i] >>) : i \in mocks}
           answer == BuildResponse(InjectionFor(test, n, k), MockFor(test, n))
<1>1. Transcript!Declared(test, n, k) = Declared(test, n, k)
  BY DEF Transcript!Declared, Declared
<1>2. /\ \A type : Transcript!InjectedResponse(type) = InjectedResponse(type)
      /\ \A mock : Transcript!MockedResponse(mock) = MockedResponse(mock)
  BY DEF Transcript!InjectedResponse, InjectedResponse, Transcript!MockedResponse,
         MockedResponse, Transcript!FailureStatus, FailureStatus
<1>3. Transcript!Allowed(test, n, k) = IF injected # {} THEN injected
                                       ELSE IF mocked # {} THEN mocked
                                       ELSE {Transcript!BuildResponse(<< >>, << >>)}
  BY DEF Transcript!Allowed
<1>4. CASE InjectionFor(test, n, k) # << >>
  <2>1. PICK i \in Declared(test, n, k) : InjectionFor(test, n, k) = << test.failures[i] >>
    BY <1>4, InjectionForProperties
  <2>2. answer = Transcript!BuildResponse(<< test.failures[i] >>, << >>)
    BY <1>2, <1>4, <2>1 DEF BuildResponse, Transcript!BuildResponse
  <2>3. answer \in injected
    BY <1>1, <2>1, <2>2
  <2> QED
    BY <1>3, <2>3
<1>5. CASE InjectionFor(test, n, k) = << >> /\ MockFor(test, n) # << >>
  <2>1. PICK i \in mocks : MockFor(test, n) = << test.mocks[i] >>
    BY <1>5, MockForProperties
  <2>2. answer = Transcript!BuildResponse(<< >>, << test.mocks[i] >>)
    BY <1>2, <1>5, <2>1 DEF BuildResponse, Transcript!BuildResponse
  <2>3. answer \in mocked
    BY <2>1, <2>2
  <2>4. injected = {}
    BY <1>1, <1>5, InjectionForProperties
  <2> QED
    BY <1>3, <2>3, <2>4
<1>6. CASE InjectionFor(test, n, k) = << >> /\ MockFor(test, n) = << >>
  <2>1. mocked = {}
    BY <1>6, MockForProperties
  <2>2. injected = {}
    BY <1>1, <1>6, InjectionForProperties
  <2>3. answer = Transcript!BuildResponse(<< >>, << >>)
    BY <1>6 DEF BuildResponse, Transcript!BuildResponse
  <2> QED
    BY <1>3, <2>1, <2>2, <2>3
<1> QED
  BY <1>4, <1>5, <1>6
\* A run whose log, test and requests in flight stay as they are keeps its attempts.
LEMMA AttemptsFrame ==
    ASSUME NEW q, runs'[q].calls = runs[q].calls, runs'[q].test = runs[q].test,
           InFlight(q)' = InFlight(q),
           \A h \in InFlight(q) : handler'[h] = handler[h]
    PROVE  Attempts(q)' = Attempts(q)
BY DEF Attempts, LoggedAttempts, PendingAttempts

\* Appending an entry to a table indexed from one.
LEMMA AppendEntry ==
    ASSUME NEW size \in Nat, NEW table, table = [i \in 1..size |-> table[i]], NEW x
    PROVE  /\ Len(table) = size
           /\ Append(table, x) = [i \in 1..(size + 1) |-> IF i = size + 1 THEN x ELSE table[i]]
<1> DEFINE Value == {table[i] : i \in 1..size} \cup {x}
<1>1. table \in [1..size -> Value]
  OBVIOUS
<1>2. table \in Seq(Value)
  <2> HIDE DEF Value
  <2> QED
    BY <1>1
<1>3. Len(table) = size
  <2> HIDE DEF Value
  <2> QED
    BY <1>1, <1>2
<1>4. x \in Value
  OBVIOUS
<1>5. Append(table, x) = [i \in 1..(size + 1) |-> IF i = size + 1 THEN x ELSE table[i]]
  <2> HIDE DEF Value
  <2>1. /\ Append(table, x) \in Seq(Value)
        /\ Len(Append(table, x)) = size + 1
        /\ \A i \in 1..size : Append(table, x)[i] = table[i]
        /\ Append(table, x)[size + 1] = x
    BY <1>2, <1>3, <1>4, AppendProperties
  <2>2. Append(table, x) = [i \in 1..(size + 1) |-> Append(table, x)[i]]
    BY <2>1, LenProperties
  <2> QED
    BY <2>1, <2>2
<1> QED
  BY <1>3, <1>5

\* The state of the transcript that the refinement mapping computes.
TestsOf == [r \in DOMAIN runs |-> runs[r].test]
AttemptsOf == [r \in DOMAIN runs |-> Attempts(r)]

\* Opening a run (mocks.py 122-131) opens one without attempts, and the sweep only
\* removes registrations.
LEMMA OpenIsOpen ==
    ASSUME TypeOK, NEW t \in Token, NEW test \in Test, Open(t, test)
    PROVE  Transcript!TOpen(t, test)
<1>a. PICK size : size = Len(runs)
  OBVIOUS
<1>0. size \in Nat /\ DOMAIN runs = 1..size
  BY <1>a, LenProperties DEF TypeOK
<1>1. /\ DOMAIN runs' = 1..(size + 1)
      /\ \A q \in DOMAIN runs : runs'[q] = runs[q]
      /\ runs'[size + 1] = NewRun(t, test)
  BY <1>a, <1>0, OpenEffect
<1>2. handler' = handler
  BY DEF Open
<1>3. \A q : InFlight(q)' = InFlight(q)
  BY <1>2 DEF InFlight
<1>4. \A q \in DOMAIN runs : Attempts(q)' = Attempts(q)
  BY <1>1, <1>2, <1>3, AttemptsFrame
<1>5. Attempts(size + 1)' = {}
  <2>1. runs'[size + 1].calls = << >>
    BY <1>1 DEF NewRun
  <2>2. InFlight(size + 1) = {}
    BY <1>a, <1>0 DEF InFlight, TypeOK
  <2> QED
    BY <1>3, <2>1, <2>2 DEF Attempts, LoggedAttempts, PendingAttempts
<1>6. Len(TestsOf) = size /\ TestsOf' = Append(TestsOf, test)
  <2>1. runs'[size + 1].test = test
    BY <1>1 DEF NewRun
  <2>2. TestsOf = [i \in 1..size |-> TestsOf[i]]
    BY <1>0 DEF TestsOf
  <2>3. TestsOf' = [i \in 1..(size + 1) |-> IF i = size + 1 THEN test ELSE TestsOf[i]]
    <3>1. \A i \in 1..(size + 1) : i = size + 1 \/ i \in DOMAIN runs
      BY <1>0
    <3>2. \A i \in 1..(size + 1) :
              runs'[i].test = IF i = size + 1 THEN test ELSE TestsOf[i]
      BY <1>1, <2>1, <3>1 DEF TestsOf
    <3> QED
      BY <1>1, <3>2 DEF TestsOf
  <2> QED
    BY <1>0, <2>2, <2>3, AppendEntry
<1>7. AttemptsOf' = Append(AttemptsOf, {})
  <2>1. AttemptsOf = [i \in 1..size |-> AttemptsOf[i]]
    BY <1>0 DEF AttemptsOf
  <2>2. AttemptsOf' = [i \in 1..(size + 1) |-> IF i = size + 1 THEN {} ELSE AttemptsOf[i]]
    <3>1. \A i \in 1..(size + 1) : i = size + 1 \/ i \in DOMAIN runs
      BY <1>0
    <3>2. \A i \in 1..(size + 1) :
              Attempts(i)' = IF i = size + 1 THEN {} ELSE AttemptsOf[i]
      BY <1>4, <1>5, <3>1 DEF AttemptsOf
    <3> QED
      BY <1>1, <3>2 DEF AttemptsOf
  <2> QED
    BY <1>0, <2>1, <2>2, AppendEntry
<1>8. /\ size < MaxRuns
      /\ registry' \in [Token -> 0..MaxRuns]
      /\ registry'[t] = size + 1
      /\ \A x \in Token \ {t} : registry'[x] \in {registry[x], 0}
  BY <1>a, <1>0, RegistryAssumption DEF Open, NewIndex, TypeOK
<1> QED
  BY <1>6, <1>7, <1>8
  DEF Transcript!TOpen, TestsOf, AttemptsOf, Attempts

\* The first lock section (mocks.py 147-156) is the moment an attempt is served.
LEMMA CountIsServe ==
    ASSUME TypeOK, CallLogExact,
           NEW h \in Handler, NEW t \in Token, NEW n \in Node, CountAttempt(h, t, n)
    PROVE  Transcript!TServe(t, n)
<1>a. PICK r : r = registry[t]
  OBVIOUS
<1>b. PICK test : test = runs[r].test
  OBVIOUS
<1>c. PICK k : k = runs[r].occurrences[n] + 1
  OBVIOUS
<1>d. PICK answer : answer = BuildResponse(InjectionFor(test, n, k), MockFor(test, n))
  OBVIOUS
<1>1. /\ r \in DOMAIN runs /\ k \in Nat
      /\ DOMAIN runs' = DOMAIN runs
      /\ \A q \in DOMAIN runs : q # r => runs'[q] = runs[q]
      /\ runs'[r].calls = runs[r].calls
      /\ runs'[r].test = runs[r].test
  BY <1>a, <1>c, CountEffect
<1>2. /\ r # 0
      /\ handler'[h] = [pc |-> "responding", run |-> r, node |-> n, occurrence |-> k,
                        response |-> answer]
      /\ registry' = registry
  BY <1>a, <1>b, <1>c, <1>d DEF CountAttempt, NextAttempt, TypeOK
<1>3. /\ InFlight(r)' = InFlight(r) \cup {h}
      /\ \A q \in DOMAIN runs : q # r => InFlight(q)' = InFlight(q)
      /\ \A q \in DOMAIN runs : \A g \in InFlight(q) : handler'[g] = handler[g]
  BY <1>a, CountInFlight
<1>4. test \in TestSet(Node)
  BY <1>b, <1>1, RunTypes
<1>5. answer \in Transcript!Allowed(test, n, k)
  BY <1>d, <1>1, <1>4, AnswerIsAllowed
<1> DEFINE attempt == [node |-> n, occurrence |-> k, status |-> answer.status,
                       error |-> Transcript!Declared(test, n, k) # {}]
<1>6. \A q \in DOMAIN runs : q # r => Attempts(q)' = Attempts(q)
  BY <1>1, <1>3, AttemptsFrame
<1>7. Attempts(r)' = Attempts(r) \cup {attempt}
  <2>1. LoggedAttempts(r)' = LoggedAttempts(r)
    BY <1>1 DEF LoggedAttempts
  <2>2. attempt = [node |-> handler'[h].node, occurrence |-> handler'[h].occurrence,
                   status |-> handler'[h].response.status,
                   error |-> InjectionFor(runs'[r].test, handler'[h].node,
                                          handler'[h].occurrence) # << >>]
    <3>1. Transcript!Declared(test, n, k) = Declared(test, n, k)
      BY DEF Transcript!Declared, Declared
    <3>2. InjectionFor(test, n, k) # << >> <=> Transcript!Declared(test, n, k) # {}
      BY <1>1, <1>4, <3>1, InjectionForProperties
    <3> QED
      BY <1>b, <1>1, <1>2, <3>2
  <2> HIDE DEF attempt
  <2>3. PendingAttempts(r)' = PendingAttempts(r) \cup {attempt}
    BY <1>1, <1>3, <2>2 DEF PendingAttempts
  <2> QED
    BY <2>1, <2>3 DEF Attempts
<1>8. TestsOf' = TestsOf
  BY <1>1 DEF TestsOf
<1>9. /\ AttemptsOf' = [AttemptsOf EXCEPT ![r] = AttemptsOf[r] \cup {attempt}]
      /\ TestsOf[r] = test
      /\ AttemptsOf[r] = Attempts(r)
  <2> HIDE DEF attempt
  <2> QED
    BY <1>b, <1>1, <1>6, <1>7 DEF AttemptsOf, TestsOf
<1>10. Cardinality({a \in AttemptsOf[r] : a.node = n}) + 1 = k
  BY <1>c, <1>1, <1>9, CounterCounts
<1>11. \A S : Transcript!Cardinality(S) = Cardinality(S)
  BY DEF Transcript!Cardinality, Cardinality
<1> QED
  BY <1>a, <1>2, <1>5, <1>8, <1>9, <1>10, <1>11
  DEF Transcript!TServe, Transcript!Made, TestsOf, AttemptsOf, Attempts

\* The second lock section (mocks.py 157-168) moves a call into the log, which is no
\* step of the transcript.
LEMMA LogIsStutter ==
    ASSUME TypeOK, NEW h \in Handler, LogCall(h)
    PROVE  TestsOf' = TestsOf /\ AttemptsOf' = AttemptsOf
<1>a. PICK r : r = handler[h].run
  OBVIOUS
<1>b. PICK call : call = CallOf(h)
  OBVIOUS
<1>1. /\ r \in DOMAIN runs
      /\ call \in Call
      /\ DOMAIN runs' = DOMAIN runs
      /\ \A q \in DOMAIN runs : q # r => runs'[q] = runs[q]
      /\ runs'[r].calls = Append(runs[r].calls, call)
      /\ runs[r].calls \in Seq(Call)
      /\ runs'[r].test = runs[r].test
  BY <1>a, <1>b, LogEffect
<1>2. /\ h \in InFlight(r)
      /\ InFlight(r)' = InFlight(r) \ {h}
      /\ \A q \in DOMAIN runs : q # r => InFlight(q)' = InFlight(q)
      /\ \A q \in DOMAIN runs : \A g \in InFlight(q)' : handler'[g] = handler[g]
  BY <1>a, LogInFlight
<1>3. \A q \in DOMAIN runs : q # r => Attempts(q)' = Attempts(q)
  BY <1>1, <1>2, AttemptsFrame
<1>4. LoggedAttempts(r)' = LoggedAttempts(r) \cup {call}
  <2>1. /\ DOMAIN runs'[r].calls = DOMAIN runs[r].calls \cup {Len(runs[r].calls) + 1}
        /\ \A i \in DOMAIN runs[r].calls : runs'[r].calls[i] = runs[r].calls[i]
        /\ runs'[r].calls[Len(runs[r].calls) + 1] = call
    <3>1. /\ Len(runs'[r].calls) = Len(runs[r].calls) + 1
          /\ runs'[r].calls \in Seq(Call)
          /\ \A i \in 1..Len(runs[r].calls) : runs'[r].calls[i] = runs[r].calls[i]
          /\ runs'[r].calls[Len(runs[r].calls) + 1] = call
      BY <1>1, AppendProperties
    <3> QED
      BY <1>1, <3>1, LenProperties
  <2> QED
    BY <2>1 DEF LoggedAttempts
<1>5. PendingAttempts(r) = PendingAttempts(r)' \cup {call}
  BY <1>a, <1>b, <1>1, <1>2 DEF PendingAttempts, CallOf
<1>6. Attempts(r)' = Attempts(r)
  BY <1>4, <1>5 DEF Attempts
<1> QED
  BY <1>1, <1>3, <1>6 DEF TestsOf, AttemptsOf

\* Steps that leave the runs alone and neither begin nor end a flight leave the
\* transcripts alone.
LEMMA FrameIsStutter ==
    ASSUME runs' = runs,
           \A h \in Handler : /\ handler'[h].pc = "responding" <=> handler[h].pc = "responding"
                              /\ handler[h].pc = "responding" => handler'[h] = handler[h]
    PROVE  TestsOf' = TestsOf /\ AttemptsOf' = AttemptsOf
<1>1. \A q : InFlight(q)' = InFlight(q)
  BY DEF InFlight
<1>2. \A q : \A h \in InFlight(q) : handler'[h] = handler[h]
  BY DEF InFlight
<1>3. \A q : Attempts(q)' = Attempts(q)
  BY <1>1, <1>2, AttemptsFrame
<1> QED
  BY <1>3 DEF TestsOf, AttemptsOf

\* Every step of the registry is one of the transcript or invisible in it.
LEMMA TranscriptStep ==
    TypeOK /\ CallLogExact /\ [Next]_vars => [Transcript!TNext]_(Transcript!tvars)
<1> SUFFICES ASSUME TypeOK, CallLogExact, [Next]_vars
             PROVE  [Transcript!TNext]_(Transcript!tvars)
  OBVIOUS
<1>1. ASSUME registry' = registry, TestsOf' = TestsOf, AttemptsOf' = AttemptsOf
      PROVE  UNCHANGED Transcript!tvars
  BY <1>1 DEF Transcript!tvars, TestsOf, AttemptsOf, Attempts
<1>2. ASSUME NEW t \in Token, NEW test \in Test, Open(t, test) PROVE Transcript!TNext
  BY <1>2, OpenIsOpen DEF Transcript!TNext
<1>3. ASSUME NEW t \in Token, Close(t) PROVE Transcript!TNext
  <2>1. TestsOf' = TestsOf /\ AttemptsOf' = AttemptsOf
    BY <1>3, FrameIsStutter DEF Close
  <2>2. Transcript!TClose(t)
    BY <1>3, <2>1 DEF Close, Transcript!TClose, TestsOf, AttemptsOf, Attempts
  <2> QED
    BY <2>2 DEF Transcript!TNext
<1>4. ASSUME NEW h \in Handler, NEW t \in Token, NEW n \in Node, CountAttempt(h, t, n)
      PROVE  Transcript!TNext
  BY <1>4, CountIsServe DEF Transcript!TNext
<1>5. ASSUME NEW h \in Handler, NEW t \in Token, RefuseUnknownRun(h, t)
      PROVE  UNCHANGED Transcript!tvars
  <2>1. [Idle EXCEPT !.pc = "answering"].pc = "answering"
    BY IdleType DEF HandlerState
  <2>2. TestsOf' = TestsOf /\ AttemptsOf' = AttemptsOf
    BY <1>5, <2>1, FrameIsStutter DEF RefuseUnknownRun, TypeOK
  <2> QED
    BY <1>1, <1>5, <2>2 DEF RefuseUnknownRun
<1>6. ASSUME NEW h \in Handler, LogCall(h) PROVE UNCHANGED Transcript!tvars
  BY <1>1, <1>6, LogIsStutter DEF LogCall
<1>7. ASSUME NEW h \in Handler, Answer(h) PROVE UNCHANGED Transcript!tvars
  <2>1. TestsOf' = TestsOf /\ AttemptsOf' = AttemptsOf
    BY <1>7, IdleType, FrameIsStutter DEF Answer, TypeOK
  <2> QED
    BY <1>1, <1>7, <2>1 DEF Answer
<1>8. ASSUME Tick PROVE UNCHANGED Transcript!tvars
  BY <1>1, <1>8, FrameIsStutter DEF Tick
<1>9. ASSUME UNCHANGED vars PROVE UNCHANGED Transcript!tvars
  BY <1>1, <1>9, FrameIsStutter DEF vars
<1> QED
  BY <1>2, <1>3, <1>4, <1>5, <1>6, <1>7, <1>8, <1>9 DEF Next, Respond

\* The registry implements its abstract specification: although respond() takes the
\* lock twice and the log lags behind (mocks.py 147-168), every behaviour is one in
\* which each attempt is numbered and answered in a single step.
THEOREM RegistryImplementsTranscript == Spec => TranscriptSpec
<1>1. Init => Transcript!TInit
  BY EmptySeq DEF Init, Transcript!TInit
<1>2. Init => TypeOK
  BY IdleType, EmptySeq, RegistryAssumption DEF Init, TypeOK
<1>3. Init => CallLogExact
  BY DEF Init, CallLogExact, NumbersWereCounted, NumbersAreUnique, NoAttemptIsLost
<1> QED
  BY <1>1, <1>2, <1>3, TypeStep, LogExactStep, TranscriptStep, PTL
  DEF Spec, TranscriptSpec, Transcript!TSpec
-----------------------------------------------------------------------------
(***************************************************************************)
(* Injections fire on the attempt they are declared for.  An answer is what  *)
(* the test says of its own number (AnswersAreBuilt, inductive), the numbers *)
(* of the answers given are 1 to k (AttemptNumbers), and so the answers can  *)
(* be lined up with the attempts 1 to k.                                     *)
(***************************************************************************)

\* What a test makes of attempt k on a node.
Built(test, n, k) == BuildResponse(InjectionFor(test, n, k), MockFor(test, n))

\* A logged call says what its test makes of its number.
Faithful(test, calls) ==
    \A i \in DOMAIN calls :
        /\ calls[i].status = Built(test, calls[i].node, calls[i].occurrence).status
        /\ calls[i].error = (InjectionFor(test, calls[i].node, calls[i].occurrence) # << >>)

\* Between its two lock sections a request holds the answer built for its number.
HoldsBuilt(h) ==
    handler[h].response =
        Built(runs[handler[h].run].test, handler[h].node, handler[h].occurrence)

AnswersAreBuilt == /\ \A r \in DOMAIN runs : Faithful(runs[r].test, runs[r].calls)
                   /\ \A h \in Handler : handler[h].pc = "responding" => HoldsBuilt(h)

\* A step that leaves the tests of the runs and the responding threads alone keeps what
\* those threads hold.
LEMMA FrameKeepsHeld ==
    ASSUME TypeOK, AnswersAreBuilt,
           \A r \in DOMAIN runs : runs'[r].test = runs[r].test,
           NEW h \in Handler, handler'[h] = handler[h], handler'[h].pc = "responding"
    PROVE  HoldsBuilt(h)'
<1>1. handler[h].run \in DOMAIN runs /\ HoldsBuilt(h)
  BY DEF TypeOK, AnswersAreBuilt
<1>2. runs'[handler[h].run].test = runs[handler[h].run].test
  BY <1>1
<1>3. Built(runs[handler[h].run].test, handler[h].node, handler[h].occurrence)'
        = Built(runs[handler[h].run].test, handler[h].node, handler[h].occurrence)
  BY <1>2 DEF Built
<1> QED
  BY <1>1, <1>3 DEF HoldsBuilt

\* Every action keeps answers and numbers together: an answer is built for the node and
\* attempt that the same thread counted, and logged with them (mocks.py 151-168).
LEMMA BuiltStep == TypeOK /\ AnswersAreBuilt /\ [Next]_vars => AnswersAreBuilt'
<1> SUFFICES ASSUME TypeOK, AnswersAreBuilt, [Next]_vars PROVE AnswersAreBuilt'
  OBVIOUS
<1>0. \A r \in DOMAIN runs : Faithful(runs[r].test, runs[r].calls)
  BY DEF AnswersAreBuilt
<1>1. ASSUME NEW t \in Token, NEW test \in Test, Open(t, test) PROVE AnswersAreBuilt'
  <2>1. ASSUME NEW r \in DOMAIN runs' PROVE Faithful(runs'[r].test, runs'[r].calls)
    <3>1. CASE r \in DOMAIN runs
      BY <1>0, <1>1, <3>1, OpenEffect
    <3>2. CASE r \notin DOMAIN runs
      <4>1. runs'[r] = NewRun(t, test)
        BY <1>1, <2>1, <3>2, OpenEffect
      <4>2. runs'[r].calls = << >>
        BY <4>1 DEF NewRun
      <4> QED
        BY <4>2 DEF Faithful
    <3> QED
      BY <3>1, <3>2
  <2>2. \A r \in DOMAIN runs : runs'[r].test = runs[r].test
    BY <1>1, OpenEffect
  <2>3. handler' = handler
    BY <1>1 DEF Open
  <2> QED
    BY <2>1, <2>2, <2>3, FrameKeepsHeld DEF AnswersAreBuilt, Faithful
<1>2. ASSUME NEW h \in Handler, NEW t \in Token, NEW n \in Node, CountAttempt(h, t, n)
      PROVE  AnswersAreBuilt'
  <2> DEFINE r == registry[t]
             k == runs[r].occurrences[n] + 1
  <2>1. /\ r \in DOMAIN runs
        /\ DOMAIN runs' = DOMAIN runs
        /\ \A q \in DOMAIN runs : runs'[q].test = runs[q].test /\ runs'[q].calls = runs[q].calls
    BY <1>2, CountEffect
  <2>2. handler' = [handler EXCEPT ![h] =
            [pc |-> "responding", run |-> r, node |-> n, occurrence |-> k,
             response |-> Built(runs[r].test, n, k)]]
    BY <1>2 DEF CountAttempt, NextAttempt, Built
  <2> HIDE DEF r, k
  <2>3. /\ handler'[h].run = r /\ handler'[h].node = n /\ handler'[h].occurrence = k
        /\ handler'[h].response = Built(runs[r].test, n, k)
        /\ \A g \in Handler : g # h => handler'[g] = handler[g]
    BY <2>2 DEF TypeOK
  <2>4. HoldsBuilt(h)'
    <3>1. Built(runs[handler[h].run].test, handler[h].node, handler[h].occurrence)'
            = Built(runs[r].test, n, k)
      BY <2>1, <2>3 DEF Built
    <3> QED
      BY <2>3, <3>1 DEF HoldsBuilt
  <2>5. \A g \in Handler : handler'[g].pc = "responding" => HoldsBuilt(g)'
    BY <2>1, <2>3, <2>4, FrameKeepsHeld
  <2> QED
    BY <1>0, <2>1, <2>5 DEF AnswersAreBuilt, Faithful
<1>3. ASSUME NEW h \in Handler, LogCall(h) PROVE AnswersAreBuilt'
  <2> DEFINE r == handler[h].run
  <2>1. /\ r \in DOMAIN runs
        /\ DOMAIN runs' = DOMAIN runs
        /\ \A q \in DOMAIN runs : runs'[q].test = runs[q].test
        /\ \A q \in DOMAIN runs : q # r => runs'[q].calls = runs[q].calls
        /\ runs'[r].calls = Append(runs[r].calls, CallOf(h))
        /\ runs[r].calls \in Seq(Call)
        /\ CallOf(h) \in Call
    BY <1>3, LogEffect
  <2>2. HoldsBuilt(h)
    BY <1>3 DEF LogCall, AnswersAreBuilt
  <2>3. /\ CallOf(h).status = Built(runs[r].test, CallOf(h).node, CallOf(h).occurrence).status
        /\ CallOf(h).error = (InjectionFor(runs[r].test, CallOf(h).node,
                                           CallOf(h).occurrence) # << >>)
    BY <2>2 DEF HoldsBuilt, CallOf
  <2>4. \A i \in DOMAIN runs'[r].calls :
            \/ i \in DOMAIN runs[r].calls /\ runs'[r].calls[i] = runs[r].calls[i]
            \/ runs'[r].calls[i] = CallOf(h)
    BY <2>1, AppendProperties, LenProperties
  <2> HIDE DEF r
  <2>5. ASSUME NEW q \in DOMAIN runs' PROVE Faithful(runs'[q].test, runs'[q].calls)
    <3>1. CASE q # r
      BY <1>0, <2>1, <3>1
    <3>2. CASE q = r
      <4>1. Faithful(runs[r].test, runs[r].calls) /\ runs'[r].test = runs[r].test
        BY <1>0, <2>1
      <4>2. ASSUME NEW i \in DOMAIN runs'[r].calls
            PROVE  LET c == runs'[r].calls[i]
                   IN  /\ c.status = Built(runs[r].test, c.node, c.occurrence).status
                       /\ c.error = (InjectionFor(runs[r].test, c.node,
                                                  c.occurrence) # << >>)
        <5>1. CASE i \in DOMAIN runs[r].calls /\ runs'[r].calls[i] = runs[r].calls[i]
          BY <4>1, <5>1 DEF Faithful
        <5>2. CASE runs'[r].calls[i] = CallOf(h)
          BY <2>3, <5>2
        <5> QED
          BY <2>4, <5>1, <5>2
      <4> QED
        BY <3>2, <4>1, <4>2 DEF Faithful
    <3> QED
      BY <3>1, <3>2
  <2>6. \A g \in Handler : handler'[g].pc = "responding" => handler'[g] = handler[g]
    BY <1>3 DEF LogCall, TypeOK
  <2>7. \A g \in Handler : handler'[g].pc = "responding" => HoldsBuilt(g)'
    BY <2>1, <2>6, FrameKeepsHeld
  <2> QED
    BY <2>5, <2>7 DEF AnswersAreBuilt, Faithful
<1>4. ASSUME runs' = runs,
             \A g \in Handler : handler'[g].pc = "responding" => handler'[g] = handler[g]
      PROVE  AnswersAreBuilt'
  <2>1. \A g \in Handler : handler'[g].pc = "responding" => HoldsBuilt(g)'
    BY <1>4, FrameKeepsHeld
  <2> QED
    BY <1>0, <1>4, <2>1 DEF AnswersAreBuilt, Faithful
<1>5. ASSUME NEW h \in Handler, NEW t \in Token, RefuseUnknownRun(h, t) PROVE AnswersAreBuilt'
  <2>1. [Idle EXCEPT !.pc = "answering"].pc = "answering"
    BY IdleType DEF HandlerState
  <2> QED
    BY <1>4, <1>5, <2>1 DEF RefuseUnknownRun, TypeOK
<1>6. ASSUME NEW h \in Handler, Answer(h) PROVE AnswersAreBuilt'
  BY <1>4, <1>6, IdleType DEF Answer, TypeOK
<1> QED
  BY <1>1, <1>2, <1>3, <1>4, <1>5, <1>6 DEF Next, Respond, Close, Tick, vars

\* The answer built for an attempt is the one the test promises it: the first injection
\* declared for it wins (mocks.py 184-188), then the node's last mock (mocks.py 125).
LEMMA BuiltIsPromised ==
    ASSUME NEW test \in TestSet(Node), NEW n \in Node, NEW k \in Nat, NEW answer,
           answer.status = Built(test, n, k).status,
           answer.error = (InjectionFor(test, n, k) # << >>)
    PROVE  Promised(test, n, k, answer)
<1> DEFINE fails(i) == test.failures[i].node = n /\ test.failures[i].occurrence = k
           mocks(i) == test.mocks[i].node = n
           hits == {i \in DOMAIN test.mocks : mocks(i)}
<1>0. /\ Len(test.failures) \in Nat /\ DOMAIN test.failures = 1..Len(test.failures)
      /\ Len(test.mocks) \in Nat /\ DOMAIN test.mocks = 1..Len(test.mocks)
  <2>1. /\ test.failures \in Seq(FailureInjection(Node))
        /\ test.mocks \in Seq(MockIntegration(Node))
    BY DEF TestSet
  <2> QED
    BY <2>1, LenProperties
<1>1. CASE InjectionFor(test, n, k) # << >>
  <2>1. PICK i \in Declared(test, n, k) : /\ InjectionFor(test, n, k) = << test.failures[i] >>
                                          /\ \A j \in Declared(test, n, k) : i <= j
    BY <1>1, InjectionForProperties
  <2>a. answer.error
    BY <1>1, Zenon
  <2>b. Built(test, n, k) = InjectedResponse(test.failures[i].type)
    BY <1>1, <2>1 DEF Built, BuildResponse
  <2>2. answer.status = InjectedResponse(test.failures[i].type).status /\ answer.error
    BY <2>a, <2>b
  <2>3. i \in DOMAIN test.failures /\ fails(i)
    BY DEF Declared
  <2>4. \A j \in DOMAIN test.failures : j < i => ~ fails(j)
    <3>1. SUFFICES ASSUME NEW j \in DOMAIN test.failures, j < i, fails(j) PROVE FALSE
      OBVIOUS
    <3>2. j \in Declared(test, n, k)
      BY <3>1 DEF Declared
    <3>3. i <= j
      BY <2>1, <3>2
    <3> QED
      BY <1>0, <2>3, <3>1, <3>3
  <2> QED
    BY <2>2, <2>3, <2>4 DEF Promised
<1>2. CASE InjectionFor(test, n, k) = << >>
  <2>1. \A i \in DOMAIN test.failures : ~ fails(i)
    BY <1>2, InjectionForProperties DEF Declared
  <2>2. CASE MockFor(test, n) # << >>
    <3>1. PICK i \in hits : /\ MockFor(test, n) = << test.mocks[i] >>
                            /\ \A j \in hits : i >= j
      BY <2>2, MockForProperties
    <3>2. answer.status = MockedResponse(test.mocks[i]).status
      BY <1>2, <2>2, <3>1 DEF Built, BuildResponse
    <3>3. \A j \in DOMAIN test.mocks : i < j => ~ mocks(j)
      BY <1>0, <3>1
    <3> QED
      BY <1>2, <2>1, <3>1, <3>2, <3>3 DEF Promised
  <2>3. CASE MockFor(test, n) = << >>
    <3>1. \A i \in DOMAIN test.mocks : ~ mocks(i)
      BY <2>3, MockForProperties
    <3>2. answer.status = 200
      BY <1>2, <2>3 DEF Built, BuildResponse
    <3> QED
      BY <1>2, <2>1, <3>1, <3>2 DEF Promised
  <2> QED
    BY <2>2, <2>3
<1> QED
  BY <1>1, <1>2

\* Lining the answers up by their numbers gives every attempt what the test promises it.
LEMMA NumbersLineUp ==
    TypeOK /\ CallLogExact /\ AnswersAreBuilt => InjectionsFireOnTheirAttempt
<1> SUFFICES ASSUME TypeOK, CallLogExact, AnswersAreBuilt,
                    NEW r \in DOMAIN runs, NEW n \in Node
             PROVE  \E turn \in [1..Cardinality(Served(r, n)) -> Served(r, n)] :
                        /\ \A j, k \in 1..Cardinality(Served(r, n)) :
                               turn[j] = turn[k] => j = k
                        /\ \A k \in 1..Cardinality(Served(r, n)) :
                               Promised(runs[r].test, n, k, turn[k])
  BY DEF InjectionsFireOnTheirAttempt
<1> DEFINE last == runs[r].occurrences[n]
           turn == [k \in 1..last |-> CHOOSE a \in Served(r, n) : a.occurrence = k]
<1>1. Served(r, n) = {a \in Attempts(r) : a.node = n}
  BY DEF Served, Attempts
<1>2. Cardinality(Served(r, n)) = last /\ last \in Nat
  BY <1>1, CounterCounts, RunTypes
<1>3. \A k \in 1..last : \E a \in Served(r, n) : a.occurrence = k
  BY <1>1, AttemptNumbers
<1>4. \A k \in 1..last : turn[k] \in Served(r, n) /\ turn[k].occurrence = k
  <2> HIDE DEF last
  <2> QED
    BY <1>3
<1>5. ASSUME NEW k \in 1..last PROVE Promised(runs[r].test, n, k, turn[k])
  <2>1. PICK a : a = turn[k]
    OBVIOUS
  <2>2. a \in Attempts(r) /\ a.node = n /\ a.occurrence = k
    <3> HIDE DEF turn
    <3> QED
      BY <1>1, <1>4, <2>1
  <2>3. /\ a.status = Built(runs[r].test, n, k).status
        /\ a.error = (InjectionFor(runs[r].test, n, k) # << >>)
    <3>1. CASE \E i \in DOMAIN runs[r].calls : a = runs[r].calls[i]
      BY <2>2, <3>1 DEF AnswersAreBuilt, Faithful
    <3>2. CASE \E h \in InFlight(r) : a = CallOf(h)
      <4>1. PICK h \in InFlight(r) : a = CallOf(h)
        BY <3>2
      <4>2. h \in Handler /\ handler[h].run = r /\ HoldsBuilt(h)
        BY <4>1 DEF InFlight, AnswersAreBuilt
      <4> QED
        BY <2>2, <4>1, <4>2 DEF CallOf, HoldsBuilt
    <3> QED
      BY <2>2, <3>1, <3>2, AttemptOrigin
  <2>4. runs[r].test \in TestSet(Node) /\ k \in Nat
    BY <1>2, RunTypes
  <2>5. Promised(runs[r].test, n, k, a)
    BY <2>3, <2>4, BuiltIsPromised
  <2> QED
    BY <2>1, <2>5
<1>6. turn \in [1..last -> Served(r, n)]
  <2> HIDE DEF last
  <2> QED
    BY <1>4
<1>7. \A j, k \in 1..last : turn[j] = turn[k] => j = k
  <2> HIDE DEF turn, last
  <2> QED
    BY <1>4
<1> HIDE DEF turn, last
<1> QED
  BY <1>2, <1>5, <1>6, <1>7

\* In every behaviour, the attempts on a node that a run has answered got what its test
\* says of the first attempt, the second, and so on, each once, in whatever order the
\* threads log them and whoever closes, reopens or sweeps in between.
THEOREM InjectionsAreExact == Spec => []InjectionsFireOnTheirAttempt
<1>1. Init => TypeOK
  BY IdleType, EmptySeq, RegistryAssumption DEF Init, TypeOK
<1>2. Init => CallLogExact
  BY DEF Init, CallLogExact, NumbersWereCounted, NumbersAreUnique, NoAttemptIsLost
<1>3. Init => AnswersAreBuilt
  BY IdleType DEF Init, AnswersAreBuilt
<1> QED
  BY <1>1, <1>2, <1>3, TypeStep, LogExactStep, BuiltStep, NumbersLineUp, PTL DEF Spec
-----------------------------------------------------------------------------
(***************************************************************************)
(* The compiled workflow: edges, outputs and the EdgeMap.                    *)
(***************************************************************************)

\* The record of an edge is found at one position only, and its id names it.
LEMMA EdgeIds ==
    ASSUME NEW w \in Workflow, NEW e \in EdgesOf(w)
    PROVE  /\ e.source \in w.nodes /\ e.id # None
           /\ \A f \in EdgesOf(w) : f.id = e.id => f = e
<1>1. PICK i \in DOMAIN w.edges : e = w.edges[i]
  BY DEF EdgesOf
<1>2. ASSUME NEW f \in EdgesOf(w), f.id = e.id PROVE f = e
  <2>1. PICK j \in DOMAIN w.edges : f = w.edges[j]
    BY DEF EdgesOf
  <2> QED
    BY <1>1, <1>2, <2>1, RunAssumption
<1> QED
  BY <1>1, <1>2, RunAssumption

LEMMA EdgePositions ==
    ASSUME NEW w \in Workflow
    PROVE  Len(w.edges) \in Nat /\ DOMAIN w.edges = 1..Len(w.edges)
<1>1. w.edges \in Seq(EdgesOf(w))
  BY RunAssumption
<1> QED
  BY <1>1

\* What output an edge hangs on tells where it starts, wherever a marker moved it.
LEMMA PortSource ==
    ASSUME NEW w, NEW p, NEW e
    PROVE  LET n == e.source
               key == Reseated(w, p, PortOf(w, e))
           IN  /\ PortOf(w, e) = Port(PortOf(w, e).from, PortOf(w, e).out)
               /\ PortOf(w, e).from \in {Canonical(n), Router(n)}
               /\ key = PortOf(w, e) \/ key = Port(Marker(n), 0)
               /\ key.from \in {Canonical(n), Router(n), Marker(n)}
               /\ key.from[2] = n
<1>1. /\ PortOf(w, e).from \in {Canonical(e.source), Router(e.source)}
      /\ PortOf(w, e) = Port(PortOf(w, e).from, PortOf(w, e).out)
  BY DEF PortOf, Port, BranchOwner
<1>2. PortOf(w, e).from[2] = e.source
  BY <1>1 DEF Canonical, Router
<1>3. \/ Reseated(w, p, PortOf(w, e)) = PortOf(w, e)
      \/ Reseated(w, p, PortOf(w, e)) = Port(Marker(e.source), 0)
  BY <1>2 DEF Reseated
<1>4. /\ Port(Marker(e.source), 0).from = Marker(e.source)
      /\ Marker(e.source)[2] = e.source
  BY DEF Port, Marker
<1> QED
  BY <1>1, <1>2, <1>3, <1>4

\* The connections that stand for an edge, and those of synthetic nodes.
LEMMA LinksAre ==
    ASSUME NEW w \in Workflow, NEW p, NEW l \in Links(w, p)
    PROVE  /\ l.edge # None => \E e \in Live(w) : /\ l = [port |-> Reseated(w, p, PortOf(w, e)),
                                                         to |-> Canonical(e.target), edge |-> e.id]
           /\ l.edge = None =>
                \/ \E n \in w.nodes : /\ NeedsRouter(w, n)
                                      /\ l = [port |-> Reseated(w, p, Port(Canonical(n), 0)),
                                              to |-> Router(n), edge |-> None]
                \/ \E n \in Marked(w, p) : l = [port |-> Port(Canonical(n), 0), to |-> Marker(n), edge |-> None]
                \/ \E n \in Starts(w) : l = [port |-> Port(Trigger, 0), to |-> Canonical(n), edge |-> None]
<1>1. \A e \in Live(w) : e.id # None
  BY EdgeIds DEF Live
<1> QED
  BY <1>1 DEF Links

LEMMA LiveLinks ==
    ASSUME NEW w, NEW p, NEW e \in Live(w)
    PROVE  [port |-> Reseated(w, p, PortOf(w, e)), to |-> Canonical(e.target), edge |-> e.id] \in Links(w, p)
BY DEF Links

\* Whether a failure leaves a node by an output of its own.
LEMMA ErrorOutputs ==
    ASSUME NEW w, NEW n \in w.nodes, n \in ErrorOutput(w)
    PROVE  /\ ~ IsGateway(w, n)
           /\ Branching(w, n) => BranchOwner(w, n) = Router(n)
           /\ Width(w, Canonical(n)) = 2
<1>1. ~ IsGateway(w, n)
  BY DEF ErrorOutput, FailureEdges
<1>2. Branching(w, n) => BranchOwner(w, n) = Router(n)
  BY <1>1 DEF BranchOwner, NeedsRouter
<1>3. Canonical(n)[2] = n /\ Canonical(n) # Router(n)
  BY DEF Canonical, Router
<1> QED
  BY <1>1, <1>2, <1>3 DEF Width

\* An output an edge hangs on is no synthetic connection's.
LEMMA SyntheticPorts ==
    ASSUME NEW w \in Workflow, NEW p, NEW l \in Links(w, p), l.edge = None, NEW e \in Live(w)
    PROVE  l.port # Reseated(w, p, PortOf(w, e))
<1> DEFINE n == e.source
           key == Reseated(w, p, PortOf(w, e))
<1>1. /\ PortOf(w, e).from \in {Canonical(n), Router(n)}
      /\ key = PortOf(w, e) \/ key = Port(Marker(n), 0)
      /\ key.from \in {Canonical(n), Router(n), Marker(n)}
  BY PortSource
<1>2. n \in w.nodes /\ e \in Outgoing(w, n)
  BY EdgeIds DEF Live, Outgoing
\* Output 0 of a node with a router leads to the router alone.
<1>3. NeedsRouter(w, n) => PortOf(w, e) # Port(Canonical(n), 0)
  <2>1. CASE e \in FailureEdges(w, n)
    BY <2>1 DEF PortOf, Port
  <2>2. CASE e \notin FailureEdges(w, n)
    BY <2>2 DEF PortOf, Port, BranchOwner, Canonical, Router
  <2> QED
    BY <2>1, <2>2
<1>4. ASSUME NEW m \in w.nodes, NeedsRouter(w, m), key = Reseated(w, p, Port(Canonical(m), 0))
      PROVE  FALSE
  <2>1. /\ Port(Canonical(m), 0).from[2] = m /\ Port(Marker(m), 0).from[2] = m
        /\ Port(Canonical(m), 0).from = Canonical(m)
    BY DEF Port, Canonical, Marker
  <2>2. Reseated(w, p, Port(Canonical(m), 0)) \in {Port(Canonical(m), 0), Port(Marker(m), 0)}
    BY <2>1 DEF Reseated
  <2>3. m = n
    BY <1>4, <2>1, <2>2, PortSource
  <2>4. CASE n \in Marked(w, p)
    <3>1. Reseated(w, p, Port(Canonical(n), 0)) = Port(Marker(n), 0)
      BY <2>1, <2>3, <2>4 DEF Reseated
    <3>2. key = PortOf(w, e) \/ PortOf(w, e) = Port(Canonical(n), 0)
      <4>1. \A k : Port(Canonical(k), 0).from[2] = k
        BY DEF Port, Canonical
      <4>2. PortOf(w, e).from[2] = n
        BY <1>1 DEF Canonical, Router
      <4> QED
        BY <4>1, <4>2 DEF Reseated
    <3>3. key # PortOf(w, e)
      BY <3>1, <1>4, <2>3, <1>1 DEF Port, Marker, Canonical, Router
    <3> QED
      BY <3>2, <3>3, <1>3, <1>4, <2>3
  <2>5. CASE n \notin Marked(w, p)
    <3>1. Reseated(w, p, Port(Canonical(n), 0)) = Port(Canonical(n), 0)
      <4>1. \A k : Port(Canonical(k), 0) = Port(Canonical(n), 0) => k = n
        BY DEF Port, Canonical
      <4> QED
        BY <2>5, <4>1 DEF Reseated
    <3>2. Port(Canonical(n), 0) # Port(Marker(n), 0)
      BY DEF Port, Canonical, Marker
    <3> QED
      BY <3>1, <3>2, <1>1, <1>3, <1>4, <2>3
  <2> QED
    BY <2>4, <2>5
\* What hung on output 0 of a marked node has moved to its marker.
<1>5. ASSUME NEW m \in Marked(w, p), key = Port(Canonical(m), 0) PROVE FALSE
  <2>1. key = PortOf(w, e)
    BY <1>1, <1>5 DEF Port, Canonical, Marker
  <2>2. Reseated(w, p, PortOf(w, e)) = Port(Marker(PortOf(w, e).from[2]), 0)
    BY <1>5, <2>1 DEF Reseated
  <2> QED
    BY <1>5, <2>2 DEF Port, Canonical, Marker
<1>6. key # Port(Trigger, 0)
  BY <1>1 DEF Port, Trigger, Canonical, Router, Marker
<1> QED
  <2> HIDE DEF key
  <2>1. SUFFICES ASSUME l.port = key PROVE FALSE
    BY DEF key
  <2> QED
    BY <1>4, <1>5, <1>6, <2>1, LinksAre

\* The EdgeMap knows exactly the outputs edges hang on, and names one of the edges of each.
LEMMA EdgeMapKnows ==
    ASSUME NEW w \in Workflow, NEW p, NEW k
    PROVE  /\ k \in DOMAIN EdgeMap(w, p) <=> \E e \in Live(w) : Reseated(w, p, PortOf(w, e)) = k
           /\ k \in DOMAIN EdgeMap(w, p) =>
                  \E e \in Live(w) : Reseated(w, p, PortOf(w, e)) = k /\ EdgeMap(w, p)[k] = e.id
<1> DEFINE key(e) == Reseated(w, p, PortOf(w, e))
           On == {i \in DOMAIN w.edges : w.edges[i] \in Live(w) /\ key(w.edges[i]) = k}
<1>1. DOMAIN EdgeMap(w, p) = {key(e) : e \in Live(w)}
  BY DEF EdgeMap, ReseatedKey
<1>2. ASSUME k \in DOMAIN EdgeMap(w, p)
      PROVE  \E e \in Live(w) : key(e) = k /\ EdgeMap(w, p)[k] = e.id
  <2> DEFINE i == CHOOSE i \in DOMAIN w.edges :
                   /\ w.edges[i] \in Live(w) /\ key(w.edges[i]) = k
                   /\ \A j \in DOMAIN w.edges :
                          (w.edges[j] \in Live(w) /\ key(w.edges[j]) = k) => j <= i
  <2>1. EdgeMap(w, p)[k] = w.edges[i].id
    BY <1>1, <1>2 DEF EdgeMap, ReseatedKey
  <2>2. On # {}
    BY <1>1, <1>2 DEF Live, EdgesOf
  <2>3. On \in SUBSET (1..Len(w.edges)) /\ Len(w.edges) \in Nat
    BY EdgePositions
  <2>4. PICK m \in On : \A j \in On : m >= j
    <3> HIDE DEF On
    <3> QED
      BY <2>2, <2>3, GreatestPosition
  <2>5. \A j \in On : j <= m
    BY <2>3, <2>4
  <2>6. /\ m \in DOMAIN w.edges
        /\ w.edges[m] \in Live(w) /\ key(w.edges[m]) = k
        /\ \A j \in DOMAIN w.edges :
               (w.edges[j] \in Live(w) /\ key(w.edges[j]) = k) => j <= m
    BY <2>5
  <2>7. w.edges[i] \in Live(w) /\ key(w.edges[i]) = k
    <3> HIDE DEF key
    <3> QED
      BY <2>6
  <2> QED
    BY <2>1, <2>7
<1> QED
  BY <1>1, <1>2
-----------------------------------------------------------------------------
(***************************************************************************)
(* The invariant of an execution.  Every input and every task came from an   *)
(* output that an earlier task put something on, whatever a task shows it    *)
(* met itself or an earlier task met, and an output that delivered to one of *)
(* its connections delivered to all.                                         *)
(***************************************************************************)

\* What an input may carry.
Item == Message \cup {"fine"}

\* Task i put an item on one of its outputs.
Emits(i, out, item) == tasks[i].outputs = Items(Width(wf, tasks[i].name), out, item)

\* One of the first k tasks put something on the output an input came from.
Origin(from, k) ==
    \/ from = Port(Trigger, 0)
    \/ \E j \in 1..k : from.from = tasks[j].name /\ \E item \in Item : Emits(j, from.out, item)

MetBefore(m, k) == \E j \in 1..k : history[j].met = m

Linked(from, to, edge) == \E l \in emitted.links : l.port = from /\ l.to = to /\ l.edge = edge

\* An input that waits came over a connection, from an output that something was put on.
Waiting(p) ==
    /\ p = [by |-> p.by, to |-> p.to, from |-> p.from, edge |-> p.edge, item |-> p.item]
    /\ p.by \in 0..Len(tasks)
    /\ Linked(p.from, p.to, p.edge) /\ Origin(p.from, p.by)
    /\ p.item \in Item /\ (p.item # "fine" => MetBefore(p.item, Len(tasks)))

\* The outputs on which a node may pass its item on.
OutputsOf(name) ==
    IF Branching(wf, name[2]) /\ name = BranchOwner(wf, name[2]) THEN DecidedOutputs(name[2]) ELSE {0}

\* What a task did: it passed an item on, or it met an error.
PassedOn(i) ==
    /\ history[i].met = None /\ tasks[i].error = None
    /\ \E out \in OutputsOf(tasks[i].name), item \in Item :
           Emits(i, out, item) /\ (item # "fine" => MetBefore(item, i - 1))

Threw(i) ==
    LET n == tasks[i].name[2]
        m == history[i].met
    IN  /\ m \in Message /\ tasks[i].name = Canonical(n) /\ n \in Mocked(wf)
        /\ \/ n \in emitted.errorOutput /\ tasks[i].error = None /\ Emits(i, 1, m)
           \/ n \in emitted.swallowing /\ tasks[i].error = None /\ Emits(i, 0, m)
           \/ tasks[i].error = m

TaskHolds(i) ==
    /\ Linked(tasks[i].from, tasks[i].name, history[i].edge)
    /\ Origin(tasks[i].from, i - 1)
    /\ PassedOn(i) \/ Threw(i)

\* Something came over connection l, which waits or ran: what is put on an output reaches
\* every node connected to it.
Delivered(l) ==
    \/ \E p \in pending : p.from = l.port /\ p.to = l.to /\ p.edge = l.edge
    \/ \E i \in DOMAIN tasks : tasks[i].from = l.port /\ tasks[i].name = l.to /\ history[i].edge = l.edge

FannedOut == status \in {"running", "success"} =>
    \A l, k \in emitted.links : (l.port = k.port /\ Delivered(l)) => Delivered(k)

\* s is a sequence.
Rows(s) == \E S : s \in Seq(S)

Shape ==
    /\ wf \in Workflow /\ propagate \in BOOLEAN /\ emitted = Emit(wf, propagate)
    /\ Rows(tasks) /\ Rows(history) /\ Len(tasks) = Len(history)
    /\ status \in {"running", "success", "error", "canceled"}
    /\ status # "running" => pending = {}

RunInv ==
    /\ Shape
    /\ \A p \in pending : Waiting(p)
    /\ \A i \in DOMAIN tasks : TaskHolds(i)
    /\ FannedOut
-----------------------------------------------------------------------------
LEMMA RowsAreIndexed == ASSUME NEW s, Rows(s) PROVE Len(s) \in Nat /\ DOMAIN s = 1..Len(s)
BY DEF Rows

\* A row that is appended leaves the others where they are.
LEMMA RowAppended ==
    ASSUME NEW s, Rows(s), NEW row
    PROVE  /\ Rows(Append(s, row)) /\ Len(Append(s, row)) = Len(s) + 1
           /\ Append(s, row)[Len(s) + 1] = row
           /\ \A i \in 1..Len(s) : Append(s, row)[i] = s[i]
<1>1. PICK S : s \in Seq(S)
  BY DEF Rows
<1>2. s \in Seq(S \cup {row})
  BY <1>1
<1>3. Append(s, row) \in Seq(S \cup {row})
  BY <1>2
<1> QED
  BY <1>2, <1>3 DEF Rows

\* Recording a task leaves what was known of the tasks before, and of inputs that wait.
LEMMA Recording ==
    ASSUME RunInv, NEW N, N = Len(tasks), NEW input \in pending, NEW outputs, NEW error, NEW met,
           Record(input, outputs, error, met), UNCHANGED << wf, propagate, emitted >>
    PROVE      /\ N \in Nat /\ DOMAIN tasks = 1..N /\ DOMAIN tasks' = 1..N+1
               /\ Rows(tasks') /\ Rows(history') /\ Len(tasks') = N + 1 /\ Len(history') = N + 1
               /\ \A i \in 1..N : tasks'[i] = tasks[i] /\ history'[i] = history[i]
               /\ tasks'[N + 1] = [name |-> input.to, from |-> input.from, outputs |-> outputs, error |-> error]
               /\ history'[N + 1] = [met |-> met, edge |-> input.edge]
               /\ \A i \in 1..N : TaskHolds(i)'
               /\ \A p \in pending : Waiting(p)'
               /\ Linked(input.from, input.to, input.edge)'
               /\ Origin(input.from, N)'
               /\ \A m : MetBefore(m, N) => MetBefore(m, N)'
<1>1. /\ Rows(tasks) /\ Rows(history) /\ Len(history) = N /\ N \in Nat /\ DOMAIN tasks = 1..N
  BY RowsAreIndexed DEF RunInv, Shape
<1>2. /\ Rows(tasks') /\ Rows(history') /\ Len(tasks') = N + 1 /\ Len(history') = N + 1
      /\ \A i \in 1..N : tasks'[i] = tasks[i] /\ history'[i] = history[i]
      /\ tasks'[N + 1] = [name |-> input.to, from |-> input.from, outputs |-> outputs, error |-> error]
      /\ history'[N + 1] = [met |-> met, edge |-> input.edge]
  BY <1>1, RowAppended DEF Record
<1>3. DOMAIN tasks' = 1..N+1
  BY <1>2, RowsAreIndexed
<1>4. ASSUME NEW from, NEW k \in 0..N, Origin(from, k) PROVE Origin(from, k)'
  <2>1. \A j \in 1..k : j \in 1..N
    BY <1>1
  <2> QED
    BY <1>2, <1>4, <2>1 DEF Origin, Emits, Item
<1>5. ASSUME NEW m, NEW k \in 0..N, MetBefore(m, k) PROVE MetBefore(m, k)'
  <2>1. \A j \in 1..k : j \in 1..N
    BY <1>1
  <2> QED
    BY <1>2, <1>5, <2>1 DEF MetBefore
<1>6. ASSUME NEW i \in 1..N PROVE TaskHolds(i)'
  <2>1. TaskHolds(i) /\ i - 1 \in 0..N
    BY <1>1 DEF RunInv
  <2>2. Linked(tasks[i].from, tasks[i].name, history[i].edge)'
    BY <1>2, <2>1 DEF TaskHolds, Linked
  <2>3. Origin(tasks[i].from, i - 1)'
    <3>1. PICK from : from = tasks[i].from
      OBVIOUS
    <3>2. Origin(from, i - 1)'
      BY <1>4, <2>1, <3>1 DEF TaskHolds
    <3> QED
      BY <1>2, <3>1, <3>2
  <2>4. PassedOn(i) => PassedOn(i)'
    <3>1. ASSUME NEW item, MetBefore(item, i - 1) PROVE MetBefore(item, i - 1)'
      BY <1>5, <2>1, <3>1
    <3>2. OutputsOf(tasks[i].name)' = OutputsOf(tasks[i].name)
      BY <1>2 DEF OutputsOf, DecidedOutputs
    <3>3. ASSUME NEW out, NEW item, Emits(i, out, item) PROVE Emits(i, out, item)'
      BY <1>2, <3>3 DEF Emits
    <3> QED
      BY <1>2, <3>1, <3>2, <3>3 DEF PassedOn, Item
  <2>5. Threw(i) => Threw(i)'
    BY <1>2 DEF Threw, Emits
  <2> QED
    BY <1>2, <2>1, <2>2, <2>3, <2>4, <2>5 DEF TaskHolds
<1>7. ASSUME NEW p \in pending PROVE Waiting(p)'
  <2>1. Waiting(p) /\ p.by \in 0..N
    BY DEF RunInv, Waiting
  <2>2. p.by \in 0..Len(tasks')
    BY <1>1, <1>2, <2>1
  <2>3. Linked(p.from, p.to, p.edge)' /\ Origin(p.from, p.by)'
    BY <1>4, <2>1 DEF Waiting, Linked
  <2>4. p.item # "fine" => MetBefore(p.item, Len(tasks))'
    <3>1. p.item # "fine" => MetBefore(p.item, N)'
      BY <1>1, <1>5, <2>1 DEF Waiting
    <3> QED
      BY <1>1, <1>2, <3>1 DEF MetBefore
  <2> QED
    BY <2>1, <2>2, <2>3, <2>4 DEF Waiting, Item
<1>8. Waiting(input)
  BY DEF RunInv
<1>9. Linked(input.from, input.to, input.edge)'
  BY <1>2, <1>8 DEF Waiting, Linked
<1>10. Origin(input.from, N)'
  <2>1. Origin(input.from, input.by)' /\ input.by \in 0..N
    BY <1>4, <1>8 DEF Waiting
  <2>2. \A j \in 1..input.by : j \in 1..N
    BY <2>1, <1>1
  <2> QED
    BY <2>1, <2>2 DEF Origin
<1> QED
  <2>1. \A m : MetBefore(m, N) => MetBefore(m, N)'
    BY <1>1, <1>5
  <2> QED
    BY <1>1, <1>2, <1>3, <1>6, <1>7, <1>9, <1>10, <2>1

\* A task that sends something on preserves the invariant.
LEMMA SendOk ==
    ASSUME RunInv, NEW input \in pending, NEW out, NEW item \in Item, NEW met, status = "running",
           Send(input, out, item, met),
           \/ /\ met = None /\ out \in OutputsOf(input.to)
              /\ item # "fine" => MetBefore(item, Len(tasks))
           \/ LET n == input.to[2]
              IN  /\ met \in Message /\ item = met /\ input.to = Canonical(n) /\ n \in Mocked(wf)
                  /\ \/ n \in emitted.errorOutput /\ out = 1
                     \/ n \in emitted.swallowing /\ out = 0
    PROVE  RunInv'
<1>0. PICK N : N = Len(tasks)
  OBVIOUS
<1> DEFINE outputs == Items(Width(wf, input.to), out, item)
           new == Arriving(N + 1, Port(input.to, out), item)
<1>1. /\ Record(input, outputs, None, met)
      /\ UNCHANGED << wf, propagate, emitted, status >>
      /\ pending' = (pending \ {input}) \cup new
  BY <1>0 DEF Send
<1>2. /\ N \in Nat /\ DOMAIN tasks = 1..N /\ DOMAIN tasks' = 1..N+1
      /\ Rows(tasks') /\ Rows(history') /\ Len(tasks') = N + 1 /\ Len(history') = N + 1
      /\ \A i \in 1..N : tasks'[i] = tasks[i] /\ history'[i] = history[i]
      /\ tasks'[N + 1] = [name |-> input.to, from |-> input.from, outputs |-> outputs, error |-> None]
      /\ history'[N + 1] = [met |-> met, edge |-> input.edge]
      /\ \A i \in 1..N : TaskHolds(i)'
      /\ \A p \in pending : Waiting(p)'
      /\ Linked(input.from, input.to, input.edge)'
      /\ Origin(input.from, N)'
      /\ \A m : MetBefore(m, N) => MetBefore(m, N)'
  <2> HIDE DEF outputs
  <2> QED
    BY <1>0, <1>1, Recording
<1>3. Emits(N + 1, out, item)'
  BY <1>1, <1>2 DEF Emits
<1>4. TaskHolds(N + 1)'
  <2>1. Origin(input.from, (N + 1) - 1)' /\ tasks'[N + 1].from = input.from
    BY <1>2
  <2>2. CASE /\ met = None /\ out \in OutputsOf(input.to)
             /\ item # "fine" => MetBefore(item, Len(tasks))
    <3>1. item # "fine" => MetBefore(item, (N + 1) - 1)'
      BY <1>0, <1>2, <2>2
    <3>2. out \in OutputsOf(input.to)' /\ item \in Item' /\ tasks'[N + 1].name = input.to
      BY <1>1, <1>2, <2>2 DEF OutputsOf, DecidedOutputs, Item
    <3>3. history'[N + 1].met = None /\ tasks'[N + 1].error = None
      BY <1>2, <2>2
    <3>4. PassedOn(N + 1)'
      BY <1>3, <3>1, <3>2, <3>3 DEF PassedOn
    <3> QED
      BY <1>2, <2>1, <3>4 DEF TaskHolds
  <2>3. CASE LET n == input.to[2]
             IN  /\ met \in Message /\ item = met /\ input.to = Canonical(n) /\ n \in Mocked(wf)
                 /\ \/ n \in emitted.errorOutput /\ out = 1
                    \/ n \in emitted.swallowing /\ out = 0
    <3>1. tasks'[N + 1].name = input.to /\ history'[N + 1].met = met /\ tasks'[N + 1].error = None
      BY <1>2
    <3>2. Threw(N + 1)'
      BY <1>1, <1>3, <2>3, <3>1 DEF Threw
    <3> QED
      BY <1>2, <2>1, <3>2 DEF TaskHolds
  <2> QED
    BY <2>2, <2>3
<1>5. ASSUME NEW p \in new PROVE Waiting(p)'
  <2>1. PICK l \in emitted.links : /\ l.port = Port(input.to, out)
                                   /\ p = [by |-> N + 1, to |-> l.to, from |-> Port(input.to, out),
                                           edge |-> l.edge, item |-> item]
    BY DEF Arriving
  <2>2. Linked(p.from, p.to, p.edge)'
    BY <1>1, <2>1 DEF Linked
  <2>3. Origin(p.from, p.by)'
    <3>1. tasks'[N + 1].name = input.to /\ N + 1 \in 1..(N + 1)
      BY <1>2
    <3>2. p.from.from = input.to /\ p.from.out = out /\ p.by = N + 1
      BY <2>1 DEF Port
    <3>3. \E i \in Item' : Emits(N + 1, p.from.out, i)'
      BY <1>3, <3>2 DEF Item
    <3> QED
      BY <3>1, <3>2, <3>3 DEF Origin
  <2>4. p.item # "fine" => MetBefore(p.item, Len(tasks))'
    <3>1. met = item => MetBefore(item, N + 1)'
      BY <1>2 DEF MetBefore
    <3>2. MetBefore(item, N) => MetBefore(item, N + 1)'
      BY <1>2 DEF MetBefore
    <3>3. p.item = item
      BY <2>1
    <3>4. item # "fine" => MetBefore(item, N + 1)'
      BY <1>0, <3>1, <3>2
    <3> QED
      BY <1>2, <3>3, <3>4 DEF MetBefore
  <2>5. /\ p = [by |-> p.by, to |-> p.to, from |-> p.from, edge |-> p.edge, item |-> p.item]
        /\ p.by \in 0..Len(tasks') /\ p.item \in Item
    BY <1>2, <2>1
  <2> QED
    BY <2>2, <2>3, <2>4, <2>5 DEF Waiting, Item
<1>6. FannedOut'
  <2> SUFFICES ASSUME NEW l \in emitted.links, NEW k \in emitted.links, l.port = k.port, Delivered(l)'
               PROVE  Delivered(k)'
    BY <1>1 DEF FannedOut
  <2>1. Delivered(l) \/ l.port = Port(input.to, out)
    <3>1. ASSUME NEW p \in pending', p.from = l.port, p.to = l.to, p.edge = l.edge
          PROVE  Delivered(l) \/ l.port = Port(input.to, out)
      <4>1. p \in pending \/ p \in new
        BY <1>1
      <4>2. p \in new => p.from = Port(input.to, out)
        BY DEF Arriving
      <4> QED
        BY <3>1, <4>1, <4>2 DEF Delivered
    <3>2. ASSUME NEW i \in DOMAIN tasks', tasks'[i].from = l.port, tasks'[i].name = l.to,
                 history'[i].edge = l.edge
          PROVE  Delivered(l)
      <4>1. CASE i = N + 1
        BY <1>2, <3>2, <4>1 DEF Delivered
      <4>2. CASE i # N + 1
        <5>1. i \in 1..N
          BY <1>2, <4>2
        <5> QED
          BY <1>2, <3>2, <5>1 DEF Delivered
      <4> QED
        BY <4>1, <4>2
    <3> QED
      BY <3>1, <3>2 DEF Delivered
  <2>2. ASSUME Delivered(k) PROVE Delivered(k)'
    <3>1. ASSUME NEW p \in pending, p.from = k.port, p.to = k.to, p.edge = k.edge
          PROVE  Delivered(k)'
      <4>1. CASE p = input
        <5>1. N + 1 \in DOMAIN tasks'
          BY <1>2
        <5>2. /\ tasks'[N + 1].from = k.port /\ tasks'[N + 1].name = k.to
              /\ history'[N + 1].edge = k.edge
          BY <1>2, <3>1, <4>1
        <5> QED
          BY <5>1, <5>2 DEF Delivered
      <4>2. CASE p # input
        BY <1>1, <3>1, <4>2 DEF Delivered
      <4> QED
        BY <4>1, <4>2
    <3>2. ASSUME NEW i \in DOMAIN tasks, tasks[i].from = k.port, tasks[i].name = k.to,
                 history[i].edge = k.edge
          PROVE  Delivered(k)'
      <4>1. i \in DOMAIN tasks' /\ tasks'[i] = tasks[i] /\ history'[i] = history[i]
        BY <1>2
      <4> QED
        BY <3>2, <4>1 DEF Delivered
    <3> QED
      BY <2>2, <3>1, <3>2 DEF Delivered
  <2>3. ASSUME l.port = Port(input.to, out) PROVE Delivered(k)'
    <3>1. [by |-> N + 1, to |-> k.to, from |-> Port(input.to, out), edge |-> k.edge, item |-> item] \in new
      BY <2>3 DEF Arriving
    <3> QED
      BY <1>1, <2>3, <3>1 DEF Delivered
  <2>4. Delivered(l) => Delivered(k)
    BY DEF RunInv, FannedOut
  <2> QED
    BY <2>1, <2>2, <2>3, <2>4
<1>7. Shape'
  BY <1>1, <1>2 DEF Shape, RunInv
<1>8. \A p \in pending' : Waiting(p)'
  BY <1>1, <1>2, <1>5
<1>9. \A i \in DOMAIN tasks' : TaskHolds(i)'
  <2>1. \A i \in DOMAIN tasks' : i \in 1..N \/ i = N + 1
    BY <1>2
  <2> QED
    BY <1>2, <1>4, <2>1
<1> QED
  BY <1>6, <1>7, <1>8, <1>9 DEF RunInv

\* A failure that ends the execution preserves the invariant.
LEMMA AbortOk ==
    ASSUME RunInv, NEW input \in pending, NEW message \in Message,
           input.to = Canonical(input.to[2]), input.to[2] \in Mocked(wf),
           Record(input, << >>, message, message), pending' = {}, status' = "error",
           UNCHANGED << wf, propagate, emitted >>
    PROVE  RunInv'
<1>0. PICK N : N = Len(tasks)
  OBVIOUS
<1>2. /\ N \in Nat /\ DOMAIN tasks = 1..N /\ DOMAIN tasks' = 1..N+1
      /\ Rows(tasks') /\ Rows(history') /\ Len(tasks') = N + 1 /\ Len(history') = N + 1
      /\ tasks'[N + 1] = [name |-> input.to, from |-> input.from, outputs |-> << >>, error |-> message]
      /\ history'[N + 1] = [met |-> message, edge |-> input.edge]
      /\ \A i \in 1..N : TaskHolds(i)'
      /\ Linked(input.from, input.to, input.edge)'
      /\ Origin(input.from, N)'
  BY <1>0, Recording
<1>3. TaskHolds(N + 1)'
  <2>1. Origin(input.from, (N + 1) - 1)' /\ tasks'[N + 1].from = input.from
    BY <1>2
  <2>2. tasks'[N + 1].name = input.to /\ history'[N + 1].met = message /\ tasks'[N + 1].error = message
    BY <1>2
  <2>3. Threw(N + 1)'
    BY <2>2 DEF Threw
  <2> QED
    BY <1>2, <2>1, <2>3 DEF TaskHolds
<1>4. \A i \in DOMAIN tasks' : TaskHolds(i)'
  <2>1. \A i \in DOMAIN tasks' : i \in 1..N \/ i = N + 1
    BY <1>2
  <2> QED
    BY <1>2, <1>3, <2>1
<1> QED
  BY <1>2, <1>4 DEF RunInv, Shape, FannedOut

\* Ending an execution, by itself or at the deadline, leaves its tasks alone.
LEMMA EndOk ==
    ASSUME RunInv, pending' = {}, status' \in {"success", "canceled"},
           status' = "success" => status = "running" /\ pending = {},
           UNCHANGED << wf, propagate, emitted, tasks, history >>
    PROVE  RunInv'
<1>1. \A i \in DOMAIN tasks : TaskHolds(i)'
  <2>1. ASSUME NEW i \in DOMAIN tasks PROVE TaskHolds(i)'
    <3>1. TaskHolds(i)
      BY DEF RunInv
    <3> QED
      BY <3>1 DEF TaskHolds, Linked, Origin, PassedOn, Threw, Emits, Item, OutputsOf, MetBefore,
                  DecidedOutputs
  <2> QED
    BY <2>1
<1>2. FannedOut'
  BY DEF FannedOut, Delivered, RunInv
<1> QED
  BY <1>1, <1>2 DEF RunInv, Shape

LEMMA RunStart == RunInit => RunInv
<1> SUFFICES ASSUME RunInit PROVE RunInv
  OBVIOUS
<1>1. Shape
  <2>1. << >> \in Seq({})
    OBVIOUS
  <2>2. Rows(tasks) /\ Rows(history) /\ Len(tasks) = Len(history)
    BY <2>1 DEF RunInit, Rows
  <2> QED
    BY <2>2 DEF RunInit, Shape
<1>2. DOMAIN tasks = {} /\ Len(tasks) = 0
  BY DEF RunInit
<1>3. ASSUME NEW p \in pending PROVE Waiting(p)
  <2>1. PICK l \in emitted.links : /\ l.port = Port(Trigger, 0)
                                   /\ p = [by |-> 0, to |-> l.to, from |-> Port(Trigger, 0),
                                           edge |-> l.edge, item |-> "fine"]
    BY DEF RunInit, Arriving
  <2> QED
    BY <1>2, <2>1 DEF Waiting, Linked, Origin, Item
<1>4. FannedOut
  <2> SUFFICES ASSUME NEW l \in emitted.links, NEW k \in emitted.links, l.port = k.port, Delivered(l)
               PROVE  Delivered(k)
    BY DEF FannedOut
  <2>1. l.port = Port(Trigger, 0)
    BY <1>2 DEF Delivered, RunInit, Arriving
  <2>2. [by |-> 0, to |-> k.to, from |-> Port(Trigger, 0), edge |-> k.edge, item |-> "fine"] \in pending
    BY <2>1 DEF RunInit, Arriving
  <2> QED
    BY <2>1, <2>2 DEF Delivered
<1> QED
  BY <1>1, <1>2, <1>3, <1>4 DEF RunInv

LEMMA SucceedOk == ASSUME RunInv, NEW input \in pending, Succeed(input) PROVE RunInv'
<1> DEFINE n == input.to[2]
           item == IF input.to = Canonical(n) /\ n \in Mocked(wf) THEN "fine" ELSE input.item
<1>1. Waiting(input)
  BY DEF RunInv
<1>2. item \in Item /\ (item # "fine" => MetBefore(item, Len(tasks)))
  BY <1>1 DEF Waiting, Item
<1>3. PICK out \in OutputsOf(input.to) : Send(input, out, item, None)
  BY DEF Succeed, OutputsOf
<1>4. status = "running"
  BY DEF Succeed, Ready
<1> QED
  <2> HIDE DEF item
  <2> QED
    BY <1>2, <1>3, <1>4, SendOk

LEMMA ThrowOk ==
    ASSUME RunInv, NEW input \in pending, NEW message \in Message, Throw(input, message) PROVE RunInv'
<1> DEFINE n == input.to[2]
<1>1. status = "running" /\ input.to = Canonical(n) /\ n \in Mocked(wf) /\ message \in Item
  BY DEF Throw, Ready, Item
<1>2. CASE n \in emitted.errorOutput
  <2>1. Send(input, 1, message, message)
    BY <1>2 DEF Throw
  <2> QED
    BY <1>1, <1>2, <2>1, SendOk
<1>3. CASE n \notin emitted.errorOutput /\ n \in emitted.swallowing
  <2>1. Send(input, 0, message, message)
    BY <1>3 DEF Throw
  <2> QED
    BY <1>1, <1>3, <2>1, SendOk
<1>4. CASE n \notin emitted.errorOutput /\ n \notin emitted.swallowing
  <2>1. /\ Record(input, << >>, message, message) /\ pending' = {} /\ status' = "error"
        /\ UNCHANGED << wf, propagate, emitted >>
    BY <1>4 DEF Throw
  <2> QED
    BY <1>1, <2>1, AbortOk
<1> QED
  BY <1>2, <1>3, <1>4

LEMMA RunStep == RunInv /\ [RunNext]_runvars => RunInv'
<1> SUFFICES ASSUME RunInv, [RunNext]_runvars PROVE RunInv'
  OBVIOUS
<1>1. CASE \E input \in pending : Succeed(input)
  BY <1>1, SucceedOk
<1>2. CASE \E input \in pending, m \in Message : Throw(input, m)
  BY <1>2, ThrowOk
<1>3. CASE Complete
  <2>1. /\ pending' = {} /\ status' = "success" /\ status = "running" /\ pending = {}
        /\ UNCHANGED << wf, propagate, emitted, tasks, history >>
    BY <1>3 DEF Complete
  <2> QED
    BY <2>1, EndOk
<1>4. CASE Deadline
  <2>1. /\ pending' = {} /\ status' = "canceled"
        /\ UNCHANGED << wf, propagate, emitted, tasks, history >>
    BY <1>4 DEF Deadline
  <2> QED
    BY <2>1, EndOk
<1>5. CASE UNCHANGED runvars
  <2>1. UNCHANGED << wf, propagate, emitted, pending, tasks, status, history >>
    BY <1>5 DEF runvars
  <2>2. ASSUME NEW i \in DOMAIN tasks PROVE TaskHolds(i)'
    <3>1. TaskHolds(i)
      BY DEF RunInv
    <3> QED
      BY <2>1, <3>1 DEF TaskHolds, Linked, Origin, PassedOn, Threw, Emits, Item, OutputsOf, MetBefore,
                        DecidedOutputs
  <2>3. ASSUME NEW p \in pending PROVE Waiting(p)'
    <3>1. Waiting(p)
      BY DEF RunInv
    <3> QED
      BY <2>1, <3>1 DEF Waiting, Linked, Origin, Emits, Item, MetBefore
  <2>4. FannedOut'
    BY <2>1 DEF FannedOut, Delivered, RunInv
  <2> QED
    BY <2>1, <2>2, <2>3, <2>4 DEF RunInv, Shape
<1> QED
  BY <1>1, <1>2, <1>3, <1>4, <1>5 DEF RunNext

LEMMA AlwaysRunInv == RunSpec => []RunInv
<1> QED
  BY RunStart, RunStep, PTL DEF RunSpec
-----------------------------------------------------------------------------
\* What the outputs of a task hold.
LEMMA ItemsAre ==
    ASSUME NEW width \in Nat, NEW out, NEW item
    PROVE  /\ DOMAIN Items(width, out, item) = 1..width
           /\ Len(Items(width, out, item)) = width
           /\ \A k \in 1..width : /\ k = out + 1 => Items(width, out, item)[k] = << item >>
                                  /\ k # out + 1 => Items(width, out, item)[k] = << >>
<1>1. Items(width, out, item) \in Seq({<< item >>, << >>}) /\ DOMAIN Items(width, out, item) = 1..width
  BY DEF Items
<1> QED
  BY <1>1 DEF Items

LEMMA BranchesAreFinite ==
    ASSUME NEW w \in Workflow, NEW n
    PROVE  /\ IsFiniteSet(EdgesOf(w)) /\ IsFiniteSet(Conditional(w, n))
           /\ Cardinality(Conditional(w, n)) \in Nat
           /\ Branching(w, n) => Cardinality(Conditional(w, n)) >= 1
<1> DEFINE f == [i \in 1..Len(w.edges) |-> w.edges[i]]
<1>1. IsFiniteSet(EdgesOf(w))
  <2>0. Len(w.edges) \in Nat /\ DOMAIN w.edges = 1..Len(w.edges)
    BY EdgePositions
  <2>1. IsFiniteSet(1..Len(w.edges)) /\ EdgesOf(w) = {w.edges[i] : i \in 1..Len(w.edges)}
    <3>1. IsFiniteSet(1..Len(w.edges))
      BY <2>0, FS_Interval
    <3> QED
      BY <2>0, <3>1 DEF EdgesOf
  <2>2. f \in Surjection(1..Len(w.edges), EdgesOf(w))
    BY <2>1, Fun_IsSurj
  <2> QED
    BY <2>1, <2>2, FS_Surjection
<1>2. Conditional(w, n) \subseteq EdgesOf(w)
  BY DEF Conditional, BranchEdges, Outgoing
<1>3. IsFiniteSet(Conditional(w, n)) /\ Cardinality(Conditional(w, n)) \in Nat
  BY <1>1, <1>2, FS_Subset, FS_CardinalityType
<1>4. Conditional(w, n) # {} => Cardinality(Conditional(w, n)) # 0
  BY <1>3, FS_EmptySet
<1> QED
  BY <1>1, <1>3, <1>4 DEF Branching

\* Every node has an output, and one that branches has as many as it has branches.
LEMMA WidthIs ==
    ASSUME NEW w \in Workflow, NEW name
    PROVE  LET n == name[2]
           IN  /\ Width(w, name) \in Nat /\ Width(w, name) >= 1
               /\ (Branching(w, n) /\ name = BranchOwner(w, n)) =>
                      Width(w, name) >= 2 /\ Width(w, name) >= Cardinality(Conditional(w, n))
               /\ (Branching(w, n) /\ name = BranchOwner(w, n) /\ Fallback(w, n) # {}) =>
                      Width(w, name) = Cardinality(Conditional(w, n)) + 1
<1>1. /\ Cardinality(Conditional(w, name[2])) \in Nat
      /\ Branching(w, name[2]) => Cardinality(Conditional(w, name[2])) >= 1
  BY BranchesAreFinite
<1> QED
  BY <1>1 DEF Width

\* What swallows errors has no error output, and no failing call is a gateway.
LEMMA Swallowed ==
    ASSUME RunInv, NEW n
    PROVE  /\ n \in emitted.errorOutput <=> n \in ErrorOutput(wf)
           /\ n \in emitted.swallowing <=> propagate /\ n \in wf.nodes /\ n \notin ErrorOutput(wf)
           /\ n \in Mocked(wf) => n \in wf.nodes /\ ~ IsGateway(wf, n)
<1>1. emitted = Emit(wf, propagate)
  BY DEF RunInv, Shape
<1>2. /\ emitted.errorOutput = ErrorOutput(wf)
      /\ emitted.swallowing = Swallowing(wf, propagate)
  BY <1>1 DEF Emit
<1> QED
  BY <1>2 DEF Swallowing, Mocked, Integration, IsGateway

LEMMA TaskFacts ==
    ASSUME RunInv, NEW i \in DOMAIN tasks
    PROVE  /\ TaskHolds(i) /\ wf \in Workflow /\ i \in Nat /\ i >= 1 /\ DOMAIN tasks = 1..Len(tasks)
           /\ Len(tasks) \in Nat
           /\ Width(wf, tasks[i].name) \in Nat /\ Width(wf, tasks[i].name) >= 1
<1>1. TaskHolds(i) /\ wf \in Workflow /\ Rows(tasks)
  BY DEF RunInv, Shape
<1>2. DOMAIN tasks = 1..Len(tasks) /\ Len(tasks) \in Nat
  BY <1>1, RowsAreIndexed
<1> QED
  BY <1>1, <1>2, WidthIs

\* A task that met an error shows it.
LEMMA ThrowersShow ==
    ASSUME RunInv, NEW i \in DOMAIN tasks, Threw(i)
    PROVE  Shown(i) = history[i].met /\ history[i].met \in Message /\ IsCanonical(i)
<1> DEFINE n == tasks[i].name[2]
           m == history[i].met
<1>1. /\ wf \in Workflow /\ Width(wf, tasks[i].name) \in Nat /\ Width(wf, tasks[i].name) >= 1
  BY TaskFacts
<1>2. /\ m \in Message /\ m # None /\ m # "fine" /\ tasks[i].name = Canonical(n) /\ n \in Mocked(wf)
  BY RunAssumption DEF Threw
<1>3. IsCanonical(i)
  BY <1>2 DEF IsCanonical, Canonical
<1>4. /\ n \in emitted.errorOutput <=> n \in ErrorOutput(wf)
      /\ n \in emitted.swallowing <=> propagate /\ n \in wf.nodes /\ n \notin ErrorOutput(wf)
      /\ n \in wf.nodes
  BY <1>2, Swallowed
<1>5. ErrorIn(<< m >>) = m
  BY <1>2 DEF ErrorIn
<1>6. CASE n \in emitted.errorOutput /\ tasks[i].error = None /\ Emits(i, 1, m)
  <2>1. Width(wf, tasks[i].name) = 2
    BY <1>2, <1>4, <1>6, ErrorOutputs
  <2>2. Len(tasks[i].outputs) = 2 /\ tasks[i].outputs[2] = << m >>
    <3>1. tasks[i].outputs = Items(2, 1, m)
      BY <1>6, <2>1 DEF Emits
    <3>2. Len(Items(2, 1, m)) = 2 /\ Items(2, 1, m)[2] = << m >>
      BY DEF Items
    <3> QED
      BY <3>1, <3>2
  <2>3. Len(tasks[i].outputs) > 1
    BY <2>2
  <2> QED
    BY <1>2, <1>3, <1>5, <1>6, <2>2, <2>3 DEF Shown
<1>7. CASE n \in emitted.swallowing /\ tasks[i].error = None /\ Emits(i, 0, m)
  <2>1. tasks[i].outputs[1] = << m >> /\ tasks[i].outputs # << >>
    BY <1>1, <1>7, ItemsAre DEF Emits
  <2> QED
    BY <1>2, <1>3, <1>4, <1>5, <1>7, <2>1 DEF Shown
<1>8. CASE tasks[i].error = m
  BY <1>2, <1>3, <1>8 DEF Shown
<1> QED
  BY <1>6, <1>7, <1>8 DEF Threw

\* A task that met none shows none, or one that rode in on its item.
LEMMA PassedOnShows ==
    ASSUME RunInv, NEW i \in DOMAIN tasks, PassedOn(i)
    PROVE  \/ Shown(i) = None
           \/ /\ IsCanonical(i) /\ tasks[i].error = None /\ tasks[i].name[2] \in emitted.swallowing
              /\ Shown(i) \in Message /\ MetBefore(Shown(i), i - 1)
<1> DEFINE n == tasks[i].name[2]
<1> SUFFICES ASSUME Shown(i) # None, IsCanonical(i)
             PROVE  /\ n \in emitted.swallowing
                    /\ Shown(i) \in Message /\ MetBefore(Shown(i), i - 1)
  BY DEF PassedOn, Shown
<1>1. /\ wf \in Workflow /\ Width(wf, tasks[i].name) \in Nat /\ Width(wf, tasks[i].name) >= 1
      /\ TaskHolds(i) /\ tasks[i].error = None
  BY TaskFacts DEF PassedOn
<1>2. PICK out \in OutputsOf(tasks[i].name), item \in Item :
          Emits(i, out, item) /\ (item # "fine" => MetBefore(item, i - 1))
  BY DEF PassedOn
<1>3. tasks[i].name = Canonical(n)
  <2>1. PICK l \in emitted.links : l.to = tasks[i].name
    BY <1>1 DEF TaskHolds, Linked
  <2>2. \E k : l.to \in {Canonical(k), Router(k), Marker(k)}
    BY <1>1, <2>1, LinksAre DEF RunInv, Shape, Emit
  <2> QED
    BY <2>1, <2>2 DEF IsCanonical, Canonical, Router, Marker
<1>4. n \in emitted.errorOutput => n \in ErrorOutput(wf) /\ n \in wf.nodes
  BY Swallowed DEF ErrorOutput
<1>5. n \notin emitted.errorOutput
  <2> SUFFICES ASSUME n \in emitted.errorOutput PROVE FALSE
    OBVIOUS
  <2>1. Width(wf, tasks[i].name) = 2 /\ ~ (Branching(wf, n) /\ tasks[i].name = BranchOwner(wf, n))
    <3>1. Canonical(n) # Router(n)
      BY DEF Canonical, Router
    <3> QED
      BY <1>3, <1>4, <3>1, ErrorOutputs
  <2>2. out = 0
    BY <1>2, <2>1 DEF OutputsOf
  <2>3. tasks[i].outputs[2] = << >> /\ Len(tasks[i].outputs) = 2
    <3>1. tasks[i].outputs = Items(2, 0, item)
      BY <1>2, <2>1, <2>2 DEF Emits
    <3>2. Len(Items(2, 0, item)) = 2 /\ Items(2, 0, item)[2] = << >>
      BY DEF Items
    <3> QED
      BY <3>1, <3>2
  <2>4. Len(tasks[i].outputs) > 1 /\ ErrorIn(tasks[i].outputs[2]) = None
    BY <2>3 DEF ErrorIn
  <2>5. Shown(i) = None
    BY <1>1, <2>4 DEF Shown
  <2> QED
    BY <2>5
<1>6. n \in emitted.swallowing /\ tasks[i].outputs # << >> /\ Shown(i) = ErrorIn(tasks[i].outputs[1])
  BY <1>1, <1>5 DEF Shown
<1>7. tasks[i].outputs[1] = << item >> \/ tasks[i].outputs[1] = << >>
  BY <1>1, <1>2, ItemsAre DEF Emits
<1>8. Shown(i) = item /\ item # "fine"
  BY <1>6, <1>7 DEF ErrorIn
<1> QED
  BY <1>2, <1>6, <1>8 DEF Item

LEMMA BlameOk == RunInv => FailuresAreTheThrowers
<1> SUFFICES ASSUME RunInv PROVE FailuresAreTheThrowers
  OBVIOUS
<1>1. \A i \in Mapped : i \in DOMAIN tasks /\ i \in Nat /\ DOMAIN tasks = 1..Len(tasks) /\ Len(tasks) \in Nat
  BY TaskFacts DEF Mapped
<1>2. ASSUME NEW j \in DOMAIN tasks, Shown(j) \in Message
      PROVE  history[j].met = Shown(j) \/ MetBefore(Shown(j), j - 1)
  <2>1. PassedOn(j) \/ Threw(j)
    BY TaskFacts DEF TaskHolds
  <2>2. Shown(j) # None
    BY <1>2, RunAssumption
  <2> QED
    BY <2>1, <2>2, ThrowersShow, PassedOnShows
<1>3. ASSUME NEW i \in Failed PROVE i \in Met
  <2>1. i \in Mapped /\ i \in DOMAIN tasks /\ i \in Nat /\ i >= 1 /\ NodeError(i) # None
    BY <1>1, TaskFacts DEF Failed
  <2>2. CASE Threw(i)
    BY <2>1, <2>2, ThrowersShow, RunAssumption DEF Met
  <2>3. CASE PassedOn(i)
    <3>1. Shown(i) # None
      BY <2>1 DEF NodeError
    <3>2. /\ tasks[i].error = None /\ tasks[i].name[2] \in emitted.swallowing
          /\ Shown(i) \in Message /\ MetBefore(Shown(i), i - 1)
      BY <2>1, <2>3, <3>1, PassedOnShows
    <3>3. PICK j \in 1..(i - 1) : history[j].met = Shown(i)
      BY <3>2 DEF MetBefore
    <3>4. j \in DOMAIN tasks
      BY <1>1, <2>1
    <3>5. Threw(j)
      <4>1. history[j].met # None
        BY <3>1, <3>3
      <4> QED
        BY <3>4, <4>1, TaskFacts DEF TaskHolds, PassedOn
    <3>6. Shown(j) = Shown(i)
      BY <3>3, <3>4, <3>5, ThrowersShow
    <3>7. Shown(i) \in Seen(i)
      BY <3>6 DEF Seen
    <3> QED
      BY <2>1, <3>2, <3>7 DEF NodeError
  <2> QED
    BY <2>1, <2>2, <2>3, TaskFacts DEF TaskHolds
<1>4. ASSUME NEW i \in Met \ Failed PROVE \E j \in 1..(i - 1) : history[j].met = history[i].met
  <2>1. i \in Mapped /\ i \in DOMAIN tasks /\ i \in Nat /\ i >= 1 /\ history[i].met # None
    BY <1>1, TaskFacts DEF Met
  <2>2. Threw(i)
    BY <2>1, TaskFacts DEF TaskHolds, PassedOn
  <2>3. Shown(i) = history[i].met /\ history[i].met \in Message /\ IsCanonical(i)
    BY <2>1, <2>2, ThrowersShow
  <2>4. Shown(i) \in Seen(i)
    BY <2>1, <2>3 DEF Failed, NodeError
  <2>5. PICK j \in 1..(i - 1) : Shown(j) = history[i].met
    BY <2>3, <2>4 DEF Seen
  <2>6. j \in DOMAIN tasks /\ j \in Nat /\ j < i
    BY <1>1, <2>1
  <2>7. history[j].met = history[i].met \/ MetBefore(history[i].met, j - 1)
    BY <1>2, <2>3, <2>5, <2>6
  <2>8. \A k \in 1..(j - 1) : k \in 1..(i - 1)
    BY <2>1, <2>6
  <2> QED
    BY <2>5, <2>7, <2>8 DEF MetBefore
<1> QED
  BY <1>3, <1>4 DEF FailuresAreTheThrowers

THEOREM BlameIsEarned == RunSpec => []FailuresAreTheThrowers
BY AlwaysRunInv, BlameOk, PTL
-----------------------------------------------------------------------------
\* The first of the tasks that met an error is among the failures.
LEMMA FirstFails ==
    ASSUME RunInv, Met # {}
    PROVE  Failed # {} /\ \E i \in Failed : i \in Met
<1>1. Met \in SUBSET (1..Len(tasks)) /\ Len(tasks) \in Nat
  BY TaskFacts DEF Met, Mapped
<1>2. PICK i \in Met : \A j \in Met : i <= j
  BY <1>1, LeastPosition
<1>3. i \in Failed
  <2> SUFFICES ASSUME i \notin Failed PROVE FALSE
    OBVIOUS
  <2>1. PICK j \in 1..(i - 1) : history[j].met = history[i].met
    BY <1>2, BlameOk DEF FailuresAreTheThrowers
  <2>2. i \in Nat /\ i \in DOMAIN tasks /\ i <= MaxSteps /\ DOMAIN tasks = 1..Len(tasks) /\ history[i].met # None
    BY <1>1, TaskFacts DEF Met, Mapped
  <2>3. j \in Met /\ j \in Nat /\ j < i
    BY <1>1, <2>1, <2>2, RunAssumption DEF Met, Mapped
  <2> QED
    BY <1>2, <2>2, <2>3
<1> QED
  BY <1>2, <1>3

\* A record within the limit is mapped as a whole.
LEMMA WholeRecord ==
    ASSUME RunInv, ~ Truncated
    PROVE  Mapped = DOMAIN tasks
<1>1. Rows(tasks) /\ MaxSteps \in Nat
  BY RunAssumption DEF RunInv, Shape
<1>2. DOMAIN tasks = 1..Len(tasks) /\ Len(tasks) \in Nat
  BY <1>1, RowsAreIndexed
<1> QED
  BY <1>1, <1>2 DEF Truncated, Mapped

LEMMA StatusOk == RunInv => StatusIsEarned
<1> SUFFICES ASSUME RunInv PROVE StatusIsEarned
  OBVIOUS
<1> DEFINE atEnd == {i \in Met : tasks[i].name[2] \in Terminal(wf)}
<1>1. emitted.dropped = Dropped(wf) /\ emitted.terminal = Terminal(wf)
  BY DEF RunInv, Shape, Emit
<1>2. ASSUME ~ RunFailed, NoFailures
      PROVE  /\ status = "success" /\ pending = {}
             /\ \A i \in DOMAIN tasks : history[i].met = None
             /\ \A i \in DOMAIN tasks, e \in Dropped(wf) : tasks[i].name # Canonical(e.source)
  <2>1. status = "success" /\ ~ Truncated /\ Failed = {} /\ MissingTargets = {}
    BY <1>2 DEF RunFailed, NoFailures
  <2>2. pending = {}
    BY <2>1 DEF RunInv, Shape
  <2>3. Mapped = DOMAIN tasks
    BY <2>1, WholeRecord
  <2>4. Met = {}
    BY <2>1, FirstFails
  <2> QED
    BY <1>1, <2>1, <2>2, <2>3, <2>4 DEF Met, MissingTargets
<1>3. ASSUME status = "success", Len(tasks) <= MaxSteps, RunFailed PROVE atEnd # {}
  <2>1. Len(tasks) \in Nat /\ MaxSteps \in Nat
    BY RowsAreIndexed, RunAssumption DEF RunInv, Shape
  <2>2. FailedWithNowhereToGo
    BY <1>3, <2>1 DEF RunFailed, Truncated
  <2> QED
    BY <1>1, <2>2, BlameOk DEF FailedWithNowhereToGo, FailuresAreTheThrowers
<1>4. ASSUME NEW i \in atEnd, \A j \in 1..(i - 1) : history[j].met # history[i].met PROVE RunFailed
  <2>1. i \in Failed
    BY <1>4, BlameOk DEF FailuresAreTheThrowers
  <2> QED
    BY <1>1, <2>1 DEF RunFailed, FailedWithNowhereToGo
<1> QED
  BY <1>2, <1>3, <1>4 DEF StatusIsEarned

THEOREM StatusesAreEarned == RunSpec => []StatusIsEarned
BY AlwaysRunInv, StatusOk, PTL
-----------------------------------------------------------------------------
\* In an execution that ran to its end, within the limit, an edge that is reported was
\* taken: it hangs on an output something was put on, and nothing waits any more.
LEMMA ReportedIsTaken ==
    ASSUME RunInv, status = "success", ~ Truncated, NEW e \in EdgesOf(wf), e.id \in ExecutedEdges
    PROVE  e \in Live(wf) /\ e.id \in Taken
<1>1. /\ wf \in Workflow /\ pending = {} /\ Mapped = DOMAIN tasks
      /\ emitted.links = Links(wf, propagate) /\ emitted.edges = EdgeMap(wf, propagate)
  BY WholeRecord DEF RunInv, Shape, Emit
<1>2. PICK i \in Mapped : e.id = EdgeFor(tasks[i].from)
  BY DEF ExecutedEdges
<1> DEFINE port == tasks[i].from
<1>3. port \in DOMAIN emitted.edges /\ e.id = emitted.edges[port]
  BY <1>1, <1>2, EdgeIds DEF EdgeFor
<1>4. PICK f \in Live(wf) : Reseated(wf, propagate, PortOf(wf, f)) = port /\ f.id = e.id
  BY <1>1, <1>3, EdgeMapKnows
<1>5. e = f
  BY <1>1, <1>4, EdgeIds DEF Live
<1>6. PICK k \in emitted.links : k.port = port /\ k.edge = e.id
  <2>1. [port |-> port, to |-> Canonical(f.target), edge |-> f.id] \in emitted.links
    BY <1>1, <1>4, LiveLinks
  <2> QED
    BY <1>4, <2>1
<1>7. PICK l \in emitted.links : l.port = port /\ l.to = tasks[i].name /\ l.edge = history[i].edge
  BY <1>1, <1>2, TaskFacts DEF TaskHolds, Linked
<1>8. Delivered(l)
  BY <1>1, <1>2, <1>7 DEF Delivered
<1>9. Delivered(k)
  BY <1>6, <1>7, <1>8 DEF RunInv, FannedOut
<1>10. PICK j \in DOMAIN tasks : history[j].edge = e.id
  BY <1>1, <1>6, <1>9 DEF Delivered
<1>11. e.id # None
  BY <1>1, EdgeIds
<1> QED
  BY <1>1, <1>4, <1>5, <1>10, <1>11 DEF Taken

\* What is credited with having handled a failure has passed, and a fault fired in it.
LEMMA CreditTakes ==
    ASSUME NEW injected, injected # {}, NEW asBaseline, Verdict(injected, asBaseline) = "HANDLED"
    PROVE  ~ RunFailed /\ HandlingEdges(injected) # {} /\ Recovery(injected) # {}
BY DEF Verdict

LEMMA CreditIsEarned ==
    ASSUME RunInv, Distinct, NEW injected \in Cases \ {{}}, NEW asBaseline \in BOOLEAN,
           Verdict(injected, asBaseline) = "HANDLED"
    PROVE  PathTaken /\ Recovered
<1>1. ~ RunFailed /\ HandlingEdges(injected) # {} /\ Recovery(injected) # {}
  BY CreditTakes
<1>2. status = "success" /\ ~ Truncated
  BY <1>1 DEF RunFailed
<1>3. Mapped = DOMAIN tasks
  BY <1>2, WholeRecord
<1>4. \A i \in Fired(injected) : i \in DOMAIN tasks /\ history[i].met # None
  BY <1>3, BlameOk DEF Fired, FailuresAreTheThrowers, Met
<1>5. PathTaken
  <2>1. PICK e \in HandlingEdges(injected) : TRUE
    BY <1>1
  <2>2. PICK n \in FailedNodes(injected) : n \in {e.source} \cup e.reads
    BY <2>1 DEF HandlingEdges
  <2>3. PICK i \in Fired(injected) : tasks[i].name[2] = n
    BY DEF FailedNodes
  <2>4. e \in Live(wf) /\ e.id \in Taken /\ e.fails
    BY <1>2, <2>1, ReportedIsTaken DEF HandlingEdges
  <2> QED
    BY <1>4, <2>2, <2>3, <2>4 DEF PathTaken
<1>6. Recovered
  <2>1. PICK j \in Recovery(injected) : TRUE
    BY <1>1
  <2>2. /\ j \in Mapped /\ j \notin Failed /\ IsCanonical(j)
        /\ wf.type[tasks[j].name[2]] \in RecoveryTypes
    BY <2>1 DEF Recovery
  <2>3. PICK i \in Fired(injected) : i < j
    BY <2>1 DEF Recovery
  <2>4. history[j].met = None
    <3> SUFFICES ASSUME history[j].met # None PROVE FALSE
      OBVIOUS
    <3>1. j \in Met \ Failed /\ j \in Nat /\ j >= 1 /\ DOMAIN tasks = 1..Len(tasks)
      BY <1>3, <2>2, TaskFacts DEF Met
    <3>2. PICK k \in 1..(j - 1) : history[k].met = history[j].met
      BY <3>1, BlameOk DEF FailuresAreTheThrowers
    <3>3. k \in DOMAIN tasks /\ k # j
      BY <1>3, <2>2, <3>1, <3>2, TaskFacts
    <3> QED
      BY <1>3, <3>1, <3>2, <3>3 DEF Distinct, Met
  <2> QED
    BY <1>3, <1>4, <2>2, <2>3, <2>4 DEF Recovered
<1> QED
  BY <1>5, <1>6

LEMMA ExemptionIsEarned ==
    ASSUME RunInv, NEW injected \in Cases, NEW asBaseline \in BOOLEAN,
           Verdict(injected, asBaseline) = "NOT_TRIGGERED", NEW i \in DOMAIN tasks
    PROVE  history[i].met = None
<1> SUFFICES ASSUME history[i].met # None PROVE FALSE
  OBVIOUS
<1>1. ~ RunFailed /\ Fired(injected) = {}
  BY DEF Verdict
<1>2. Mapped = DOMAIN tasks
  BY <1>1, WholeRecord DEF RunFailed
<1>3. Met # {}
  BY <1>2 DEF Met
<1>4. PICK j \in Failed : j \in Met
  BY <1>3, FirstFails
<1>5. j \in DOMAIN tasks /\ history[j].met # None
  BY <1>2, <1>4 DEF Met
<1>6. DOMAIN history = DOMAIN tasks
  BY RowsAreIndexed DEF RunInv, Shape
<1>7. tasks[j].name[2] \in injected
  BY <1>5, <1>6 DEF Cases
<1> QED
  BY <1>1, <1>4, <1>7 DEF Fired

LEMMA VerdictOk == RunInv => VerdictIsEarned
<1> SUFFICES ASSUME RunInv PROVE VerdictIsEarned
  OBVIOUS
<1>1. HandledIsEarned
  BY CreditIsEarned DEF HandledIsEarned
<1>2. NotTriggeredMeansUntouched
  BY ExemptionIsEarned DEF NotTriggeredMeansUntouched
<1> QED
  BY <1>1, <1>2 DEF VerdictIsEarned

\* The verdict on a fuzz case is earned: credit for handling a failure takes an error path
\* really taken and recovery after it, and a case is set aside only when nothing failed.
THEOREM VerdictsAreEarned == RunSpec => []VerdictIsEarned
BY AlwaysRunInv, VerdictOk, PTL
-----------------------------------------------------------------------------
\* The conditional branches of a node are told apart by how many come before them, and
\* the outputs they hang on lie below the fallback's.
LEMMA Positions ==
    ASSUME NEW w \in Workflow, NEW n, NEW e \in Conditional(w, n)
    PROVE  /\ Position(w, e) \in Nat /\ Position(w, e) < Cardinality(Conditional(w, n))
           /\ \A f \in Conditional(w, n) : Position(w, f) = Position(w, e) => f = e
<1> DEFINE D == 1..Len(w.edges)
           C == Conditional(w, n)
           Before(f) == {i \in D : w.edges[i] \in C /\ \E j \in D : i < j /\ w.edges[j] = f}
<1>1. DOMAIN w.edges = D /\ Len(w.edges) \in Nat
  BY EdgePositions
<1>2. IsFiniteSet(D)
  BY <1>1, FS_Interval
<1>3. ASSUME NEW f \in C
      PROVE  /\ f \in EdgesOf(w) /\ f.source = n /\ Position(w, f) = Cardinality(Before(f))
             /\ IsFiniteSet(Before(f)) /\ Cardinality(Before(f)) \in Nat
             /\ \E i \in D : f = w.edges[i]
  <2>1. f \in EdgesOf(w) /\ f.source = n
    BY DEF Conditional, BranchEdges, Outgoing
  <2>2. Position(w, f) = Cardinality(Before(f))
    BY <1>1, <2>1 DEF Position
  <2>3. IsFiniteSet(Before(f)) /\ Cardinality(Before(f)) \in Nat
    <3>1. Before(f) \in SUBSET D
      OBVIOUS
    <3> HIDE DEF Before, D
    <3> QED
      BY <1>2, <3>1, FS_Subset, FS_CardinalityType
  <2>4. \E i \in D : f = w.edges[i]
    BY <1>1, <2>1 DEF EdgesOf
  <2> QED
    BY <2>1, <2>2, <2>3, <2>4
<1>4. ASSUME NEW i \in D, NEW j \in D, w.edges[i] = w.edges[j] PROVE i = j
  BY <1>1, <1>4, RunAssumption
\* The edges before e are other conditional branches.
<1>5. Cardinality(Before(e)) < Cardinality(C)
  <2> DEFINE g == [i \in Before(e) |-> w.edges[i]]
  <2>1. \A i \in Before(e) : i \in D /\ w.edges[i] \in C \ {e}
    <3> SUFFICES ASSUME NEW i \in D, w.edges[i] \in C, NEW j \in D, i < j, w.edges[j] = e
                 PROVE  w.edges[i] # e
      OBVIOUS
    <3> QED
      BY <1>1, <1>4
  <2>2. g \in Injection(Before(e), C \ {e})
    <3> HIDE DEF Before
    <3> QED
      BY <1>4, <2>1, Fun_IsInj
  <2>3. IsFiniteSet(C) /\ Cardinality(C) \in Nat
    BY BranchesAreFinite
  <2>4. IsFiniteSet(C \ {e}) /\ Cardinality(C \ {e}) = Cardinality(C) - 1
    <3> HIDE DEF C
    <3>1. e \in C
      BY DEF C
    <3> QED
      BY <2>3, <3>1, FS_RemoveElement
  <2>5. Cardinality(Before(e)) <= Cardinality(C \ {e})
    <3> HIDE DEF Before, C, g
    <3> QED
      BY <2>2, <2>4, FS_Injection
  <2> QED
    <3>1. Cardinality(Before(e)) \in Nat
      BY <1>3
    <3> HIDE DEF Before, C
    <3> QED
      BY <2>3, <2>4, <2>5, <3>1
\* Of two, the later has more before it.
<1>6. ASSUME NEW f \in C, NEW h \in C, NEW i \in D, NEW j \in D, f = w.edges[i], h = w.edges[j], i < j
      PROVE  Cardinality(Before(f)) # Cardinality(Before(h))
  <2>1. Before(f) \in SUBSET Before(h)
    BY <1>1, <1>4, <1>6
  <2>2. i \in Before(h) /\ i \notin Before(f)
    BY <1>1, <1>4, <1>6
  <2>3. IsFiniteSet(Before(h))
    BY <1>3
  <2> HIDE DEF Before
  <2> QED
    BY <2>1, <2>2, <2>3, FS_Subset
<1>7. ASSUME NEW f \in C, Position(w, f) = Position(w, e) PROVE f = e
  <2>1. PICK i \in D, j \in D : f = w.edges[i] /\ e = w.edges[j]
    BY <1>3
  <2>2. Cardinality(Before(f)) = Cardinality(Before(e))
    BY <1>3, <1>7
  <2>3. ~ (i < j) /\ ~ (j < i)
    <3> HIDE DEF Before
    <3> QED
      BY <1>6, <2>1, <2>2
  <2> QED
    BY <1>1, <2>1, <2>3
<1> QED
  <2> HIDE DEF Before
  <2> QED
    BY <1>3, <1>5, <1>7

\* The output of an edge with a condition is one of two or more its owner has.
LEMMA ConditionsHaveOutputs ==
    ASSUME NEW w \in Workflow, NEW e \in Live(w), e.cond, NEW width, width = Width(w, PortOf(w, e).from)
    PROVE  /\ PortOf(w, e).from[2] = e.source
           /\ PortOf(w, e).out \in Nat /\ width \in Nat /\ width >= 2 /\ PortOf(w, e).out + 1 <= width
<1> DEFINE n == e.source
<1>1. e \in EdgesOf(w) /\ n \in w.nodes /\ e \in Outgoing(w, n) /\ PortOf(w, e).from[2] = n
  <2>1. e \in EdgesOf(w)
    BY DEF Live
  <2>2. e \in Outgoing(w, n) /\ n \in w.nodes
    BY <2>1, EdgeIds DEF Outgoing
  <2>3. PortOf(w, e).from \in {Canonical(n), Router(n)}
    BY PortSource
  <2> QED
    BY <2>1, <2>2, <2>3 DEF Canonical, Router
<1>2. CASE e \in FailureEdges(w, n)
  <2>1. PortOf(w, e).from = Canonical(n) /\ PortOf(w, e).out = 1
    BY <1>2 DEF PortOf, Port
  <2>2. n \in ErrorOutput(w)
    BY <1>1, <1>2 DEF ErrorOutput
  <2>3. width = 2
    BY <1>1, <2>1, <2>2, ErrorOutputs
  <2> QED
    BY <1>1, <2>1, <2>3
<1>3. CASE e \notin FailureEdges(w, n)
  <2>1. e \in Conditional(w, n)
    BY <1>1, <1>3 DEF Conditional, BranchEdges
  <2>2. PortOf(w, e).from = BranchOwner(w, n) /\ PortOf(w, e).out = Position(w, e) /\ Branching(w, n)
    BY <1>3, <2>1 DEF PortOf, Port, Branching
  <2>3. /\ Cardinality(Conditional(w, n)) \in Nat
        /\ Position(w, e) \in Nat /\ Position(w, e) < Cardinality(Conditional(w, n))
    BY <2>1, Positions, BranchesAreFinite
  <2>4. width \in Nat /\ width >= 2 /\ width >= Cardinality(Conditional(w, n))
    BY <1>1, <2>2, WidthIs
  <2> QED
    BY <1>1, <2>2, <2>3, <2>4
<1> QED
  BY <1>2, <1>3
-----------------------------------------------------------------------------
\* What the EdgeMap has for an output is the id of an edge that hangs on it.
LEMMA EdgeForKnows ==
    ASSUME RunInv, NEW port
    PROVE  /\ EdgeFor(port) # None =>
                  \E e \in Live(wf) : Reseated(wf, propagate, PortOf(wf, e)) = port /\ EdgeFor(port) = e.id
           /\ \A e \in Live(wf) : Reseated(wf, propagate, PortOf(wf, e)) = port => EdgeFor(port) # None
<1>1. wf \in Workflow /\ emitted.edges = EdgeMap(wf, propagate)
  BY DEF RunInv, Shape, Emit
<1>2. \A e \in Live(wf) : e.id # None
  BY <1>1, EdgeIds DEF Live
<1> QED
  BY <1>1, <1>2, EdgeMapKnows DEF EdgeFor

\* A connection that stands for an edge starts at the output the edge hangs on.
LEMMA LinkOfEdge ==
    ASSUME RunInv, NEW l \in emitted.links, l.edge # None
    PROVE  /\ \E e \in Live(wf) : l.edge = e.id /\ l.port = Reseated(wf, propagate, PortOf(wf, e))
           /\ \A e \in Live(wf) : e.id = l.edge => l.port = Reseated(wf, propagate, PortOf(wf, e))
<1>1. wf \in Workflow /\ emitted.links = Links(wf, propagate)
  BY DEF RunInv, Shape, Emit
<1>2. PICK e \in Live(wf) : l = [port |-> Reseated(wf, propagate, PortOf(wf, e)),
                                to |-> Canonical(e.target), edge |-> e.id]
  BY <1>1, LinksAre
<1>3. l.edge = e.id /\ l.port = Reseated(wf, propagate, PortOf(wf, e))
  BY <1>2
<1>4. \A f \in Live(wf) : f.id = e.id => f = e
  BY <1>1, EdgeIds DEF Live
<1> QED
  BY <1>3, <1>4

LEMMA EdgeHasLink ==
    ASSUME RunInv, NEW e \in Live(wf)
    PROVE  \E l \in emitted.links : l.port = Reseated(wf, propagate, PortOf(wf, e)) /\ l.edge = e.id
<1>1. emitted.links = Links(wf, propagate)
  BY DEF RunInv, Shape, Emit
<1> DEFINE l == [port |-> Reseated(wf, propagate, PortOf(wf, e)), to |-> Canonical(e.target), edge |-> e.id]
<1>2. l \in emitted.links
  BY <1>1, LiveLinks
<1>3. l.port = Reseated(wf, propagate, PortOf(wf, e)) /\ l.edge = e.id
  OBVIOUS
<1> QED
  BY <1>2, <1>3

LEMMA ExclusiveOk == RunInv => ExclusiveEdgesAreRecovered
<1> SUFFICES ASSUME RunInv, NEW l \in emitted.links, l.edge # None
             PROVE  LET onOutput == {k.edge : k \in {m \in emitted.links : m.port = l.port}}
                    IN  /\ onOutput = {l.edge} => (l.edge \in Taken <=> l.edge \in ExecutedEdges)
                        /\ l.edge \in ExecutedEdges => onOutput \cap Taken # {}
  BY DEF ExclusiveEdgesAreRecovered
<1> DEFINE onOutput == {k.edge : k \in {m \in emitted.links : m.port = l.port}}
<1>0. wf \in Workflow /\ emitted.links = Links(wf, propagate)
  BY DEF RunInv, Shape, Emit
\* The edge a mapped task was reached by starts at the output its input came from.
<1>1. ASSUME NEW i \in Mapped
      PROVE  \E k \in emitted.links : k.port = tasks[i].from /\ k.edge = history[i].edge
  <2>1. i \in DOMAIN tasks
    BY DEF Mapped
  <2> QED
    BY <2>1, TaskFacts DEF TaskHolds, Linked
<1>2. ASSUME l.edge \in ExecutedEdges PROVE onOutput \cap Taken # {}
  <2>1. PICK i \in Mapped : EdgeFor(tasks[i].from) = l.edge
    BY <1>2 DEF ExecutedEdges
  <2>2. PICK e \in Live(wf) : Reseated(wf, propagate, PortOf(wf, e)) = tasks[i].from /\ l.edge = e.id
    BY <2>1, EdgeForKnows
  <2>3. l.port = tasks[i].from
    BY <2>2, LinkOfEdge
  <2>4. PICK k \in emitted.links : k.port = tasks[i].from /\ k.edge = history[i].edge
    BY <1>1
  <2>5. k.edge # None
    BY <1>0, <2>2, <2>4, SyntheticPorts
  <2> QED
    BY <2>3, <2>4, <2>5 DEF Taken
<1>3. ASSUME onOutput = {l.edge}, l.edge \in Taken PROVE l.edge \in ExecutedEdges
  <2>1. PICK i \in Mapped : history[i].edge = l.edge
    BY <1>3 DEF Taken
  <2>2. PICK k \in emitted.links : k.port = tasks[i].from /\ k.edge = l.edge
    BY <1>1, <2>1
  <2>3. PICK e \in Live(wf) : l.edge = e.id /\ l.port = Reseated(wf, propagate, PortOf(wf, e))
    BY LinkOfEdge
  <2>4. k.port = l.port
    BY <2>2, <2>3, LinkOfEdge
  <2>5. EdgeFor(l.port) # None
    BY <2>3, EdgeForKnows
  <2>6. PICK f \in Live(wf) : Reseated(wf, propagate, PortOf(wf, f)) = l.port /\ EdgeFor(l.port) = f.id
    BY <2>5, EdgeForKnows
  <2>7. PICK m \in emitted.links : m.port = l.port /\ m.edge = f.id
    BY <2>6, EdgeHasLink
  <2>8. f.id \in onOutput
    BY <2>7
  <2>9. EdgeFor(tasks[i].from) = l.edge
    BY <1>3, <2>2, <2>4, <2>6, <2>8
  <2> QED
    BY <2>9 DEF ExecutedEdges
<1>4. ASSUME onOutput = {l.edge}, l.edge \in ExecutedEdges PROVE l.edge \in Taken
  BY <1>2, <1>4
<1> QED
  BY <1>2, <1>3, <1>4

\* The decision of a node that has one is that of one of its tasks.
LEMMA LastDecision ==
    ASSUME RunInv, NEW n, Decisions(n) # {}
    PROVE  \E i \in Decisions(n) : BranchDecision(n) = BranchOf(i)
<1> DEFINE last == CHOOSE i \in Decisions(n) : \A j \in Decisions(n) : j <= i
<1>1. Decisions(n) \in SUBSET (1..Len(tasks)) /\ Len(tasks) \in Nat
  BY TaskFacts DEF Decisions, Mapped
<1>2. PICK i \in Decisions(n) : \A j \in Decisions(n) : i >= j
  BY <1>1, GreatestPosition
<1>3. \A j \in Decisions(n) : j <= i
  BY <1>1, <1>2
<1>4. last \in Decisions(n)
  BY <1>2, <1>3
<1>5. BranchDecision(n) = BranchOf(last)
  BY DEF BranchDecision
<1> QED
  BY <1>4, <1>5

\* A task that put its item on an output of several reports the edge of that output.
LEMMA BranchIs ==
    ASSUME RunInv, NEW i \in DOMAIN tasks, NEW out \in Nat, NEW item, Emits(i, out, item),
           NEW width, width = Width(wf, tasks[i].name), width \in Nat, width >= 2, out + 1 <= width
    PROVE  BranchOf(i) = EdgeFor(Port(tasks[i].name, out))
<1> DEFINE s == tasks[i].outputs
<1>1. s = Items(width, out, item)
  BY DEF Emits
<1>2. DOMAIN s = 1..width /\ Len(s) = width
  BY <1>1, ItemsAre
<1>3. \A k \in 1..width : (k = out + 1 => s[k] = << item >>) /\ (k # out + 1 => s[k] = << >>)
  BY <1>1, ItemsAre
<1>4. out + 1 \in 1..width
  OBVIOUS
<1>5. \A k \in 1..width : s[k] # << >> <=> k = out + 1
  <2>1. << item >> # << >>
    OBVIOUS
  <2> QED
    BY <1>3, <2>1, Zenon
<1>6. Chosen(i) = {out + 1}
  BY <1>2, <1>4, <1>5 DEF Chosen
<1>7. (CHOOSE k \in Chosen(i) : \A l \in Chosen(i) : k <= l) = out + 1
  BY <1>6
<1>8. (out + 1) - 1 = out
  OBVIOUS
<1>9. ~ (Len(tasks[i].outputs) < 2 \/ Chosen(i) = {})
  BY <1>2, <1>6
<1> QED
  BY <1>7, <1>8, <1>9 DEF BranchOf

LEMMA BranchesOk == RunInv => BranchesAreReported
<1> SUFFICES ASSUME RunInv, ~ propagate PROVE
        /\ \A e \in Live(wf) : (e.cond /\ e.id \in Taken) => BranchDecision(e.source) # None
        /\ \A e \in EdgesOf(wf), n \in wf.nodes : BranchDecision(n) = e.id => e.source = n
  BY DEF BranchesAreReported
<1>0. wf \in Workflow /\ propagate = FALSE
  BY DEF RunInv, Shape
\* No marker has moved anything.
<1>1. \A port : Reseated(wf, propagate, port) = port
  BY <1>0 DEF Reseated, Marked, Swallowing
<1>2. ASSUME NEW e \in Live(wf), e.cond, e.id \in Taken PROVE BranchDecision(e.source) # None
  <2> DEFINE port == PortOf(wf, e)
  <2>1. PICK i \in Mapped : history[i].edge = e.id
    BY <1>2 DEF Taken
  <2>2. /\ i \in DOMAIN tasks /\ i \in Nat /\ i <= MaxSteps /\ TaskHolds(i) /\ DOMAIN tasks = 1..Len(tasks)
        /\ Len(tasks) \in Nat
    BY TaskFacts DEF Mapped
  <2>3. PICK k \in emitted.links : k.port = tasks[i].from /\ k.edge = e.id
    BY <2>1, <2>2 DEF TaskHolds, Linked
  <2>4. tasks[i].from = port
    <3>1. e.id # None
      BY <1>0, EdgeIds DEF Live
    <3> QED
      BY <1>1, <2>3, <3>1, LinkOfEdge
  <2>5. /\ port = Port(port.from, port.out) /\ port.from \in {Canonical(e.source), Router(e.source)}
    BY PortSource
  <2>6. port # Port(Trigger, 0)
    BY <2>5 DEF Port, Trigger, Canonical, Router
  <2>7. PICK j \in 1..(i - 1), item \in Item : port.from = tasks[j].name /\ Emits(j, port.out, item)
    BY <2>2, <2>4, <2>6 DEF TaskHolds, Origin
  <2>8. j \in DOMAIN tasks /\ j \in Mapped
    BY <2>2, RunAssumption DEF Mapped
  <2>9. PICK width : width = Width(wf, port.from)
    OBVIOUS
  <2>10. /\ port.from[2] = e.source
         /\ port.out \in Nat /\ width \in Nat /\ width >= 2 /\ port.out + 1 <= width
    BY <1>0, <1>2, <2>9, ConditionsHaveOutputs
  <2>11. BranchOf(j) = EdgeFor(port)
    <3>1. BranchOf(j) = EdgeFor(Port(tasks[j].name, port.out))
      BY <2>7, <2>8, <2>9, <2>10, BranchIs
    <3> QED
      BY <2>5, <2>7, <3>1
  <2>12. EdgeFor(port) # None
    BY <1>1, EdgeForKnows
  <2>13. j \in Decisions(e.source)
    BY <2>7, <2>8, <2>10, <2>11, <2>12 DEF Decisions
  <2>14. PICK d \in Decisions(e.source) : BranchDecision(e.source) = BranchOf(d)
    BY <2>13, LastDecision
  <2> QED
    BY <2>14 DEF Decisions
<1>3. ASSUME NEW e \in EdgesOf(wf), NEW n \in wf.nodes, BranchDecision(n) = e.id PROVE e.source = n
  <2>1. e.id # None /\ \A f \in EdgesOf(wf) : f.id = e.id => f = e
    BY <1>0, EdgeIds
  <2>2. Decisions(n) # {}
    BY <1>3, <2>1 DEF BranchDecision
  <2>3. PICK d \in Decisions(n) : BranchOf(d) = e.id
    BY <1>3, <2>2, LastDecision
  <2>4. tasks[d].name[2] = n
    BY DEF Decisions
  <2>5. PICK out : BranchOf(d) = EdgeFor(Port(tasks[d].name, out))
    BY <2>1, <2>3 DEF BranchOf
  <2>6. PICK f \in Live(wf) : /\ Reseated(wf, propagate, PortOf(wf, f)) = Port(tasks[d].name, out)
                              /\ f.id = e.id
    BY <2>1, <2>3, <2>5, EdgeForKnows
  <2>7. Port(tasks[d].name, out).from = tasks[d].name
    BY DEF Port
  <2>8. f.source = n
    BY <2>4, <2>6, <2>7, PortSource
  <2> QED
    BY <2>1, <2>6, <2>8 DEF Live
<1> QED
  BY <1>2, <1>3

\* The path an execution took is recovered from its record: the edges that have an output
\* to themselves, and the branch decisions, each filed under the node it belongs to.
THEOREM PathsAreRecovered == RunSpec => []PathIsRecovered
<1>1. RunInv => PathIsRecovered
  BY ExclusiveOk, BranchesOk DEF PathIsRecovered
<1> QED
  BY <1>1, AlwaysRunInv, PTL
-----------------------------------------------------------------------------
\* The live edges that hang on an output, and whether a synthetic connection of node k does.
On(port)      == {e \in Live(wf) : Reseated(wf, propagate, PortOf(wf, e)) = port}
Hops(port, k) ==
    \/ k \in wf.nodes /\ NeedsRouter(wf, k) /\ port = Reseated(wf, propagate, Port(Canonical(k), 0))
    \/ k \in Marked(wf, propagate) /\ port = Port(Canonical(k), 0)

\* The edges on which the emitter lets a node be left.
Ways(n) ==
    {S \cap Live(wf) : S \in IF ~ Branching(wf, n) THEN {BranchEdges(wf, n)}
                             ELSE {{e} : e \in Conditional(wf, n)} \cup {Fallback(wf, n)}}

\* Names and outputs are told apart by their parts.
LEMMA Names ==
    ASSUME NEW a, NEW b
    PROVE  /\ (Canonical(a) = Canonical(b) \/ Router(a) = Router(b) \/ Marker(a) = Marker(b)) => a = b
           /\ Canonical(a) # Router(b) /\ Canonical(a) # Marker(b) /\ Router(a) # Marker(b)
           /\ Trigger # Canonical(a) /\ Trigger # Router(a) /\ Trigger # Marker(a)
           /\ Canonical(a)[2] = a /\ Router(a)[2] = a /\ Marker(a)[2] = a
BY DEF Canonical, Router, Marker, Trigger

LEMMA PortParts == ASSUME NEW a, NEW i PROVE Port(a, i).from = a /\ Port(a, i).out = i
BY DEF Port

LEMMA Ports ==
    ASSUME NEW a, NEW b, NEW i, NEW j
    PROVE  /\ Port(a, i) = Port(b, j) <=> a = b /\ i = j
           /\ Port(a, i).from = a /\ Port(a, i).out = i
BY DEF Port

\* What a marker moves is output 0 of its own node.
LEMMA ReseatedIs ==
    ASSUME NEW w, NEW p, NEW port
    PROVE  /\ \A n : port = Port(Canonical(n), 0) =>
                  /\ n \in Marked(w, p) => Reseated(w, p, port) = Port(Marker(n), 0)
                  /\ n \notin Marked(w, p) => Reseated(w, p, port) = port
           /\ (\A n : port # Port(Canonical(n), 0)) => Reseated(w, p, port) = port
<1>1. \A n, m : Port(Canonical(n), 0) = Port(Canonical(m), 0) => n = m
  BY Ports, Names
<1>2. \A n : Port(Canonical(n), 0).from[2] = n
  BY Ports, Names
<1> QED
  BY <1>1, <1>2 DEF Reseated

\* Which output an edge hangs on.
LEMMA PortCases ==
    ASSUME NEW w, NEW e
    PROVE  LET n == e.source
           IN  /\ e \in FailureEdges(w, n) => PortOf(w, e) = Port(Canonical(n), 1)
               /\ e \notin FailureEdges(w, n) =>
                     PortOf(w, e) = Port(BranchOwner(w, n),
                                         IF e.cond THEN Position(w, e) ELSE Cardinality(Conditional(w, n)))
BY DEF PortOf

\* Output 0 of a node with a router leads to the router.
LEMMA RouterTakesFirst ==
    ASSUME NEW w, NEW n, NeedsRouter(w, n), NEW e
    PROVE  PortOf(w, e) # Port(Canonical(n), 0)
<1> SUFFICES ASSUME PortOf(w, e) = Port(Canonical(n), 0) PROVE FALSE
  OBVIOUS
<1>1. PortOf(w, e).from \in {Canonical(e.source), Router(e.source)} /\ PortOf(w, e).from = Canonical(n)
  BY PortSource, Ports
<1>2. e.source = n
  BY <1>1, Names
<1>3. e \notin FailureEdges(w, n)
  BY <1>2, PortCases, Ports
<1>4. PortOf(w, e).from = Router(n)
  BY <1>2, <1>3, PortCases, Ports DEF BranchOwner
<1> QED
  BY <1>1, <1>4, Names

\* Every output a decision may send an item to carries the edges of one way to leave the node.
LEMMA OwnerLeads ==
    ASSUME wf \in Workflow, NEW n,
           NEW out \in IF Branching(wf, n) THEN DecidedOutputs(n) ELSE {0}
    PROVE  {e \in Live(wf) : PortOf(wf, e) = Port(BranchOwner(wf, n), out)} \in Ways(n)
<1> DEFINE owner == BranchOwner(wf, n)
           S == {e \in Live(wf) : PortOf(wf, e) = Port(owner, out)}
           C == Conditional(wf, n)
           k == Cardinality(C)
<1>1. owner = IF NeedsRouter(wf, n) THEN Router(n) ELSE Canonical(n)
  BY DEF BranchOwner
<1>2. /\ k \in Nat /\ (~ Branching(wf, n) => k = 0 /\ C = {}) /\ (Branching(wf, n) => k >= 1)
  BY BranchesAreFinite, FS_EmptySet DEF Branching
<1>3. \A e \in Live(wf) : e \in EdgesOf(wf) /\ e \in Outgoing(wf, e.source)
  BY DEF Live, Outgoing
\* What hangs there is a branch of n, and hangs at its place.
<1>4. ASSUME NEW e \in S
      PROVE  /\ e.source = n /\ e \in BranchEdges(wf, n)
             /\ out = IF e.cond THEN Position(wf, e) ELSE k
  <2>1. PortOf(wf, e) = Port(owner, out) /\ e \in Live(wf)
    OBVIOUS
  <2>2. owner[2] = n
    BY <1>1, Names
  <2>3. e.source = n
    <3>1. PortOf(wf, e).from = owner
      BY <2>1, Ports
    <3>2. PortOf(wf, e).from \in {Canonical(e.source), Router(e.source)}
      BY PortSource
    <3> QED
      BY <2>2, <3>1, <3>2, Names
  <2>4. e \notin FailureEdges(wf, n)
    <3> SUFFICES ASSUME e \in FailureEdges(wf, n) PROVE FALSE
      OBVIOUS
    <3>1. owner = Canonical(n) /\ out = 1
      BY <2>1, <2>3, Ports, PortCases
    <3>2. ~ IsGateway(wf, n)
      BY DEF FailureEdges
    <3>3. ~ Branching(wf, n)
      BY <1>1, <3>1, <3>2, Names DEF NeedsRouter
    <3> QED
      BY <3>1, <3>3
  <2>5. out = IF e.cond THEN Position(wf, e) ELSE k
    BY <2>1, <2>3, <2>4, PortCases, Ports
  <2> QED
    BY <1>3, <2>1, <2>3, <2>4, <2>5 DEF BranchEdges
<1>5. ASSUME NEW e \in BranchEdges(wf, n), e \in Live(wf), out = IF e.cond THEN Position(wf, e) ELSE k
      PROVE  e \in S
  <2>1. e.source = n /\ e \notin FailureEdges(wf, n)
    BY DEF BranchEdges, Outgoing
  <2>2. PortOf(wf, e) = Port(owner, out)
    BY <1>5, <2>1, PortCases
  <2> QED
    BY <1>5, <2>2
<1>6. CASE ~ Branching(wf, n)
  <2>1. out = 0 /\ k = 0 /\ \A e \in BranchEdges(wf, n) : ~ e.cond
    BY <1>2, <1>6 DEF Conditional
  <2>2. S = BranchEdges(wf, n) \cap Live(wf)
    <3> HIDE DEF S, k
    <3>1. \A e \in S : e \in BranchEdges(wf, n) \cap Live(wf)
      BY <1>4 DEF S
    <3> QED
      BY <1>5, <2>1, <3>1
  <2> QED
    BY <1>6, <2>2 DEF Ways
<1>7. CASE Branching(wf, n) /\ out = k
  <2>1. \A e \in C : Position(wf, e) # k
    BY <1>2, Positions
  <2>2. S = Fallback(wf, n) \cap Live(wf)
    <3> HIDE DEF S, k
    <3>1. ASSUME NEW e \in S PROVE e \in Fallback(wf, n) \cap Live(wf)
      <4>1. e \in Live(wf)
        BY DEF S
      <4> QED
        BY <1>4, <1>7, <2>1, <4>1 DEF Fallback, Conditional
    <3>2. ASSUME NEW e \in Fallback(wf, n) \cap Live(wf) PROVE e \in S
      BY <1>5, <1>7 DEF Fallback
    <3> QED
      BY <3>1, <3>2
  <2> QED
    BY <1>7, <2>2 DEF Ways
<1>8. CASE Branching(wf, n) /\ out # k
  <2>1. PICK c \in C : out = Position(wf, c)
    BY <1>8 DEF DecidedOutputs
  <2>2. S = {c} \cap Live(wf)
    <3> HIDE DEF S, k
    <3>1. ASSUME NEW e \in S PROVE e \in {c} \cap Live(wf)
      <4>1. e \in Live(wf)
        BY DEF S
      <4>2. e \in C /\ Position(wf, e) = Position(wf, c)
        BY <1>4, <1>8, <2>1 DEF Conditional
      <4> QED
        BY <2>1, <4>1, <4>2, Positions
    <3>2. ASSUME c \in Live(wf) PROVE c \in S
      <4>1. c \in BranchEdges(wf, n) /\ c.cond
        BY DEF Conditional
      <4> QED
        BY <1>5, <2>1, <3>2, <4>1
    <3> QED
      BY <3>1, <3>2
  <2> QED
    BY <1>8, <2>1, <2>2 DEF Ways
<1> QED
  BY <1>6, <1>7, <1>8

\* Where an output leads: to the node's marker or router alone, or on edges alone.
LEMMA OwnPortLeads ==
    ASSUME wf \in Workflow, NEW n \in wf.nodes, NEW out \in OutputsOf(Canonical(n)),
           NEW port, port = Port(Canonical(n), out)
    PROVE  /\ \A k : k # n => ~ Hops(port, k)
           /\ Hops(port, n) => On(port) = {}
           /\ ~ Hops(port, n) => On(port) \in Ways(n)
<1> DEFINE first == Port(Canonical(n), 0)
<1>1. ASSUME NEW k, Hops(port, k) PROVE k = n /\ out = 0
  <2>1. port = Port(Canonical(k), 0) \/ port = Port(Marker(k), 0)
    BY <1>1, ReseatedIs DEF Hops
  <2> QED
    BY <2>1, Ports, Names
<1>2. \A e \in Live(wf) : Reseated(wf, propagate, PortOf(wf, e)) = port =>
          PortOf(wf, e) = port /\ ~ (port = first /\ n \in Marked(wf, propagate))
  <2> SUFFICES ASSUME NEW e \in Live(wf), Reseated(wf, propagate, PortOf(wf, e)) = port
               PROVE  PortOf(wf, e) = port /\ ~ (port = first /\ n \in Marked(wf, propagate))
    OBVIOUS
  <2>1. \/ Reseated(wf, propagate, PortOf(wf, e)) = PortOf(wf, e)
        \/ Reseated(wf, propagate, PortOf(wf, e)) = Port(Marker(e.source), 0)
    BY PortSource
  <2>2. port # Port(Marker(e.source), 0)
    BY Ports, Names
  <2>3. n \in Marked(wf, propagate) => Reseated(wf, propagate, first) # first
    BY ReseatedIs, Ports, Names
  <2>4. PortOf(wf, e) = port
    BY <2>1, <2>2
  <2>5. Reseated(wf, propagate, port) = port
    BY <2>4
  <2> HIDE DEF first
  <2> QED
    BY <2>3, <2>4, <2>5
<1>3. ASSUME NEW e \in Live(wf), PortOf(wf, e) = port, ~ (port = first /\ n \in Marked(wf, propagate))
      PROVE  Reseated(wf, propagate, PortOf(wf, e)) = port
  <2>1. ASSUME NEW m, port = Port(Canonical(m), 0) PROVE m = n
    <3>1. port.from = Canonical(m) /\ port.from = Canonical(n)
      BY <2>1, PortParts
    <3> QED
      BY <3>1, Names
  <2> QED
    BY <1>3, <2>1, ReseatedIs
<1>4. On(port) = IF port = first /\ n \in Marked(wf, propagate) THEN {}
                 ELSE {e \in Live(wf) : PortOf(wf, e) = port}
  BY <1>2, <1>3 DEF On
<1>5. BranchOwner(wf, n) = IF NeedsRouter(wf, n) THEN Router(n) ELSE Canonical(n)
  BY DEF BranchOwner
<1>6. CASE NeedsRouter(wf, n)
  <2>1. out = 0
    BY <1>5, <1>6, Names DEF OutputsOf
  <2>2. Hops(port, n)
    BY <1>6, <2>1, ReseatedIs DEF Hops
  <2>3. \A e \in Live(wf) : PortOf(wf, e) # first
    BY <1>6, RouterTakesFirst
  <2> QED
    BY <1>1, <1>4, <2>1, <2>2, <2>3
<1>7. CASE ~ NeedsRouter(wf, n) /\ port = first /\ n \in Marked(wf, propagate)
  BY <1>1, <1>4, <1>7 DEF Hops
<1>8. CASE ~ NeedsRouter(wf, n) /\ ~ (port = first /\ n \in Marked(wf, propagate))
  <2>1. ~ Hops(port, n)
    BY <1>8 DEF Hops
  <2>2. On(port) = {e \in Live(wf) : PortOf(wf, e) = Port(BranchOwner(wf, n), out)}
    BY <1>4, <1>5, <1>8
  <2>3. out \in IF Branching(wf, n) THEN DecidedOutputs(n) ELSE {0}
    BY <1>5, <1>8, Names DEF OutputsOf
  <2> QED
    BY <1>1, <2>1, <2>2, <2>3, OwnerLeads
<1> QED
  BY <1>6, <1>7, <1>8

LEMMA ErrorPortLeads ==
    ASSUME wf \in Workflow, NEW n \in wf.nodes, n \in ErrorOutput(wf),
           NEW port, port = Port(Canonical(n), 1)
    PROVE  On(port) = FailureEdges(wf, n) \cap Live(wf) /\ \A k : ~ Hops(port, k)
<1>1. \A k : port # Port(Canonical(k), 0) /\ port # Port(Marker(k), 0)
  BY Ports, Names
<1>2. \A k : ~ Hops(port, k)
  BY <1>1, ReseatedIs DEF Hops
<1>3. ASSUME NEW e \in On(port) PROVE e \in FailureEdges(wf, n) \cap Live(wf)
  <2>1. e \in Live(wf) /\ Reseated(wf, propagate, PortOf(wf, e)) = port
    BY DEF On
  <2>2. PortOf(wf, e) = port
    BY <1>1, <2>1, PortSource
  <2>3. PortOf(wf, e).from \in {Canonical(e.source), Router(e.source)} /\ PortOf(wf, e).from = Canonical(n)
    BY <2>2, PortSource, Ports
  <2>4. e.source = n
    BY <2>3, Names
  <2>5. ASSUME e \notin FailureEdges(wf, n) PROVE FALSE
    <3>1. /\ BranchOwner(wf, n) = Canonical(n)
          /\ (IF e.cond THEN Position(wf, e) ELSE Cardinality(Conditional(wf, n))) = 1
      BY <2>2, <2>4, <2>5, PortCases, Ports
    <3>2. ~ Branching(wf, n)
      BY <3>1, ErrorOutputs, Names
    <3>3. e \in BranchEdges(wf, n)
      BY <2>1, <2>4, <2>5 DEF BranchEdges, Outgoing, Live
    <3>4. ~ e.cond
      BY <3>2, <3>3 DEF Branching, Conditional
    <3>5. Cardinality(Conditional(wf, n)) = 0
      BY <3>2, FS_EmptySet DEF Branching
    <3> QED
      BY <3>1, <3>4, <3>5
  <2> QED
    BY <2>1, <2>5
<1>4. ASSUME NEW e \in FailureEdges(wf, n) \cap Live(wf) PROVE e \in On(port)
  <2>1. e.source = n /\ e \in Live(wf)
    BY DEF FailureEdges, Outgoing
  <2>2. PortOf(wf, e) = port
    BY <2>1, PortCases
  <2>3. Reseated(wf, propagate, port) = port
    BY <1>1, ReseatedIs
  <2> QED
    BY <2>1, <2>2, <2>3 DEF On
<1> QED
  BY <1>2, <1>3, <1>4

LEMMA RouterPortLeads ==
    ASSUME wf \in Workflow, NEW n \in wf.nodes, NeedsRouter(wf, n), NEW out \in OutputsOf(Router(n)),
           NEW port, port = Port(Router(n), out)
    PROVE  On(port) \in Ways(n) /\ \A k : ~ Hops(port, k)
<1>1. \A k : port # Port(Canonical(k), 0) /\ port # Port(Marker(k), 0)
  BY Ports, Names
<1>2. \A k : ~ Hops(port, k)
  BY <1>1, ReseatedIs DEF Hops
<1>3. BranchOwner(wf, n) = Router(n) /\ Branching(wf, n)
  BY DEF BranchOwner, NeedsRouter
<1>4. ASSUME NEW e \in Live(wf)
      PROVE  Reseated(wf, propagate, PortOf(wf, e)) = port <=> PortOf(wf, e) = port
  <2>1. Reseated(wf, propagate, port) = port
    BY <1>1, ReseatedIs
  <2> QED
    BY <1>1, <2>1, PortSource
<1>5. On(port) = {e \in Live(wf) : PortOf(wf, e) = Port(BranchOwner(wf, n), out)}
  BY <1>3, <1>4 DEF On
<1>6. out \in DecidedOutputs(n)
  BY <1>3, Names DEF OutputsOf
<1> QED
  BY <1>2, <1>3, <1>5, <1>6, OwnerLeads

LEMMA MarkerPortLeads ==
    ASSUME wf \in Workflow, NEW n, n \in Marked(wf, propagate), NEW out \in OutputsOf(Marker(n)),
           NEW port, port = Port(Marker(n), out)
    PROVE  /\ n \in wf.nodes /\ \A k : k # n => ~ Hops(port, k)
           /\ Hops(port, n) => On(port) = {}
           /\ ~ Hops(port, n) => On(port) \in Ways(n)
<1> DEFINE first == Port(Canonical(n), 0)
<1>0. n \in wf.nodes
  BY DEF Marked, Swallowing
<1>1. BranchOwner(wf, n) = IF NeedsRouter(wf, n) THEN Router(n) ELSE Canonical(n)
  BY DEF BranchOwner
<1>2. out = 0
  BY <1>1, Names DEF OutputsOf
<1>3. ASSUME NEW k PROVE Hops(port, k) <=> k = n /\ NeedsRouter(wf, n)
  <2>1. port # Port(Canonical(k), 0)
    BY Ports, Names
  <2>2. Reseated(wf, propagate, first) = port
    BY <1>2, ReseatedIs
  <2>3. port = Reseated(wf, propagate, Port(Canonical(k), 0)) => k = n
    <3>1. Reseated(wf, propagate, Port(Canonical(k), 0)) \in {Port(Canonical(k), 0), Port(Marker(k), 0)}
      BY ReseatedIs
    <3>2. port = Port(Marker(k), 0) => port.from = Marker(k)
      BY Ports
    <3>3. port.from = Marker(n)
      BY Ports
    <3> QED
      BY <2>1, <3>1, <3>2, <3>3, Names
  <2> QED
    BY <1>0, <2>1, <2>2, <2>3 DEF Hops
<1>4. ASSUME NEW e \in Live(wf)
      PROVE  Reseated(wf, propagate, PortOf(wf, e)) = port <=> PortOf(wf, e) = first
  <2>1. Reseated(wf, propagate, first) = port
    BY <1>2, ReseatedIs
  <2>2. ASSUME Reseated(wf, propagate, PortOf(wf, e)) = port PROVE PortOf(wf, e) = first
    <3>1. PortOf(wf, e).from \in {Canonical(e.source), Router(e.source)}
      BY PortSource
    <3>2. PortOf(wf, e) # port
      BY <3>1, Ports, Names
    <3>3. PICK k : PortOf(wf, e) = Port(Canonical(k), 0)
      BY <2>2, <3>2, ReseatedIs
    <3>4. port = Port(Marker(k), 0)
      BY <2>2, <3>2, <3>3, ReseatedIs
    <3>5. port.from = Marker(k) /\ port.from = Marker(n)
      BY <3>4, PortParts
    <3> QED
      BY <3>3, <3>5, Names
  <2> QED
    BY <2>1, <2>2
<1>5. On(port) = {e \in Live(wf) : PortOf(wf, e) = first}
  BY <1>4 DEF On
<1>6. CASE NeedsRouter(wf, n)
  <2>2. \A e \in Live(wf) : PortOf(wf, e) # first
    BY <1>6, RouterTakesFirst
  <2> QED
    BY <1>0, <1>3, <1>5, <1>6, <2>2
<1>7. CASE ~ NeedsRouter(wf, n)
  <2>1. PICK e \in Live(wf) : PortOf(wf, e) = first
    BY <1>7 DEF Marked, HasFirstOutput
  <2>2. Branching(wf, n) => 0 \in DecidedOutputs(n)
    <3> SUFFICES ASSUME Branching(wf, n) PROVE 0 \in DecidedOutputs(n)
      OBVIOUS
    <3>1. PortOf(wf, e).from \in {Canonical(e.source), Router(e.source)} /\ PortOf(wf, e).from = Canonical(n)
      BY <2>1, PortSource, Ports
    <3>2. e.source = n
      BY <3>1, Names
    <3>3. e \notin FailureEdges(wf, n)
      BY <2>1, <3>2, PortCases, Ports
    <3>4. e \in BranchEdges(wf, n)
      BY <3>2, <3>3 DEF BranchEdges, Outgoing, Live
    <3>5. (IF e.cond THEN Position(wf, e) ELSE Cardinality(Conditional(wf, n))) = 0
      BY <2>1, <3>2, <3>3, PortCases, Ports
    <3>6. Cardinality(Conditional(wf, n)) >= 1
      BY BranchesAreFinite
    <3> QED
      BY <3>4, <3>5, <3>6 DEF DecidedOutputs, Conditional
  <2>3. On(port) \in Ways(n)
    BY <1>1, <1>5, <1>7, <2>2, OwnerLeads
  <2> QED
    BY <1>0, <1>3, <1>7, <2>3
<1> QED
  BY <1>6, <1>7
-----------------------------------------------------------------------------
\* The inputs that wait to run node n, and those that wait behind it.
At(inputs, n)     == {p \in inputs : p.to = Canonical(n)}
Behind(inputs, n) == {p \in inputs : p.to \in {Router(n), Marker(n)}}

\* The connections that lead to a node, a router or a marker.
LEMMA LinksTo ==
    ASSUME RunInv, NEW l \in emitted.links, NEW m
    PROVE  /\ (l.to = Canonical(m) /\ l.port # Port(Trigger, 0)) =>
                  \E e \in Live(wf) : /\ e.target = m
                                      /\ l = [port |-> Reseated(wf, propagate, PortOf(wf, e)),
                                              to |-> Canonical(e.target), edge |-> e.id]
           /\ l.to = Router(m) => /\ m \in wf.nodes /\ NeedsRouter(wf, m)
                                  /\ l = [port |-> Reseated(wf, propagate, Port(Canonical(m), 0)),
                                          to |-> Router(m), edge |-> None]
           /\ l.to = Marker(m) => /\ m \in Marked(wf, propagate)
                                  /\ l = [port |-> Port(Canonical(m), 0), to |-> Marker(m), edge |-> None]
<1>1. wf \in Workflow /\ emitted.links = Links(wf, propagate)
  BY DEF RunInv, Shape, Emit
<1>2. CASE l.edge # None
  <2>1. PICK e \in Live(wf) : l = [port |-> Reseated(wf, propagate, PortOf(wf, e)),
                                  to |-> Canonical(e.target), edge |-> e.id]
    BY <1>1, <1>2, LinksAre
  <2>2. l.to = Canonical(e.target)
    BY <2>1
  <2> QED
    BY <2>1, <2>2, Names
<1>3. CASE l.edge = None
  <2>1. CASE \E n \in wf.nodes : /\ NeedsRouter(wf, n)
                                 /\ l = [port |-> Reseated(wf, propagate, Port(Canonical(n), 0)),
                                         to |-> Router(n), edge |-> None]
    <3>1. PICK n \in wf.nodes : /\ NeedsRouter(wf, n)
                                /\ l = [port |-> Reseated(wf, propagate, Port(Canonical(n), 0)),
                                        to |-> Router(n), edge |-> None]
      BY <2>1
    <3>2. l.to = Router(n)
      BY <3>1
    <3> QED
      BY <3>1, <3>2, Names
  <2>2. CASE \E n \in Marked(wf, propagate) :
                 l = [port |-> Port(Canonical(n), 0), to |-> Marker(n), edge |-> None]
    <3>1. PICK n \in Marked(wf, propagate) :
                 l = [port |-> Port(Canonical(n), 0), to |-> Marker(n), edge |-> None]
      BY <2>2
    <3>2. l.to = Marker(n)
      BY <3>1
    <3> QED
      BY <3>1, <3>2, Names
  <2>3. CASE \E n \in Starts(wf) : l = [port |-> Port(Trigger, 0), to |-> Canonical(n), edge |-> None]
    <3>1. l.port = Port(Trigger, 0) /\ \E n : l.to = Canonical(n)
      BY <2>3
    <3> QED
      BY <3>1, Names
  <2> QED
    BY <1>1, <1>3, <2>1, <2>2, <2>3, LinksAre
<1> QED
  BY <1>2, <1>3

\* What an output puts at the nodes: one input for each of its edges.
LEMMA ArrivedAt ==
    ASSUME RunInv, NEW by, NEW port, port # Port(Trigger, 0), NEW item, NEW m, NEW new,
           new = Arriving(by, port, item)
    PROVE  /\ IsFiniteSet(At(new, m))
           /\ Cardinality({e \in On(port) : e.target = m}) \in Nat
           /\ Cardinality(At(new, m)) = Cardinality({e \in On(port) : e.target = m})
<1> DEFINE T == {e \in On(port) : e.target = m}
           row(e) == [by |-> by, to |-> Canonical(e.target), from |-> port, edge |-> e.id, item |-> item]
           f == [e \in T |-> row(e)]
<1>1. wf \in Workflow
  BY DEF RunInv, Shape
<1>2. IsFiniteSet(T) /\ Cardinality(T) \in Nat
  <2>1. T \in SUBSET EdgesOf(wf)
    BY DEF On, Live
  <2>2. IsFiniteSet(EdgesOf(wf))
    BY <1>1, BranchesAreFinite
  <2> HIDE DEF T
  <2> QED
    BY <2>1, <2>2, FS_Subset, FS_CardinalityType
<1>3. ASSUME NEW e \in T PROVE row(e) \in At(new, m)
  <2>1. e \in Live(wf) /\ Reseated(wf, propagate, PortOf(wf, e)) = port /\ e.target = m
    BY DEF On
  <2>2. [port |-> port, to |-> Canonical(e.target), edge |-> e.id] \in emitted.links
    BY <2>1, LiveLinks DEF RunInv, Shape, Emit
  <2>3. row(e) \in new
    BY <2>2 DEF Arriving
  <2>4. row(e).to = Canonical(m)
    BY <2>1
  <2> HIDE DEF row
  <2> QED
    BY <2>3, <2>4 DEF At
<1>4. ASSUME NEW p \in At(new, m) PROVE \E e \in T : p = row(e)
  <2>1. p.to = Canonical(m) /\ p \in new
    BY DEF At
  <2>2. PICK l \in emitted.links : /\ l.port = port
                                   /\ p = [by |-> by, to |-> l.to, from |-> port, edge |-> l.edge, item |-> item]
    BY <2>1 DEF Arriving
  <2>3. l.to = Canonical(m)
    BY <2>1, <2>2
  <2>4. PICK e \in Live(wf) : /\ e.target = m
                              /\ l = [port |-> Reseated(wf, propagate, PortOf(wf, e)),
                                      to |-> Canonical(e.target), edge |-> e.id]
    BY <2>2, <2>3, LinksTo
  <2>5. Reseated(wf, propagate, PortOf(wf, e)) = port /\ l.to = Canonical(e.target) /\ l.edge = e.id
    BY <2>2, <2>4
  <2>6. e \in T
    BY <2>4, <2>5 DEF On
  <2> QED
    BY <2>2, <2>5, <2>6
<1>5. f \in Bijection(T, At(new, m))
  <2>1. \A d, e \in T : row(d) = row(e) => d = e
    <3> SUFFICES ASSUME NEW d \in T, NEW e \in T, row(d) = row(e) PROVE d = e
      OBVIOUS
    <3>1. d \in EdgesOf(wf) /\ e \in EdgesOf(wf)
      BY DEF On, Live
    <3>2. row(d).edge = d.id /\ row(e).edge = e.id
      OBVIOUS
    <3> HIDE DEF row
    <3> QED
      BY <1>1, <3>1, <3>2, EdgeIds
  <2> HIDE DEF T, row
  <2>2. f \in [T -> At(new, m)]
    BY <1>3
  <2>3. \A a, b \in T : f[a] = f[b] => a = b
    BY <2>1
  <2>4. \A p \in At(new, m) : \E e \in T : f[e] = p
    BY <1>4
  <2>5. f \in Injection(T, At(new, m))
    <3> HIDE DEF f
    <3> QED
      BY <2>2, <2>3, Fun_IsInj
  <2>6. f \in Surjection(T, At(new, m))
    <3> HIDE DEF f
    <3> QED
      BY <2>2, <2>4, Fun_IsSurj
  <2> QED
    <3> HIDE DEF f
    <3> QED
      BY <2>5, <2>6 DEF Bijection
<1>6. ExistsBijection(T, At(new, m))
  <2> HIDE DEF T, f
  <2> QED
    BY <1>5 DEF ExistsBijection
<1> QED
  <2> HIDE DEF T
  <2>1. IsFiniteSet(At(new, m)) /\ Cardinality(At(new, m)) = Cardinality(T)
    BY <1>2, <1>6, FS_Bijection
  <2> QED
    BY <1>2, <2>1 DEF T

\* What an output puts at markers and routers: one input for a synthetic connection.
LEMMA ArrivedBehind ==
    ASSUME RunInv, NEW by, NEW port, NEW item, NEW m, NEW new, new = Arriving(by, port, item)
    PROVE  /\ Hops(port, m) => \E p : Behind(new, m) = {p}
           /\ ~ Hops(port, m) => Behind(new, m) = {}
           /\ IsFiniteSet(Behind(new, m))
           /\ Cardinality(Behind(new, m)) = IF Hops(port, m) THEN 1 ELSE 0
<1> DEFINE row(to) == [by |-> by, to |-> to, from |-> port, edge |-> None, item |-> item]
<1>1. emitted.links = Links(wf, propagate)
  BY DEF RunInv, Shape, Emit
<1>2. ASSUME NEW p \in Behind(new, m)
      PROVE  \/ p = row(Router(m)) /\ NeedsRouter(wf, m) /\ m \in wf.nodes
                /\ port = Reseated(wf, propagate, Port(Canonical(m), 0))
             \/ p = row(Marker(m)) /\ m \in Marked(wf, propagate) /\ port = Port(Canonical(m), 0)
  <2>1. p.to \in {Router(m), Marker(m)} /\ p \in new
    BY DEF Behind
  <2>2. PICK l \in emitted.links : /\ l.port = port
                                   /\ p = [by |-> by, to |-> l.to, from |-> port, edge |-> l.edge, item |-> item]
    BY <2>1 DEF Arriving
  <2>3. l.to \in {Router(m), Marker(m)}
    BY <2>1, <2>2
  <2>4. CASE l.to = Router(m)
    <3>1. /\ m \in wf.nodes /\ NeedsRouter(wf, m)
          /\ l = [port |-> Reseated(wf, propagate, Port(Canonical(m), 0)), to |-> Router(m), edge |-> None]
      BY <2>4, LinksTo
    <3>2. l.port = Reseated(wf, propagate, Port(Canonical(m), 0)) /\ l.edge = None
      BY <3>1
    <3> QED
      BY <2>2, <2>4, <3>1, <3>2
  <2>5. CASE l.to = Marker(m)
    <3>1. /\ m \in Marked(wf, propagate)
          /\ l = [port |-> Port(Canonical(m), 0), to |-> Marker(m), edge |-> None]
      BY <2>5, LinksTo
    <3>2. l.port = Port(Canonical(m), 0) /\ l.edge = None
      BY <3>1
    <3> QED
      BY <2>2, <2>5, <3>1, <3>2
  <2> QED
    BY <2>3, <2>4, <2>5
<1>3. ASSUME m \in wf.nodes, NeedsRouter(wf, m), port = Reseated(wf, propagate, Port(Canonical(m), 0))
      PROVE  row(Router(m)) \in Behind(new, m)
  <2>1. [port |-> port, to |-> Router(m), edge |-> None] \in emitted.links
    BY <1>1, <1>3 DEF Links
  <2>2. row(Router(m)) \in new /\ row(Router(m)).to = Router(m)
    BY <2>1 DEF Arriving
  <2> HIDE DEF row
  <2> QED
    BY <2>2 DEF Behind
<1>4. ASSUME m \in Marked(wf, propagate), port = Port(Canonical(m), 0)
      PROVE  row(Marker(m)) \in Behind(new, m)
  <2>1. [port |-> port, to |-> Marker(m), edge |-> None] \in emitted.links
    BY <1>1, <1>4 DEF Links
  <2>2. row(Marker(m)) \in new /\ row(Marker(m)).to = Marker(m)
    BY <2>1 DEF Arriving
  <2> HIDE DEF row
  <2> QED
    BY <2>2 DEF Behind
<1>5. ~ (/\ m \in Marked(wf, propagate) /\ port = Port(Canonical(m), 0)
         /\ port = Reseated(wf, propagate, Port(Canonical(m), 0)))
  <2>1. m \in Marked(wf, propagate) => Reseated(wf, propagate, Port(Canonical(m), 0)) = Port(Marker(m), 0)
    BY ReseatedIs
  <2>2. Port(Marker(m), 0) # Port(Canonical(m), 0)
    BY Names DEF Port
  <2> QED
    BY <2>1, <2>2
<1>6. Hops(port, m) => Behind(new, m) = {row(Router(m))} \/ Behind(new, m) = {row(Marker(m))}
  <2> HIDE DEF row
  <2> QED
    BY <1>2, <1>3, <1>4, <1>5 DEF Hops
<1>7. ~ Hops(port, m) => Behind(new, m) = {}
  <2> HIDE DEF row
  <2> QED
    BY <1>2 DEF Hops
<1>8. /\ \A p : IsFiniteSet({p}) /\ Cardinality({p}) = 1
      /\ IsFiniteSet({}) /\ Cardinality({}) = 0
  BY FS_Singleton, FS_EmptySet
<1> HIDE DEF row
<1> QED
  BY <1>6, <1>7, <1>8
-----------------------------------------------------------------------------
\* Finitely many inputs wait anywhere.
Counted == \A n : IsFiniteSet(At(pending, n)) /\ IsFiniteSet(Behind(pending, n))

\* An input waits at a node, at the router of one or at its marker.
LEMMA WaitsWhere ==
    ASSUME RunInv, NEW p \in pending
    PROVE  \/ \E n \in wf.nodes : p.to = Canonical(n)
           \/ \E n \in wf.nodes : NeedsRouter(wf, n) /\ p.to = Router(n)
           \/ \E n \in Marked(wf, propagate) : p.to = Marker(n)
<1>1. wf \in Workflow /\ emitted.links = Links(wf, propagate) /\ Waiting(p)
  BY DEF RunInv, Shape, Emit
<1>2. PICK l \in emitted.links : l.to = p.to
  BY <1>1 DEF Waiting, Linked
<1>3. CASE l.edge # None
  <2>1. PICK e \in Live(wf) : l = [port |-> Reseated(wf, propagate, PortOf(wf, e)),
                                  to |-> Canonical(e.target), edge |-> e.id]
    BY <1>1, <1>3, LinksAre
  <2> QED
    BY <1>2, <2>1 DEF Live
<1>4. CASE l.edge = None
  <2>1. Starts(wf) \subseteq wf.nodes
    BY DEF Starts
  <2>2. \/ \E n \in wf.nodes : NeedsRouter(wf, n) /\ l.to = Router(n)
        \/ \E n \in Marked(wf, propagate) : l.to = Marker(n)
        \/ \E n \in Starts(wf) : l.to = Canonical(n)
    BY <1>1, <1>4, LinksAre
  <2> QED
    BY <1>2, <2>1, <2>2
<1> QED
  BY <1>3, <1>4

LEMMA Exchanged ==
    ASSUME NEW A, IsFiniteSet(A), NEW B, IsFiniteSet(B), A \cap B = {}, NEW x, NEW C, C = (A \ {x}) \cup B
    PROVE  /\ IsFiniteSet(C) /\ Cardinality(A) \in Nat /\ Cardinality(B) \in Nat
           /\ x \in A => Cardinality(A) > 0 /\ Cardinality(C) = Cardinality(A) - 1 + Cardinality(B)
           /\ x \notin A => Cardinality(C) = Cardinality(A) + Cardinality(B)
<1>1. /\ IsFiniteSet(A \ {x})
      /\ Cardinality(A \ {x}) = IF x \in A THEN Cardinality(A) - 1 ELSE Cardinality(A)
  BY FS_RemoveElement
<1>2. (A \ {x}) \cap B = {}
  OBVIOUS
<1>3. /\ IsFiniteSet(C)
      /\ Cardinality(C) = Cardinality(A \ {x}) + Cardinality(B) - Cardinality((A \ {x}) \cap B)
  BY <1>1, FS_Union
<1>4. /\ Cardinality(A) \in Nat /\ Cardinality(B) \in Nat /\ Cardinality(A \ {x}) \in Nat
      /\ Cardinality((A \ {x}) \cap B) = 0
  BY <1>1, <1>2, FS_CardinalityType, FS_EmptySet
<1>5. x \in A => Cardinality(A) > 0
  <2>1. x \in A => Cardinality(A) # 0
    BY FS_EmptySet
  <2> QED
    BY <1>4, <2>1
<1> QED
  BY <1>1, <1>3, <1>4, <1>5

\* What a task takes away from a node and from behind it, and what its output brings there.
Ran(input, m)   == IF input.to = Canonical(m) THEN 1 ELSE 0
Took(input, m)  == IF input.to \in {Router(m), Marker(m)} THEN 1 ELSE 0
Came(port, m)   == Cardinality({e \in On(port) : e.target = m})
Hopped(port, m) == IF Hops(port, m) THEN 1 ELSE 0

\* How sending an item on changes what waits where.
LEMMA SentCounts ==
    ASSUME RunInv, Counted, NEW input \in pending, NEW out, NEW item, NEW met,
           Send(input, out, item, met), NEW port, port = Port(input.to, out), NEW m
    PROVE  /\ IsFiniteSet(At(pending', m)) /\ IsFiniteSet(Behind(pending', m))
           /\ Cardinality(At(pending, m)) \in Nat /\ Cardinality(Behind(pending, m)) \in Nat
           /\ Came(port, m) \in Nat
           /\ Cardinality(At(pending, m)) >= Ran(input, m)
           /\ Cardinality(Behind(pending, m)) >= Took(input, m)
           /\ Cardinality(At(pending', m)) = Cardinality(At(pending, m)) - Ran(input, m) + Came(port, m)
           /\ Cardinality(Behind(pending', m)) =
                 Cardinality(Behind(pending, m)) - Took(input, m) + Hopped(port, m)
<1>1. PICK new : new = Arriving(Len(tasks) + 1, port, item)
  OBVIOUS
<1>2. pending' = (pending \ {input}) \cup new
  BY <1>1 DEF Send
<1>3. pending \cap new = {}
  <2>1. Len(tasks) \in Nat
    BY RowsAreIndexed DEF RunInv, Shape
  <2>2. \A p \in pending : p.by # Len(tasks) + 1
    BY <2>1 DEF RunInv, Waiting
  <2>3. \A p \in new : p.by = Len(tasks) + 1
    BY <1>1 DEF Arriving
  <2> QED
    BY <2>2, <2>3
<1>4. port # Port(Trigger, 0)
  <2>1. port.from = input.to
    BY PortParts
  <2>2. input.to # Trigger
    BY WaitsWhere, Names
  <2> QED
    BY <2>1, <2>2, PortParts
<1>5. IsFiniteSet(At(new, m)) /\ Came(port, m) \in Nat /\ Cardinality(At(new, m)) = Came(port, m)
  BY <1>1, <1>4, ArrivedAt DEF Came
<1>6. IsFiniteSet(Behind(new, m)) /\ Cardinality(Behind(new, m)) = Hopped(port, m)
  BY <1>1, ArrivedBehind DEF Hopped
<1>7. IsFiniteSet(At(pending, m)) /\ IsFiniteSet(Behind(pending, m))
  BY DEF Counted
<1>8. /\ IsFiniteSet(At(pending', m)) /\ Cardinality(At(pending, m)) \in Nat
      /\ Cardinality(At(pending, m)) >= Ran(input, m)
      /\ Cardinality(At(pending', m)) = Cardinality(At(pending, m)) - Ran(input, m) + Came(port, m)
  <2> DEFINE A == At(pending, m)
             B == At(new, m)
             C == At(pending', m)
  <2>1. /\ IsFiniteSet(A) /\ IsFiniteSet(B) /\ A \cap B = {}
        /\ C = (A \ {input}) \cup B
        /\ input \in A <=> input.to = Canonical(m)
    BY <1>2, <1>3, <1>5, <1>7 DEF At
  <2>2. Cardinality(B) = Came(port, m)
    BY <1>5
  <2> HIDE DEF A, B, C
  <2>3. /\ IsFiniteSet(C) /\ Cardinality(A) \in Nat /\ Cardinality(B) \in Nat
        /\ input \in A => Cardinality(A) > 0 /\ Cardinality(C) = Cardinality(A) - 1 + Cardinality(B)
        /\ input \notin A => Cardinality(C) = Cardinality(A) + Cardinality(B)
    BY <2>1, Exchanged
  <2>4. Cardinality(A) >= Ran(input, m) /\ Cardinality(C) = Cardinality(A) - Ran(input, m) + Cardinality(B)
    <3>1. CASE input \in A
      BY <2>1, <2>3, <3>1 DEF Ran
    <3>2. CASE input \notin A
      BY <2>1, <2>3, <3>2 DEF Ran
    <3> QED
      BY <3>1, <3>2
  <2> QED
    BY <2>2, <2>3, <2>4 DEF A, C
<1>9. /\ IsFiniteSet(Behind(pending', m)) /\ Cardinality(Behind(pending, m)) \in Nat
      /\ Cardinality(Behind(pending, m)) >= Took(input, m)
      /\ Cardinality(Behind(pending', m)) = Cardinality(Behind(pending, m)) - Took(input, m) + Hopped(port, m)
  <2> DEFINE A == Behind(pending, m)
             B == Behind(new, m)
             C == Behind(pending', m)
  <2>1. /\ IsFiniteSet(A) /\ IsFiniteSet(B) /\ A \cap B = {}
        /\ C = (A \ {input}) \cup B
        /\ input \in A <=> input.to \in {Router(m), Marker(m)}
    BY <1>2, <1>3, <1>6, <1>7 DEF Behind
  <2>2. Cardinality(B) = Hopped(port, m)
    BY <1>6
  <2> HIDE DEF A, B, C
  <2>3. /\ IsFiniteSet(C) /\ Cardinality(A) \in Nat /\ Cardinality(B) \in Nat
        /\ input \in A => Cardinality(A) > 0 /\ Cardinality(C) = Cardinality(A) - 1 + Cardinality(B)
        /\ input \notin A => Cardinality(C) = Cardinality(A) + Cardinality(B)
    BY <2>1, Exchanged
  <2>4. Cardinality(A) >= Took(input, m) /\ Cardinality(C) = Cardinality(A) - Took(input, m) + Cardinality(B)
    <3>1. CASE input \in A
      BY <2>1, <2>3, <3>1 DEF Took
    <3>2. CASE input \notin A
      BY <2>1, <2>3, <3>2 DEF Took
    <3> QED
      BY <3>1, <3>2
  <2> QED
    BY <2>2, <2>3, <2>4 DEF A, C
<1> QED
  BY <1>5, <1>8, <1>9
-----------------------------------------------------------------------------
\* The positions of the canonical nodes in a record, and which of them is the k-th.
Own(list)    == {i \in DOMAIN list : list[i].name[1] = "node"}
Nth(list, k) == CHOOSE i \in Own(list) : Cardinality(Own(list) \cap (1..i)) = k

\* A set of positions has a k-th for every k up to its size, and one only.
LEMMA Ranked ==
    ASSUME NEW N \in Nat, NEW S \in SUBSET (1..N)
    PROVE  /\ IsFiniteSet(S) /\ Cardinality(S) \in Nat
           /\ \A i \in S, j \in S : Cardinality(S \cap (1..i)) = Cardinality(S \cap (1..j)) => i = j
           /\ \A k \in 1..Cardinality(S) : \E i \in S : Cardinality(S \cap (1..i)) = k
<1> DEFINE upto(i) == S \cap (1..i)
<1>1. IsFiniteSet(1..N)
  BY FS_Interval
<1>2. IsFiniteSet(S) /\ Cardinality(S) \in Nat
  BY <1>1, FS_Subset, FS_CardinalityType
<1>3. ASSUME NEW i PROVE IsFiniteSet(upto(i)) /\ Cardinality(upto(i)) \in Nat
  <2>1. upto(i) \in SUBSET S
    OBVIOUS
  <2> HIDE DEF upto
  <2> QED
    BY <1>2, <2>1, FS_Subset, FS_CardinalityType
<1>4. ASSUME NEW i \in S, NEW j \in S, i < j PROVE Cardinality(upto(i)) # Cardinality(upto(j))
  <2>1. upto(i) \in SUBSET upto(j) /\ j \in upto(j) /\ j \notin upto(i)
    BY <1>4
  <2> HIDE DEF upto
  <2> QED
    BY <1>3, <2>1, FS_Subset
<1>5. ASSUME NEW i \in S, NEW j \in S, Cardinality(upto(i)) = Cardinality(upto(j)) PROVE i = j
  <2>1. ~ (i < j) /\ ~ (j < i)
    <3> HIDE DEF upto
    <3> QED
      BY <1>4, <1>5
  <2> QED
    BY <2>1
<1>6. ASSUME NEW k \in 1..Cardinality(S) PROVE \E i \in S : Cardinality(upto(i)) = k
  <2> DEFINE T == {i \in 1..N : Cardinality(upto(i)) >= k}
  <2>1. upto(N) = S
    OBVIOUS
  <2>2. T # {}
    <3>1. N # 0
      <4>1. N = 0 => S = {}
        OBVIOUS
      <4>2. S = {} => Cardinality(S) = 0
        BY FS_EmptySet
      <4>3. Cardinality(S) # 0
        BY <1>6
      <4> QED
        BY <4>1, <4>2, <4>3
    <3>2. N \in 1..N
      BY <3>1
    <3>3. Cardinality(upto(N)) >= k
      <4> HIDE DEF upto
      <4> QED
        BY <1>2, <1>6, <2>1
    <3> HIDE DEF upto
    <3> QED
      BY <3>2, <3>3
  <2>3. PICK i \in T : \A j \in T : i <= j
    <3>1. T \in SUBSET (1..N)
      OBVIOUS
    <3> HIDE DEF T
    <3> QED
      BY <2>2, <3>1, LeastPosition
  <2>4. i \in 1..N /\ Cardinality(upto(i)) >= k
    <3> HIDE DEF upto
    <3> QED
      BY <2>3
  <2>5. Cardinality(upto(i - 1)) < k
    <3>1. CASE i = 1
      <4>1. upto(i - 1) = {}
        BY <3>1
      <4>2. Cardinality(upto(i - 1)) = 0
        <5> HIDE DEF upto
        <5> QED
          BY <4>1, FS_EmptySet
      <4> HIDE DEF upto
      <4> QED
        BY <1>6, <4>2
    <3>2. CASE i # 1
      <4>1. i - 1 \in 1..N /\ ~ (i <= i - 1)
        BY <2>4, <3>2
      <4>2. i - 1 \notin T
        <5> HIDE DEF T
        <5> QED
          BY <2>3, <4>1
      <4>3. Cardinality(upto(i - 1)) \in Nat /\ k \in Nat
        BY <1>3, <1>6
      <4> HIDE DEF upto
      <4> QED
        BY <4>1, <4>2, <4>3
    <3> QED
      BY <3>1, <3>2
  <2>6. /\ Cardinality(upto(i)) \in Nat /\ Cardinality(upto(i - 1)) \in Nat /\ k \in Nat
    BY <1>3, <1>6
  <2>7. i \in S
    <3> SUFFICES ASSUME i \notin S PROVE FALSE
      OBVIOUS
    <3>1. upto(i) = upto(i - 1)
      <4>1. \A x \in S : x \in 1..N /\ x # i
        OBVIOUS
      <4>2. \A x \in S : x \in 1..i <=> x \in 1..(i - 1)
        BY <2>4, <4>1
      <4> QED
        BY <4>2
    <3> HIDE DEF upto
    <3> QED
      BY <2>4, <2>5, <2>6, <3>1
  <2>8. Cardinality(upto(i)) = Cardinality(upto(i - 1)) + 1
    <3>1. upto(i) = upto(i - 1) \cup {i} /\ i \notin upto(i - 1)
      BY <2>4, <2>7
    <3> HIDE DEF upto
    <3> QED
      BY <1>3, <3>1, FS_AddElement
  <2> HIDE DEF upto
  <2> QED
    BY <2>4, <2>5, <2>6, <2>7, <2>8
<1> QED
  BY <1>2, <1>5, <1>6

\* The k-th canonical node of a record is the one with k up to it.
LEMMA NthIs ==
    ASSUME NEW list, Rows(list), NEW k \in 1..Cardinality(Own(list))
    PROVE  /\ Nth(list, k) \in Own(list) /\ Cardinality(Own(list) \cap (1..Nth(list, k))) = k
           /\ \A i \in Own(list) : Cardinality(Own(list) \cap (1..i)) = k => i = Nth(list, k)
<1>1. Len(list) \in Nat /\ Own(list) \in SUBSET (1..Len(list))
  BY RowsAreIndexed DEF Own
<1>2. \E i \in Own(list) : Cardinality(Own(list) \cap (1..i)) = k
  BY <1>1, Ranked
<1>3. Nth(list, k) \in Own(list) /\ Cardinality(Own(list) \cap (1..Nth(list, k))) = k
  BY <1>2 DEF Nth
<1> QED
  BY <1>1, <1>3, Ranked

LEMMA NodesAre ==
    ASSUME NEW list, Rows(list)
    PROVE  /\ NodesOf(list) = [k \in 1..Cardinality(Own(list)) |-> list[Nth(list, k)].name[2]]
           /\ Cardinality(Own(list)) \in Nat /\ IsFiniteSet(Own(list))
           /\ Own(list) \in SUBSET (1..Len(list))
<1>1. Len(list) \in Nat /\ Own(list) \in SUBSET (1..Len(list))
  BY RowsAreIndexed DEF Own
<1> QED
  BY <1>1, Ranked DEF NodesOf, Own, Nth

\* A task of a canonical node adds the node to those that ran, any other task nothing.
LEMMA NodesRecorded ==
    ASSUME NEW list, Rows(list), NEW row
    PROVE  /\ row.name[1] = "node" => NodesOf(Append(list, row)) = Append(NodesOf(list), row.name[2])
           /\ row.name[1] # "node" => NodesOf(Append(list, row)) = NodesOf(list)
<1> DEFINE N == Len(list)
           A == Own(list)
           c == Cardinality(A)
<1>0. PICK longer : longer = Append(list, row)
  OBVIOUS
<1> DEFINE B == Own(longer)
<1>1. /\ N \in Nat /\ DOMAIN list = 1..N /\ Rows(longer) /\ DOMAIN longer = 1..(N + 1)
      /\ longer[N + 1] = row /\ \A i \in 1..N : longer[i] = list[i]
  <2>1. Rows(longer) /\ Len(longer) = N + 1
    BY <1>0, RowAppended
  <2> QED
    BY <1>0, <2>1, RowsAreIndexed, RowAppended
<1>2. /\ A \in SUBSET (1..N) /\ c \in Nat /\ IsFiniteSet(A)
      /\ NodesOf(list) = [k \in 1..c |-> list[Nth(list, k)].name[2]]
      /\ NodesOf(longer) = [k \in 1..Cardinality(B) |-> longer[Nth(longer, k)].name[2]]
  BY <1>1, NodesAre
<1>3. \A i \in 1..N : i \in A <=> i \in B
  BY <1>1 DEF Own
<1>4. \A i \in 1..N : A \cap (1..i) = B \cap (1..i)
  BY <1>1, <1>3
\* The earlier ones keep their places.
<1>5. ASSUME NEW k \in 1..c, c <= Cardinality(B), Cardinality(B) \in Nat
      PROVE  longer[Nth(longer, k)].name[2] = list[Nth(list, k)].name[2]
  <2>1. /\ Nth(list, k) \in A /\ Nth(list, k) \in 1..N
        /\ Cardinality(A \cap (1..Nth(list, k))) = k
    BY <1>2, NthIs
  <2>2. Nth(list, k) \in B /\ Cardinality(B \cap (1..Nth(list, k))) = k
    BY <1>3, <1>4, <2>1
  <2>3. k \in 1..Cardinality(B)
    BY <1>2, <1>5
  <2>4. Nth(longer, k) = Nth(list, k)
    BY <1>1, <2>2, <2>3, NthIs
  <2> QED
    BY <1>1, <2>1, <2>4
<1>6. CASE row.name[1] # "node"
  <2>1. B = A
    <3>1. \A i \in B : i \in 1..N
      BY <1>1, <1>6 DEF Own
    <3> QED
      BY <1>2, <1>3, <3>1
  <2>2. NodesOf(longer) = NodesOf(list)
    <3>1. \A k \in 1..c : longer[Nth(longer, k)].name[2] = list[Nth(list, k)].name[2]
      BY <1>2, <1>5, <2>1
    <3> HIDE DEF c
    <3>2. Cardinality(B) = c
      BY <2>1 DEF c
    <3> QED
      BY <1>2, <3>1, <3>2
  <2> QED
    BY <1>0, <1>6, <2>2
<1>7. CASE row.name[1] = "node"
  <2>1. B = A \cup {N + 1} /\ N + 1 \notin A
    <3>1. N + 1 \in B
      BY <1>1, <1>7 DEF Own
    <3>2. \A i \in B : i \in 1..N \/ i = N + 1
      BY <1>1 DEF Own
    <3> QED
      BY <1>1, <1>2, <1>3, <3>1, <3>2
  <2>2. Cardinality(B) = c + 1
    BY <1>2, <2>1, FS_AddElement
  <2>3. Nth(longer, c + 1) = N + 1
    <3>1. B \cap (1..(N + 1)) = B
      BY <1>1, <1>2, <2>1
    <3>2. c + 1 \in 1..Cardinality(B)
      BY <1>2, <2>2
    <3>3. N + 1 \in B /\ Cardinality(B \cap (1..(N + 1))) = c + 1
      BY <2>1, <2>2, <3>1
    <3> HIDE DEF c, N
    <3> QED
      BY <1>1, <3>2, <3>3, NthIs
  <2>4. PICK ran : ran = NodesOf(list)
    OBVIOUS
  <2>5. ran \in Seq({list[Nth(list, k)].name[2] : k \in 1..c}) /\ Len(ran) = c
    <3>1. ran = [k \in 1..c |-> list[Nth(list, k)].name[2]]
      BY <1>2, <2>4
    <3> HIDE DEF c
    <3>2. c \in Nat
      BY <1>2 DEF c
    <3> QED
      BY <3>1, <3>2
  <2>6. NodesOf(longer) = Append(ran, row.name[2])
    <3> HIDE DEF c
    <3>1. DOMAIN Append(ran, row.name[2]) = 1..(c + 1) /\ Append(ran, row.name[2])[c + 1] = row.name[2]
      BY <2>5
    <3>2. \A k \in 1..c : Append(ran, row.name[2])[k] = ran[k]
      BY <2>5
    <3>3. Append(ran, row.name[2]) = [k \in 1..(c + 1) |-> Append(ran, row.name[2])[k]]
      BY <2>5
    <3>4. ASSUME NEW k \in 1..(c + 1)
          PROVE  longer[Nth(longer, k)].name[2] = Append(ran, row.name[2])[k]
      <4>1. CASE k = c + 1
        BY <1>1, <2>3, <3>1, <4>1
      <4>2. CASE k # c + 1
        <5>1. k \in 1..c
          BY <1>2, <4>2 DEF c
        <5>2. longer[Nth(longer, k)].name[2] = list[Nth(list, k)].name[2]
          BY <1>2, <1>5, <2>2, <5>1 DEF c
        <5>3. ran[k] = list[Nth(list, k)].name[2]
          BY <1>2, <2>4, <5>1 DEF c
        <5> QED
          BY <3>2, <5>1, <5>2, <5>3
      <4> QED
        BY <4>1, <4>2
    <3>5. NodesOf(longer) = [k \in 1..(c + 1) |-> longer[Nth(longer, k)].name[2]]
      BY <1>2, <2>2
    <3> QED
      BY <3>3, <3>4, <3>5
  <2> QED
    BY <1>0, <1>7, <2>4, <2>6
<1> QED
  BY <1>6, <1>7
-----------------------------------------------------------------------------
\* How many inputs wait at each node, and how many behind it.
Arrivals == [n \in wf.nodes |-> Cardinality(At(pending, n))]
Leaving  == [n \in wf.nodes |-> Cardinality(Behind(pending, n))]

\* The canonical walk speaks of the same graph.
LEMMA SameGraph ==
    /\ \A n : Walk!Departures(n) = Ways(n)
    /\ \A n : Walk!FailureEdges(wf, n) = FailureEdges(wf, n)
    /\ Walk!Live(wf) = Live(wf) /\ Walk!Starts(wf) = Starts(wf)
<1>1. \A n : Walk!FailureEdges(wf, n) = FailureEdges(wf, n)
  BY DEF Walk!FailureEdges, FailureEdges, Walk!Outgoing, Outgoing, Walk!EdgesOf, EdgesOf,
         Walk!IsGateway, IsGateway
<1>2. Walk!Live(wf) = Live(wf) /\ Walk!Starts(wf) = Starts(wf)
  BY DEF Walk!Live, Live, Walk!EdgesOf, EdgesOf, Walk!Starts, Starts
<1>3. \A n : Walk!BranchEdges(wf, n) = BranchEdges(wf, n)
  BY <1>1 DEF Walk!BranchEdges, BranchEdges, Walk!Outgoing, Outgoing, Walk!EdgesOf, EdgesOf
<1>4. \A n : /\ Walk!Conditional(wf, n) = Conditional(wf, n)
             /\ Walk!Fallback(wf, n) = Fallback(wf, n)
             /\ Walk!Branching(wf, n) <=> Branching(wf, n)
  BY <1>3 DEF Walk!Conditional, Conditional, Walk!Fallback, Fallback, Walk!Branching, Branching
<1>5. \A n : Walk!Departures(n) = Ways(n)
  BY <1>2, <1>3, <1>4 DEF Walk!Departures, Ways
<1> QED
  BY <1>1, <1>2, <1>5

LEMMA SameCount == ASSUME NEW S PROVE Walk!Cardinality(S) = Cardinality(S)
BY DEF Walk!Cardinality, Cardinality

\* Running a node is a visit, which leaves it on the edges of the output.
LEMMA VisitOk ==
    ASSUME RunInv, Counted, NEW input \in pending, NEW n \in wf.nodes, input.to = Canonical(n),
           status = "running", NEW out, NEW item, NEW met, Send(input, out, item, met),
           NEW port, port = Port(Canonical(n), out)
    PROVE  Walk!Visit(n, On(port))
<1>1. wf' = wf /\ propagate' = propagate /\ status' = "running"
  BY DEF Send
<1>2. NodesOf(tasks') = Append(NodesOf(tasks), n)
  <2>1. PICK row : tasks' = Append(tasks, row) /\ row.name = Canonical(n)
    <3>1. tasks' = Append(tasks, [name |-> input.to, from |-> input.from,
                                  outputs |-> Items(Width(wf, input.to), out, item), error |-> None])
      BY DEF Send, Record
    <3> QED
      BY <3>1
  <2>2. row.name[1] = "node" /\ row.name[2] = n
    BY <2>1 DEF Canonical
  <2>3. Rows(tasks)
    BY DEF RunInv, Shape
  <2> QED
    BY <2>1, <2>2, <2>3, NodesRecorded
<1>3. ASSUME NEW m \in wf.nodes
      PROVE  /\ Came(port, m) \in Nat /\ Cardinality(At(pending, m)) \in Nat
             /\ Cardinality(At(pending', m)) = Cardinality(At(pending, m)) - Ran(input, m) + Came(port, m)
             /\ Ran(input, m) = IF m = n THEN 1 ELSE 0
  <2>1. Ran(input, m) = IF m = n THEN 1 ELSE 0
    BY Names DEF Ran
  <2> QED
    BY <2>1, SentCounts
<1>4. Cardinality(At(pending, n)) > 0
  <2>1. Ran(input, n) = 1
    BY DEF Ran
  <2>2. Cardinality(At(pending, n)) \in Nat /\ Cardinality(At(pending, n)) >= Ran(input, n)
    BY SentCounts
  <2> QED
    BY <2>1, <2>2
<1>5. Arrivals' = [[m \in wf.nodes |-> Arrivals[m] + Came(port, m)] EXCEPT ![n] = @ - 1]
  <2>1. Arrivals' = [m \in wf.nodes |-> Cardinality(At(pending', m))]
    BY <1>1 DEF Arrivals, At
  <2>2. \A m \in wf.nodes : Arrivals[m] = Cardinality(At(pending, m))
    BY DEF Arrivals
  <2> QED
    BY <1>3, <2>1, <2>2
<1>6. Arrivals[n] > 0
  BY <1>4 DEF Arrivals
<1>7. Walk!Advance(On(port)) = [m \in wf.nodes |-> Arrivals[m] + Came(port, m)]
  BY SameCount DEF Walk!Advance, Arrivals, At, Came
<1> QED
  BY <1>1, <1>2, <1>5, <1>6, <1>7 DEF Walk!Visit, Arrivals, At

\* A node that runs and sends its item on its own outputs passes it on.
LEMMA PassOk ==
    ASSUME RunInv, Counted, NEW input \in pending, NEW n \in wf.nodes, input.to = Canonical(n),
           status = "running", NEW out \in OutputsOf(Canonical(n)), NEW item, NEW met,
           Send(input, out, item, met)
    PROVE  Walk!Pass(n)
<1> DEFINE port == Port(Canonical(n), out)
<1>1. Walk!Visit(n, On(port))
  BY VisitOk
<1>2. /\ \A k : k # n => ~ Hops(port, k)
      /\ Hops(port, n) => On(port) = {}
      /\ ~ Hops(port, n) => On(port) \in Ways(n)
  BY OwnPortLeads DEF RunInv, Shape
<1>3. wf' = wf /\ Leaving' = [m \in wf.nodes |-> Cardinality(Behind(pending', m))]
  BY DEF Send, Leaving, Behind
<1>4. ASSUME NEW m \in wf.nodes
      PROVE  /\ Cardinality(Behind(pending, m)) \in Nat /\ Leaving[m] = Cardinality(Behind(pending, m))
             /\ Cardinality(Behind(pending', m)) = Cardinality(Behind(pending, m)) + Hopped(port, m)
  <2>1. Took(input, m) = 0
    BY Names DEF Took
  <2>2. Hopped(port, m) \in Nat
    BY DEF Hopped
  <2> HIDE DEF port
  <2>3. port = Port(input.to, out)
    BY DEF port
  <2>4. /\ Cardinality(Behind(pending, m)) \in Nat
        /\ Cardinality(Behind(pending', m)) = Cardinality(Behind(pending, m)) - Took(input, m) + Hopped(port, m)
    BY <2>3, SentCounts
  <2> QED
    BY <2>1, <2>2, <2>4 DEF Leaving
<1> HIDE DEF port
<1>5. CASE Hops(port, n)
  <2>1. Leaving' = [Leaving EXCEPT ![n] = @ + 1]
    <3>1. \A m \in wf.nodes : Hopped(port, m) = IF m = n THEN 1 ELSE 0
      BY <1>2, <1>5 DEF Hopped
    <3>2. DOMAIN Leaving = wf.nodes
      BY DEF Leaving
    <3>3. ASSUME NEW m \in wf.nodes
          PROVE  Cardinality(Behind(pending', m)) = IF m = n THEN Leaving[n] + 1 ELSE Leaving[m]
      BY <1>4, <3>1
    <3>4. Leaving' = [m \in wf.nodes |-> IF m = n THEN Leaving[n] + 1 ELSE Leaving[m]]
      BY <1>3, <3>3
    <3> QED
      BY <3>2, <3>4
  <2>2. Walk!Visit(n, {})
    BY <1>1, <1>2, <1>5
  <2> QED
    BY <2>1, <2>2 DEF Walk!Pass, Leaving, Behind
<1>6. CASE ~ Hops(port, n)
  <2>1. Leaving' = Leaving
    <3>1. \A m \in wf.nodes : Hopped(port, m) = 0
      BY <1>2, <1>6 DEF Hopped
    <3>2. Leaving = [m \in wf.nodes |-> Leaving[m]]
      BY DEF Leaving
    <3> QED
      BY <1>3, <1>4, <3>1, <3>2
  <2>2. On(port) \in Walk!Departures(n)
    BY <1>2, <1>6, SameGraph
  <2> QED
    BY <1>1, <2>1, <2>2 DEF Walk!Pass, Leaving, Behind
<1> QED
  BY <1>5, <1>6

\* A call that fails by its error output fails on the failure edges of its node.
LEMMA FailOk ==
    ASSUME RunInv, Counted, NEW input \in pending, NEW n \in wf.nodes, input.to = Canonical(n),
           status = "running", n \in ErrorOutput(wf), NEW item, NEW met, Send(input, 1, item, met)
    PROVE  Walk!Fail(n)
<1> DEFINE port == Port(Canonical(n), 1)
<1>1. Walk!Visit(n, On(port))
  BY VisitOk
<1>2. On(port) = FailureEdges(wf, n) \cap Live(wf) /\ \A k : ~ Hops(port, k)
  BY ErrorPortLeads DEF RunInv, Shape
<1>3. wf' = wf /\ Leaving' = [m \in wf.nodes |-> Cardinality(Behind(pending', m))]
  BY DEF Send, Leaving, Behind
<1>4. ASSUME NEW m \in wf.nodes
      PROVE  Cardinality(Behind(pending', m)) = Cardinality(Behind(pending, m))
  <2>1. Took(input, m) = 0 /\ Hopped(port, m) = 0
    BY <1>2, Names DEF Took, Hopped
  <2> HIDE DEF port
  <2>2. port = Port(input.to, 1)
    BY DEF port
  <2>3. /\ Cardinality(Behind(pending, m)) \in Nat
        /\ Cardinality(Behind(pending', m)) = Cardinality(Behind(pending, m)) - Took(input, m) + Hopped(port, m)
    BY <2>2, SentCounts
  <2> QED
    BY <2>1, <2>3
<1> HIDE DEF port
<1>5. Leaving' = Leaving
  BY <1>3, <1>4 DEF Leaving
<1>6. Walk!FailureEdges(wf, n) # {} /\ On(port) = Walk!FailureEdges(wf, n) \cap Walk!Live(wf)
  BY <1>2, SameGraph DEF ErrorOutput
<1> QED
  BY <1>1, <1>5, <1>6 DEF Walk!Fail, Leaving, Behind

\* A router or a marker that runs leaves the record of canonical nodes alone, and takes
\* the item off its node unless it only hands it to the node's router.
LEMMA SyntheticSend ==
    ASSUME RunInv, Counted, NEW input \in pending, NEW n \in wf.nodes, input.to \in {Router(n), Marker(n)},
           status = "running", NEW out, NEW item, NEW met, Send(input, out, item, met),
           NEW port, port = Port(input.to, out), \A k : k # n => ~ Hops(port, k)
    PROVE  /\ wf' = wf /\ propagate' = propagate /\ status' = status
           /\ NodesOf(tasks') = NodesOf(tasks)
           /\ Arrivals' = Walk!Advance(On(port))
           /\ Leaving[n] > 0
           /\ Hops(port, n) => Leaving' = Leaving
           /\ ~ Hops(port, n) => Leaving' = [Leaving EXCEPT ![n] = @ - 1]
<1>1. /\ wf' = wf /\ propagate' = propagate /\ status' = status
      /\ Arrivals' = [m \in wf.nodes |-> Cardinality(At(pending', m))]
      /\ Leaving' = [m \in wf.nodes |-> Cardinality(Behind(pending', m))]
  BY DEF Send, Leaving, Behind, Arrivals, At
<1>2. NodesOf(tasks') = NodesOf(tasks)
  <2>1. PICK row : tasks' = Append(tasks, row) /\ row.name = input.to
    <3>1. tasks' = Append(tasks, [name |-> input.to, from |-> input.from,
                                  outputs |-> Items(Width(wf, input.to), out, item), error |-> None])
      BY DEF Send, Record
    <3> QED
      BY <3>1
  <2>2. row.name[1] # "node"
    BY <2>1 DEF Router, Marker
  <2>3. Rows(tasks)
    BY DEF RunInv, Shape
  <2> QED
    BY <2>1, <2>2, <2>3, NodesRecorded
<1>3. ASSUME NEW m
      PROVE  /\ Cardinality(At(pending', m)) = Cardinality(At(pending, m)) + Came(port, m)
             /\ Cardinality(Behind(pending, m)) \in Nat
             /\ Cardinality(Behind(pending, m)) >= Took(input, m)
             /\ Cardinality(Behind(pending', m)) =
                   Cardinality(Behind(pending, m)) - Took(input, m) + Hopped(port, m)
             /\ Took(input, m) = IF m = n THEN 1 ELSE 0
  <2>1. Ran(input, m) = 0 /\ Took(input, m) = IF m = n THEN 1 ELSE 0
    BY Names DEF Ran, Took
  <2>2. /\ Cardinality(At(pending, m)) \in Nat /\ Came(port, m) \in Nat
        /\ Cardinality(At(pending', m)) = Cardinality(At(pending, m)) - Ran(input, m) + Came(port, m)
    BY SentCounts
  <2>3. /\ Cardinality(Behind(pending, m)) \in Nat
        /\ Cardinality(Behind(pending, m)) >= Took(input, m)
        /\ Cardinality(Behind(pending', m)) = Cardinality(Behind(pending, m)) - Took(input, m) + Hopped(port, m)
    BY SentCounts
  <2> QED
    BY <2>1, <2>2, <2>3
<1>4. Walk!Advance(On(port)) = [m \in wf.nodes |-> Arrivals[m] + Came(port, m)]
  BY SameCount DEF Walk!Advance, Arrivals, At, Came
<1>5. Arrivals' = Walk!Advance(On(port))
  <2>1. \A m \in wf.nodes : Arrivals[m] = Cardinality(At(pending, m))
    BY DEF Arrivals
  <2> QED
    BY <1>1, <1>3, <1>4, <2>1
<1>6. \A m \in wf.nodes : Leaving[m] = Cardinality(Behind(pending, m))
  BY DEF Leaving
<1>7. \A m : m # n => Hopped(port, m) = 0
  BY DEF Hopped
<1>8. Leaving[n] > 0
  BY <1>3, <1>6
<1>9. ASSUME Hops(port, n) PROVE Leaving' = Leaving
  <2>1. Hopped(port, n) = 1
    BY <1>9 DEF Hopped
  <2>2. \A m \in wf.nodes : Cardinality(Behind(pending', m)) = Leaving[m]
    BY <1>3, <1>6, <1>7, <2>1
  <2>3. Leaving = [m \in wf.nodes |-> Leaving[m]]
    BY DEF Leaving
  <2> QED
    BY <1>1, <2>2, <2>3
<1>10. ASSUME ~ Hops(port, n) PROVE Leaving' = [Leaving EXCEPT ![n] = @ - 1]
  <2>1. Hopped(port, n) = 0
    BY <1>10 DEF Hopped
  <2>2. \A m \in wf.nodes : Cardinality(Behind(pending', m)) = IF m = n THEN Leaving[m] - 1 ELSE Leaving[m]
    BY <1>3, <1>6, <1>7, <2>1
  <2>3. DOMAIN Leaving = wf.nodes
    BY DEF Leaving
  <2> QED
    BY <1>1, <2>2, <2>3
<1> QED
  BY <1>1, <1>2, <1>5, <1>8, <1>9, <1>10

\* What runs behind a node leaves it, or moves nothing that counts.
LEMMA LeaveOk ==
    ASSUME RunInv, Counted, NEW input \in pending, status = "running", NEW out \in OutputsOf(input.to),
           NEW item, NEW met, Send(input, out, item, met), NEW n,
           \/ n \in wf.nodes /\ NeedsRouter(wf, n) /\ input.to = Router(n)
           \/ n \in Marked(wf, propagate) /\ input.to = Marker(n)
    PROVE  (n \in wf.nodes /\ Walk!Leave(n)) \/ UNCHANGED Walk!vars
<1> DEFINE port == Port(input.to, out)
<1>1. /\ n \in wf.nodes
      /\ \A k : k # n => ~ Hops(port, k)
      /\ Hops(port, n) => On(port) = {}
      /\ ~ Hops(port, n) => On(port) \in Ways(n)
  <2>1. wf \in Workflow
    BY DEF RunInv, Shape
  <2> QED
    BY <2>1, RouterPortLeads, MarkerPortLeads
<1>2. /\ wf' = wf /\ propagate' = propagate /\ status' = status
      /\ NodesOf(tasks') = NodesOf(tasks)
      /\ Arrivals' = Walk!Advance(On(port))
      /\ Leaving[n] > 0
      /\ Hops(port, n) => Leaving' = Leaving
      /\ ~ Hops(port, n) => Leaving' = [Leaving EXCEPT ![n] = @ - 1]
  BY <1>1, SyntheticSend
<1> HIDE DEF port
<1>3. CASE Hops(port, n)
  <2>1. \A m : Cardinality({e \in {} : e.target = m}) = 0
    <3>1. \A m : {e \in {} : e.target = m} = {}
      OBVIOUS
    <3> QED
      BY <3>1, FS_EmptySet
  <2>2. Walk!Advance({}) = [m \in wf.nodes |-> Arrivals[m] + 0]
    BY <2>1, SameCount DEF Walk!Advance, Arrivals, At
  <2>3. \A m \in wf.nodes : Arrivals[m] \in Nat
    BY FS_CardinalityType DEF Arrivals, Counted
  <2>4. Arrivals' = Arrivals
    <3>1. Arrivals = [m \in wf.nodes |-> Arrivals[m]]
      BY DEF Arrivals
    <3>2. Arrivals' = Walk!Advance({})
      BY <1>1, <1>2, <1>3
    <3>3. \A m \in wf.nodes : Arrivals[m] + 0 = Arrivals[m]
      BY <2>3
    <3> QED
      BY <2>2, <2>3, <3>1, <3>2, <3>3
  <2> QED
    BY <1>2, <1>3, <2>4 DEF Walk!vars, Arrivals, At, Leaving, Behind
<1>4. CASE ~ Hops(port, n)
  <2>1. On(port) \in Walk!Departures(n)
    BY <1>1, <1>4, SameGraph
  <2> QED
    BY <1>1, <1>2, <1>4, <2>1 DEF Walk!Leave, Arrivals, At, Leaving, Behind
<1> QED
  BY <1>3, <1>4
-----------------------------------------------------------------------------
\* When nothing waits, nothing is at a node or behind it.
LEMMA NothingWaits ==
    ASSUME pending' = {}, wf' = wf
    PROVE  /\ Arrivals' = [m \in wf.nodes |-> 0] /\ Leaving' = [m \in wf.nodes |-> 0]
           /\ Counted'
<1>1. \A m : At(pending', m) = {} /\ Behind(pending', m) = {}
  BY DEF At, Behind
<1>2. Cardinality({}) = 0 /\ IsFiniteSet({})
  BY FS_EmptySet
<1>3. \A m : Cardinality(At(pending', m)) = 0 /\ Cardinality(Behind(pending', m)) = 0
  BY <1>1, <1>2
<1>4. Arrivals' = [m \in wf.nodes |-> Cardinality(At(pending', m))]
  BY DEF Arrivals, At
<1>5. Leaving' = [m \in wf.nodes |-> Cardinality(Behind(pending', m))]
  BY DEF Leaving, Behind
<1>6. Counted'
  <2>1. \A m : IsFiniteSet(At(pending', m)) /\ IsFiniteSet(Behind(pending', m))
    BY <1>1, <1>2
  <2> QED
    BY <2>1 DEF Counted, At, Behind
<1> QED
  BY <1>3, <1>4, <1>5, <1>6

\* A call that fails with nowhere to go ends the walk.
LEMMA AbortsWalk ==
    ASSUME RunInv, Counted, NEW input \in pending, NEW n, input.to = Canonical(n), n \in Mocked(wf),
           n \notin emitted.errorOutput, n \notin emitted.swallowing, status = "running",
           NEW message, Record(input, << >>, message, message), pending' = {}, status' = "error",
           UNCHANGED << wf, propagate, emitted >>
    PROVE  n \in wf.nodes /\ Walk!Abort(n)
<1>1. n \in wf.nodes /\ ~ propagate /\ n \notin ErrorOutput(wf)
  BY Swallowed
<1>2. Walk!FailureEdges(wf, n) = {}
  BY <1>1, SameGraph DEF ErrorOutput
<1>3. NodesOf(tasks') = Append(NodesOf(tasks), n)
  <2>1. PICK row : tasks' = Append(tasks, row) /\ row.name = Canonical(n)
    <3>1. tasks' = Append(tasks, [name |-> input.to, from |-> input.from,
                                  outputs |-> << >>, error |-> message])
      BY DEF Record
    <3> QED
      BY <3>1
  <2>2. row.name[1] = "node" /\ row.name[2] = n
    BY <2>1 DEF Canonical
  <2>3. Rows(tasks)
    BY DEF RunInv, Shape
  <2> QED
    BY <2>1, <2>2, <2>3, NodesRecorded
<1>4. Arrivals[n] > 0
  <2>1. input \in At(pending, n) /\ IsFiniteSet(At(pending, n))
    BY DEF At, Counted
  <2>2. Cardinality(At(pending, n)) \in Nat /\ Cardinality(At(pending, n)) # 0
    BY <2>1, FS_CardinalityType, FS_EmptySet
  <2>3. Arrivals[n] = Cardinality(At(pending, n))
    BY <1>1 DEF Arrivals
  <2> QED
    BY <2>2, <2>3
<1>5. Arrivals' = [m \in wf.nodes |-> 0] /\ Leaving' = [m \in wf.nodes |-> 0]
  BY NothingWaits
<1> QED
  BY <1>1, <1>2, <1>3, <1>4, <1>5 DEF Walk!Abort, Arrivals, At, Leaving, Behind

\* An execution that completes or is cancelled ends the walk.
LEMMA StopsWalk ==
    ASSUME status = "running", status' # "running", pending' = {}, UNCHANGED << wf, propagate, tasks >>
    PROVE  Walk!Stop
<1>1. Arrivals' = [m \in wf.nodes |-> 0] /\ Leaving' = [m \in wf.nodes |-> 0]
  BY NothingWaits
<1>2. NodesOf(tasks') = NodesOf(tasks)
  OBVIOUS
<1> QED
  BY <1>1, <1>2 DEF Walk!Stop, Arrivals, At, Leaving, Behind

\* A task whose item goes on is a step of the walk, or one between a node and its router.
LEMMA SendsWalk ==
    ASSUME RunInv, Counted, NEW input \in pending, status = "running", NEW out \in OutputsOf(input.to),
           NEW item, NEW met, Send(input, out, item, met)
    PROVE  (\E n \in wf.nodes : Walk!Pass(n) \/ Walk!Leave(n)) \/ UNCHANGED Walk!vars
<1>1. CASE \E n \in wf.nodes : input.to = Canonical(n)
  <2>1. PICK n \in wf.nodes : input.to = Canonical(n)
    BY <1>1
  <2>2. Walk!Pass(n)
    BY <2>1, PassOk
  <2> QED
    BY <2>2
<1>2. CASE \E n \in wf.nodes : NeedsRouter(wf, n) /\ input.to = Router(n)
  <2>1. PICK n \in wf.nodes : NeedsRouter(wf, n) /\ input.to = Router(n)
    BY <1>2
  <2>2. Walk!Leave(n) \/ UNCHANGED Walk!vars
    BY <2>1, LeaveOk
  <2> QED
    BY <2>2
<1>3. CASE \E n \in Marked(wf, propagate) : input.to = Marker(n)
  <2>1. PICK n \in Marked(wf, propagate) : input.to = Marker(n)
    BY <1>3
  <2>2. (n \in wf.nodes /\ Walk!Leave(n)) \/ UNCHANGED Walk!vars
    BY <2>1, LeaveOk
  <2> QED
    BY <2>2
<1> QED
  BY <1>1, <1>2, <1>3, WaitsWhere

\* What is sent on can be counted.
LEMMA SendsCounted ==
    ASSUME RunInv, Counted, NEW input \in pending, NEW out, NEW item, NEW met, Send(input, out, item, met)
    PROVE  Counted'
<1>1. PICK port : port = Port(input.to, out)
  OBVIOUS
<1>2. \A m : IsFiniteSet(At(pending', m)) /\ IsFiniteSet(Behind(pending', m))
  BY <1>1, SentCounts
<1> QED
  BY <1>2 DEF Counted, At, Behind

\* Every step of a compiled run is a step of the canonical walk or none at all.
LEMMA StepIsAStep ==
    ASSUME RunInv, Counted, [RunNext]_runvars
    PROVE  Counted' /\ [Walk!Next]_(Walk!vars)
<1>1. ASSUME NEW input \in pending, Succeed(input)
      PROVE  Counted' /\ [Walk!Next]_(Walk!vars)
  <2>1. /\ status = "running"
        /\ \E out \in OutputsOf(input.to) : \E item : Send(input, out, item, None)
    BY <1>1 DEF Succeed, Ready, OutputsOf
  <2>2. PICK item : \E out \in OutputsOf(input.to) : Send(input, out, item, None)
    BY <2>1
  <2>3. Counted'
    BY <2>2, SendsCounted
  <2>4. (\E n \in wf.nodes : Walk!Pass(n) \/ Walk!Leave(n)) \/ UNCHANGED Walk!vars
    BY <2>1, <2>2, SendsWalk
  <2> QED
    BY <2>3, <2>4 DEF Walk!Next
<1>2. ASSUME NEW input \in pending, NEW message \in Message, Throw(input, message)
      PROVE  Counted' /\ [Walk!Next]_(Walk!vars)
  <2>1. PICK n : n = input.to[2]
    OBVIOUS
  <2>2. status = "running" /\ input.to = Canonical(n) /\ n \in Mocked(wf)
    BY <1>2, <2>1 DEF Throw, Ready
  <2>3. n \in wf.nodes /\ ~ IsGateway(wf, n)
    BY <2>2, Swallowed
  <2>4. CASE n \in emitted.errorOutput
    <3>1. Send(input, 1, message, message)
      BY <1>2, <2>1, <2>4 DEF Throw
    <3>2. n \in ErrorOutput(wf)
      BY <2>4, Swallowed
    <3>3. Walk!Fail(n)
      BY <2>2, <2>3, <3>1, <3>2, FailOk
    <3>4. Counted'
      BY <3>1, SendsCounted
    <3> QED
      BY <2>3, <3>3, <3>4 DEF Walk!Next
  <2>5. CASE n \notin emitted.errorOutput /\ n \in emitted.swallowing
    <3>1. Send(input, 0, message, message)
      BY <1>2, <2>1, <2>5 DEF Throw
    <3>2. 0 \in OutputsOf(Canonical(n))
      <4>1. Canonical(n)[2] = n /\ Canonical(n) # Router(n)
        BY Names
      <4>2. ~ (Branching(wf, n) /\ Canonical(n) = BranchOwner(wf, n))
        BY <2>3, <4>1 DEF BranchOwner, NeedsRouter
      <4> QED
        BY <4>1, <4>2 DEF OutputsOf
    <3>3. Walk!Pass(n)
      BY <2>2, <2>3, <3>1, <3>2, PassOk
    <3>4. Counted'
      BY <3>1, SendsCounted
    <3> QED
      BY <2>3, <3>3, <3>4 DEF Walk!Next
  <2>6. CASE n \notin emitted.errorOutput /\ n \notin emitted.swallowing
    <3>1. /\ Record(input, << >>, message, message) /\ pending' = {} /\ status' = "error"
          /\ UNCHANGED << wf, propagate, emitted >>
      BY <1>2, <2>1, <2>6 DEF Throw
    <3>2. Walk!Abort(n)
      BY <2>2, <2>6, <3>1, AbortsWalk
    <3>3. Counted'
      BY <3>1, NothingWaits
    <3> QED
      BY <2>3, <3>2, <3>3 DEF Walk!Next
  <2> QED
    BY <2>4, <2>5, <2>6
<1>3. ASSUME Complete \/ Deadline PROVE Counted' /\ [Walk!Next]_(Walk!vars)
  <2>1. /\ status = "running" /\ status' # "running" /\ pending' = {}
        /\ UNCHANGED << wf, propagate, tasks >>
    BY <1>3 DEF Complete, Deadline
  <2>2. Walk!Stop /\ Counted'
    BY <2>1, StopsWalk, NothingWaits
  <2> QED
    BY <2>2 DEF Walk!Next
<1>4. ASSUME UNCHANGED runvars PROVE Counted' /\ UNCHANGED Walk!vars
  <2>1. UNCHANGED << wf, propagate, emitted, pending, tasks, status >>
    BY <1>4 DEF runvars
  <2>2. Counted'
    BY <2>1 DEF Counted
  <2>3. NodesOf(tasks') = NodesOf(tasks)
    BY <2>1
  <2> QED
    BY <2>1, <2>2, <2>3 DEF Walk!vars
<1> QED
  BY <1>1, <1>2, <1>3, <1>4 DEF RunNext

\* Before anything ran, one input waits at each node that starts and none elsewhere.
LEMMA StartIsAStart == RunInit => Counted /\ Walk!Init
<1> SUFFICES ASSUME RunInit PROVE Counted /\ Walk!Init
  OBVIOUS
<1>1. RunInv /\ wf \in Workflow /\ propagate \in BOOLEAN /\ tasks = << >> /\ status = "running"
  BY RunStart DEF RunInit
<1>2. emitted.links = Links(wf, propagate)
  BY DEF RunInit, Emit
<1>3. PICK trigger : trigger = Port(Trigger, 0)
  OBVIOUS
<1>4. \A l \in emitted.links : l.port = trigger =>
          \E n \in Starts(wf) : l = [port |-> trigger, to |-> Canonical(n), edge |-> None]
  <2> SUFFICES ASSUME NEW l \in emitted.links, l.port = trigger
               PROVE  \E n \in Starts(wf) : l = [port |-> trigger, to |-> Canonical(n), edge |-> None]
    OBVIOUS
  <2>1. l.port.from = Trigger
    BY <1>3, PortParts
  <2>2. \A n : Reseated(wf, propagate, Port(Canonical(n), 0)).from # Trigger
    <3> SUFFICES ASSUME NEW n PROVE Reseated(wf, propagate, Port(Canonical(n), 0)).from # Trigger
      OBVIOUS
    <3>1. \/ Reseated(wf, propagate, Port(Canonical(n), 0)) = Port(Marker(n), 0)
          \/ Reseated(wf, propagate, Port(Canonical(n), 0)) = Port(Canonical(n), 0)
      BY ReseatedIs
    <3> QED
      BY <3>1, PortParts, Names
  <2>3. l.edge = None
    <3> SUFFICES ASSUME l.edge # None PROVE FALSE
      OBVIOUS
    <3>1. PICK e \in Live(wf) : l.port = Reseated(wf, propagate, PortOf(wf, e))
      BY <1>1, LinkOfEdge
    <3>2. l.port.from \in {Canonical(e.source), Router(e.source), Marker(e.source)}
      BY <3>1, PortSource
    <3> QED
      BY <2>1, <3>2, Names
  <2>4. \/ \E n \in wf.nodes : l.port = Reseated(wf, propagate, Port(Canonical(n), 0))
        \/ \E n \in Marked(wf, propagate) : l.port = Port(Canonical(n), 0)
        \/ \E n \in Starts(wf) : l = [port |-> Port(Trigger, 0), to |-> Canonical(n), edge |-> None]
    BY <1>1, <1>2, <2>3, LinksAre
  <2>5. \A n : l.port # Port(Canonical(n), 0)
    BY <2>1, PortParts, Names
  <2>6. \A n : l.port # Reseated(wf, propagate, Port(Canonical(n), 0))
    BY <2>1, <2>2
  <2> QED
    BY <1>3, <2>4, <2>5, <2>6
<1>5. \A n \in Starts(wf) : [port |-> trigger, to |-> Canonical(n), edge |-> None] \in emitted.links
  BY <1>2, <1>3 DEF Links
<1>6. \A p : p \in pending <=>
          \E n \in Starts(wf) : p = [by |-> 0, to |-> Canonical(n), from |-> trigger, edge |-> None, item |-> "fine"]
  <2>1. pending = {[by |-> 0, to |-> l.to, from |-> trigger, edge |-> l.edge, item |-> "fine"] :
                       l \in {k \in emitted.links : k.port = trigger}}
    BY <1>3 DEF RunInit, Arriving
  <2>2. ASSUME NEW p \in pending
        PROVE  \E n \in Starts(wf) : p = [by |-> 0, to |-> Canonical(n), from |-> trigger, edge |-> None, item |-> "fine"]
    BY <1>4, <2>1, <2>2
  <2>3. ASSUME NEW n \in Starts(wf)
        PROVE  [by |-> 0, to |-> Canonical(n), from |-> trigger, edge |-> None, item |-> "fine"] \in pending
    <3>1. PICK l \in emitted.links : l = [port |-> trigger, to |-> Canonical(n), edge |-> None]
      BY <1>5
    <3>2. l.port = trigger /\ l.to = Canonical(n) /\ l.edge = None
      BY <3>1
    <3> QED
      BY <2>1, <3>2
  <2> QED
    BY <2>2, <2>3
<1>7. \A m : Behind(pending, m) = {}
  BY <1>6, Names DEF Behind
<1>8. ASSUME NEW m PROVE IsFiniteSet(At(pending, m)) /\ Cardinality(At(pending, m)) = IF m \in Starts(wf) THEN 1 ELSE 0
  <2> DEFINE q == [by |-> 0, to |-> Canonical(m), from |-> trigger, edge |-> None, item |-> "fine"]
  <2>1. \A p \in At(pending, m) : p = q /\ m \in Starts(wf)
    BY <1>6, Names DEF At
  <2>2. m \in Starts(wf) => q \in At(pending, m)
    BY <1>6 DEF At
  <2>3. (m \in Starts(wf) => At(pending, m) = {q}) /\ (m \notin Starts(wf) => At(pending, m) = {})
    BY <2>1, <2>2
  <2>4. IsFiniteSet({q}) /\ Cardinality({q}) = 1 /\ IsFiniteSet({}) /\ Cardinality({}) = 0
    BY FS_Singleton, FS_EmptySet
  <2> QED
    BY <2>3, <2>4
<1>9. Counted
  BY <1>7, <1>8, FS_EmptySet DEF Counted
<1>10. Arrivals = [m \in wf.nodes |-> IF m \in Starts(wf) THEN 1 ELSE 0]
  BY <1>8 DEF Arrivals
<1>11. Leaving = [m \in wf.nodes |-> 0]
  BY <1>7, FS_EmptySet DEF Leaving
<1>12. NodesOf(tasks) = << >>
  <2>1. Rows(tasks)
    BY <1>1 DEF RunInv, Shape
  <2>2. Own(tasks) = {} /\ Cardinality({}) = 0
    BY <1>1, FS_EmptySet DEF Own
  <2>3. NodesOf(tasks) = [k \in 1..Cardinality(Own(tasks)) |-> tasks[Nth(tasks, k)].name[2]]
    BY <2>1, RowsAreIndexed, NodesAre
  <2>4. 1..0 = {}
    OBVIOUS
  <2>5. NodesOf(tasks) = [k \in {} |-> tasks[Nth(tasks, k)].name[2]]
    BY <2>2, <2>3, <2>4
  <2> QED
    BY <2>5
<1> QED
  BY <1>1, <1>9, <1>10, <1>11, <1>12, SameGraph DEF Walk!Init, Arrivals, At, Leaving, Behind

\* What n8n does with a compiled workflow, routers, markers, error outputs and all, is an
\* execution of the canonical workflow, whatever the workflow (emitter.py 401-529, 184-250).
THEOREM RunIsAWalk == RunSpec => WalkSpec
<1>1. RunInit => RunInv /\ Counted /\ Walk!Init
  BY RunStart, StartIsAStart
<1>2. RunInv /\ Counted /\ [RunNext]_runvars => RunInv' /\ Counted' /\ [Walk!Next]_(Walk!vars)
  BY RunStep, StepIsAStep
<1> QED
  BY <1>1, <1>2, PTL DEF RunSpec, WalkSpec, Walk!Spec
=============================================================================
