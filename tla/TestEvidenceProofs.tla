-------------------------- MODULE TestEvidenceProofs --------------------------
(***************************************************************************)
(* Theorems about TestEvidence for every finite set of requests and names     *)
(* and every value of the bounds.                                            *)
(*                                                                         *)
(* Two kinds of fact are kept.  However requests overlap, a session's stamp is *)
(* its own, the rows it holds carry that stamp and its version, and no row    *)
(* with the stamp is stored before it commits: a suite's rows are then told   *)
(* from all others by their stamp.  While requests do not overlap, stamps are  *)
(* moreover in the order of the rows, and what a session has listed is what   *)
(* there is.                                                                 *)
(***************************************************************************)
EXTENDS TestEvidence, FiniteSetTheorems, SequenceTheorems, TLAPS

Author == {"SYSTEM", "HUMAN"}

TestRow == [name : Name, by : Author, enabled : BOOLEAN, at : Nat,
            deleted : BOOLEAN]

RunRows == [test : Nat, version : Nat, ran : Nat,
            status : {"PASSED", "FAILED", "ERROR", "SKIPPED"}, executed : BOOLEAN,
            coverage : Seq(Coverage), at : Nat, deleted : BOOLEAN]

SessionState == [pc : Operation \cup {"idle", "list", "reply"}, op : Operation,
                 version : Nat, at : Nat, tests : SUBSET Nat, runs : SUBSET Nat,
                 rows : Seq(RunRows)]

\* The parts that the executed ones of these rows cover.
Parts(ts, rows, S) == {ts[rows[j].test].name : j \in {k \in S : rows[k].executed}}

\* The requirements that these tests are linked to.
Links(ts, T) == Linked \cap {ts[t].name : t \in T}

\* The rows a session holds are of its stamp and version, and their coverage adds up.
HeldRow(q, k) == /\ q.rows[k].test \in DOMAIN tests
                 /\ q.rows[k].test \in q.tests
                 /\ q.rows[k].at = q.at
                 /\ q.rows[k].ran = q.rows[k].version
                 /\ ~ q.rows[k].deleted
                 /\ q.rows[k].coverage # Unmeasured =>
                        /\ q.rows[k].coverage[1].executed = Parts(tests, q.rows, 1..k)
                        /\ q.rows[k].coverage[1].linked = Links(tests, q.tests)

\* What a session in state q may rely on.
Sound(q) == /\ q \in SessionState
            /\ q.pc # "idle" => q.at \in 1..clock
            /\ q.tests \subseteq DOMAIN tests
            /\ \A k \in DOMAIN q.rows : HeldRow(q, k)
            /\ q.pc = "list" => DOMAIN q.rows = {}
            /\ q.pc \notin {"idle", "reply"} => \A i \in DOMAIN runs : runs[i].at # q.at

Active(r) == request[r].pc # "idle"

Sessions == /\ request \in [Request -> SessionState]
            /\ \A r \in Request : Sound(request[r])
            /\ \A r, s \in Request :
                   (Active(r) /\ Active(s) /\ request[r].at = request[s].at) => r = s

StoredRow(i) == /\ runs[i].test \in DOMAIN tests
                /\ runs[i].at <= clock
                /\ runs[i].ran = runs[i].version

Tables == /\ clock \in Nat /\ version \in Nat
          /\ tests \in Seq(TestRow)
          /\ runs \in Seq(RunRows)
          /\ \A i \in DOMAIN runs : StoredRow(i)
          /\ CoverageAddsUp

Evaluated == /\ evaluation \in [version : Nat, run : 0..Len(runs)]
             /\ evaluation.run # 0 => runs[evaluation.run].version = evaluation.version

IInv == Tables /\ Evaluated /\ Sessions

\* A suite that was committed and not answered: its rows are the last and the newest.
Answering(q) == LET first == Len(runs) - Len(q.rows) + 1
                IN  /\ Len(q.rows) <= Len(runs)
                    /\ q.runs = first..Len(runs)
                    /\ \A i \in DOMAIN runs : runs[i].at = q.at <=> i >= first
                    /\ \A i \in q.runs : ~ runs[i].deleted

\* What holds besides as long as one request came after another.
Alone(q) == /\ q.pc # "idle" => q.at = clock
            /\ q.pc \in {"generate", "replace"} => q.tests = LiveTests
            /\ q.pc = "reply" => Answering(q)

RowsInOrder == \A i, j \in DOMAIN runs : i <= j => runs[i].at <= runs[j].at

NamesOnce == \A s, t \in LiveTests :
    (tests[s].by = "SYSTEM" /\ tests[t].by = "SYSTEM" /\ tests[s].name = tests[t].name) => s = t

InTurn == /\ \A r, s \in Request : Active(r) /\ Active(s) => r = s
          /\ \A r \in Request : Alone(request[r])
          /\ RowsInOrder
          /\ NamesOnce
          /\ reply.own # {} => reply.shown = reply.own

Serial == ~ overlapped => InTurn
-----------------------------------------------------------------------------
(***************************************************************************)
(* Operators.                                                               *)
(***************************************************************************)

\* Rows for the names of a batch, one for each.
BatchRows(rows, batch, by, at) ==
    /\ rows \in Seq(TestRow)
    /\ \A i \in DOMAIN rows : /\ rows[i].name \in batch
                              /\ rows[i].by = by /\ rows[i].at = at /\ ~ rows[i].deleted
    /\ \A i, j \in DOMAIN rows : rows[i].name = rows[j].name => i = j

\* That is what is stored (testing.py 95-121).
LEMMA StoredBatch ==
    ASSUME NEW batch \in SUBSET Name, NEW by \in Author,
           NEW enabled \in BOOLEAN, NEW at \in Nat,
           NEW stored, stored = Stored(batch, by, enabled, at)
    PROVE  BatchRows(stored, batch, by, at)
<1> DEFINE n == Cardinality(batch)
           Order(s) == \A i, j \in DOMAIN s : s[i] = s[j] => i = j
           order == CHOOSE s \in [1..n -> batch] : Order(s)
<1>1. IsFiniteSet(batch)
  BY EvidenceAssumption, FS_Subset
<1>2. n \in Nat /\ ExistsBijection(1..n, batch)
  BY <1>1, FS_CardinalityType
<1>3. PICK f \in Bijection(1..n, batch) : TRUE
  BY <1>2 DEF ExistsBijection
<1>4. f \in [1..n -> batch] /\ Order(f)
  BY <1>3 DEF Bijection, Injection, Surjection, IsInjective
<1>5. order \in [1..n -> batch] /\ Order(order)
  <2> HIDE DEF n, Order
  <2> QED
    BY <1>4
<1>6. stored = [i \in DOMAIN order |-> [name |-> order[i], by |-> by, enabled |-> enabled,
                                          at |-> at, deleted |-> FALSE]]
  BY DEF Stored
<1>7. DOMAIN order = 1..n /\ \A i \in 1..n : order[i] \in Name
  <2> HIDE DEF order, n
  <2> QED
    BY <1>5
<1> HIDE DEF order, n
<1>8. stored \in [1..n -> TestRow]
  BY <1>6, <1>7 DEF TestRow
<1>9. stored \in Seq(TestRow) /\ DOMAIN stored = 1..n
  BY <1>2, <1>8
<1>10. \A i \in 1..n : /\ stored[i].name = order[i] /\ order[i] \in batch
                        /\ stored[i].by = by /\ stored[i].at = at /\ ~ stored[i].deleted
  BY <1>5, <1>6, <1>7
<1> QED
  BY <1>5, <1>7, <1>9, <1>10 DEF BatchRows

\* Two sets of rows cover the same parts when each executed row of the one has an
\* executed row of the same name in the other.
LEMMA SameParts ==
    ASSUME NEW ts, NEW rows, NEW S, NEW us, NEW sows, NEW T,
           \A k \in S : rows[k].executed =>
               \E j \in T : sows[j].executed /\ us[sows[j].test].name = ts[rows[k].test].name,
           \A j \in T : sows[j].executed =>
               \E k \in S : rows[k].executed /\ us[sows[j].test].name = ts[rows[k].test].name
    PROVE  Parts(ts, rows, S) = Parts(us, sows, T)
BY DEF Parts

LEMMA SamePartsByRow ==
    ASSUME NEW ts, NEW us, NEW rows, NEW sows, NEW S,
           \A k \in S : /\ rows[k].executed = sows[k].executed
                       /\ ts[rows[k].test].name = us[sows[k].test].name
    PROVE  Parts(ts, rows, S) = Parts(us, sows, S)
BY DEF Parts

\* A set of at most one element has no two.
LEMMA NoTwo ==
    ASSUME NEW S, IsFiniteSet(S), ~ Cardinality(S) > 1, NEW x \in S, NEW y \in S
    PROVE  x = y
<1>1. Cardinality(S) \in Nat /\ (Cardinality(S) = 0 \/ Cardinality(S) = 1)
  BY FS_CardinalityType
<1>2. CASE Cardinality(S) = 0
  <2>1. S = {}
    BY <1>2, FS_EmptySet
  <2> QED
    BY <2>1
<1>3. CASE Cardinality(S) = 1
  <2>1. \E z : S = {z}
    BY <1>3, FS_Singleton
  <2> QED
    BY <2>1
<1> QED
  BY <1>1, <1>2, <1>3
-----------------------------------------------------------------------------
(***************************************************************************)
(* Steps.  Tests are added and marked as deleted but keep their names; runs   *)
(* are added and marked as deleted but keep the rest.                        *)
(***************************************************************************)

TestsKept == /\ clock \in Nat /\ clock' \in Nat /\ clock <= clock'
             /\ \A t \in DOMAIN tests : t \in DOMAIN tests' /\ tests'[t].name = tests[t].name

\* A session stays sound through whatever others commit under other stamps.
LEMMA SoundStays ==
    ASSUME TestsKept, NEW q, Sound(q),
           q.pc \notin {"idle", "reply"} => \A i \in DOMAIN runs' : runs'[i].at # q.at
    PROVE  Sound(q)'
<1>1. q.pc # "idle" => q.at \in 1..clock'
  BY DEF Sound, TestsKept
<1>2. q.tests \subseteq DOMAIN tests'
  BY DEF Sound, TestsKept
<1>3. ASSUME NEW k \in DOMAIN q.rows PROVE HeldRow(q, k)'
  <2>1. HeldRow(q, k)
    BY DEF Sound
  <2>2. k \in Nat /\ 1..k \subseteq DOMAIN q.rows
    BY DEF Sound, SessionState
  <2>3. \A j \in 1..k : q.rows[j].test \in DOMAIN tests
    BY <2>2 DEF Sound, HeldRow
  <2>4. Parts(tests, q.rows, 1..k) = Parts(tests', q.rows, 1..k)
    <3>1. \A j \in 1..k : tests[q.rows[j].test].name = tests'[q.rows[j].test].name
      BY <2>3 DEF TestsKept
    <3> QED
      BY <3>1 DEF Parts
  <2>5. Links(tests, q.tests) = Links(tests', q.tests)
    BY DEF Links, Sound, TestsKept
  <2> QED
    BY <2>1, <2>4, <2>5 DEF HeldRow, TestsKept
<1> QED
  BY <1>1, <1>2, <1>3 DEF Sound

\* A step of one request: it is sound afterwards, the others stay so, and its stamp is
\* no other's.
LEMMA RequestStep ==
    ASSUME Sessions, NEW r \in Request, NEW q, Sound(q)',
           request' = [request EXCEPT ![r] = q],
           \A s \in Request \ {r} : \A p : p = request[s] => Sound(p)',
           q.pc # "idle" => \A s \in Request \ {r} : Active(s) => request[s].at # q.at
    PROVE  Sessions'
<1>1. q \in SessionState
  BY DEF Sound
<1>2. request' \in [Request -> SessionState]
  BY <1>1 DEF Sessions
<1>3. request'[r] = q /\ \A s \in Request \ {r} : request'[s] = request[s]
  BY DEF Sessions
<1>4. ASSUME NEW s \in Request PROVE Sound(request[s])'
  <2>1. PICK p : p = request'[s]
    OBVIOUS
  <2>2. Sound(p)'
    BY <1>3, <2>1
  <2> QED
    BY <2>1, <2>2 DEF Sound, HeldRow
<1>5. \A s, t \in Request : (Active(s)' /\ Active(t)' /\ request'[s].at = request'[t].at) => s = t
  BY <1>3 DEF Sessions, Active
<1> QED
  BY <1>2, <1>4, <1>5 DEF Sessions

\* The other sessions stay sound through a step that stores no run.
LEMMA OthersStay ==
    ASSUME Sessions, TestsKept, NEW r \in Request,
           \A i \in DOMAIN runs' : i \in DOMAIN runs /\ runs'[i].at = runs[i].at
    PROVE  \A s \in Request : \A p : p = request[s] => Sound(p)'
<1> SUFFICES ASSUME NEW s \in Request, NEW p, p = request[s] PROVE Sound(p)'
  OBVIOUS
<1>1. Sound(p)
  BY DEF Sessions
<1>2. p.pc \notin {"idle", "reply"} => \A i \in DOMAIN runs' : runs'[i].at # p.at
  BY <1>1 DEF Sound
<1> QED
  BY <1>1, <1>2, SoundStays

LEMMA IdleIsSound == Sound(Idle)
  BY DEF Idle, Sound, SessionState, Operation

LEMMA RowTypes ==
    ASSUME Tables
    PROVE  /\ Len(tests) \in Nat /\ DOMAIN tests = 1..Len(tests)
           /\ Len(runs) \in Nat /\ DOMAIN runs = 1..Len(runs)
           /\ \A t \in DOMAIN tests : /\ tests[t] \in TestRow /\ tests[t].name \in Name
                                      /\ tests[t].at \in Nat
           /\ \A i \in DOMAIN runs : /\ runs[i] \in RunRows /\ runs[i].at \in Nat
                                     /\ runs[i].test \in DOMAIN tests /\ runs[i].at <= clock
<1>1. \A t \in DOMAIN tests : tests[t] \in TestRow
  BY DEF Tables
<1>2. \A i \in DOMAIN runs : runs[i] \in RunRows /\ StoredRow(i)
  BY DEF Tables
<1>3. \A t \in TestRow : t.name \in Name /\ t.at \in Nat
  BY DEF TestRow
<1>4. \A i \in RunRows : i.at \in Nat
  BY DEF RunRows
<1> QED
  BY <1>1, <1>2, <1>3, <1>4 DEF Tables, StoredRow

\* The tables stay sound when only tests are added and rows marked as deleted.
LEMMA TablesStay ==
    ASSUME Tables, Evaluated, TestsKept, version' \in Nat, tests' \in Seq(TestRow),
           runs' \in Seq(RunRows), Len(runs') = Len(runs),
           \A i \in DOMAIN runs :
               /\ runs'[i].test = runs[i].test /\ runs'[i].version = runs[i].version
               /\ runs'[i].ran = runs[i].ran /\ runs'[i].executed = runs[i].executed
               /\ runs'[i].coverage = runs[i].coverage /\ runs'[i].at = runs[i].at,
           UNCHANGED evaluation
    PROVE  Tables' /\ Evaluated'
<1>1. DOMAIN runs' = DOMAIN runs /\ DOMAIN runs = 1..Len(runs) /\ Len(runs) \in Nat
  BY DEF Tables
<1>2. \A i \in DOMAIN runs' : StoredRow(i)'
  <2> SUFFICES ASSUME NEW i \in DOMAIN runs PROVE StoredRow(i)'
    BY <1>1
  <2>1. StoredRow(i) /\ runs[i] \in RunRows
    BY DEF Tables
  <2> QED
    <3>1. runs[i].at \in Nat
      BY <2>1 DEF RunRows
    <3>2. runs'[i].at <= clock'
      BY <2>1, <3>1 DEF StoredRow, TestsKept
    <3> QED
      BY <2>1, <3>2 DEF StoredRow, TestsKept
<1>3. ExecutedPartsAddUp'
  <2> SUFFICES ASSUME NEW i \in DOMAIN runs', runs'[i].coverage # Unmeasured
               PROVE  runs'[i].coverage[1].executed =
                          {tests'[runs'[j].test].name :
                              j \in {k \in 1..i : runs'[k].at = runs'[i].at /\ runs'[k].executed}}
    BY DEF ExecutedPartsAddUp, Unmeasured
  <2> DEFINE S == {k \in 1..i : runs[k].at = runs[i].at}
             T == {k \in 1..i : runs'[k].at = runs'[i].at}
  <2>1. S = T /\ S \subseteq DOMAIN runs
    BY <1>1
  <2>2. runs[i].coverage[1].executed = Parts(tests, runs, S)
    <3>1. {k \in 1..i : runs[k].at = runs[i].at /\ runs[k].executed} = {k \in S : runs[k].executed}
      OBVIOUS
    <3> QED
      BY <1>1, <3>1 DEF Tables, CoverageAddsUp, ExecutedPartsAddUp, Parts
  <2>3. Parts(tests, runs, S) = Parts(tests', runs', T)
    <3>1. \A k \in S : /\ runs'[k].executed = runs[k].executed
                       /\ tests'[runs'[k].test].name = tests[runs[k].test].name
      BY <2>1 DEF Tables, StoredRow, TestsKept
    <3> HIDE DEF S, T
    <3> QED
      BY <2>1, <3>1, SamePartsByRow
  <2>4. {k \in 1..i : runs'[k].at = runs'[i].at /\ runs'[k].executed} = {k \in T : runs'[k].executed}
    OBVIOUS
  <2>5. Parts(tests', runs', T) =
            {tests'[runs'[j].test].name :
                j \in {k \in 1..i : runs'[k].at = runs'[i].at /\ runs'[k].executed}}
    BY <2>4 DEF Parts
  <2> QED
    BY <1>1, <2>2, <2>3, <2>5
<1>4. LinkedPartsAddUp'
  <2> SUFFICES ASSUME NEW i \in DOMAIN runs', runs'[i].coverage # Unmeasured
               PROVE  runs'[i].coverage[1].linked = Links(tests', SuiteOf(i)')
    BY DEF LinkedPartsAddUp, Links, Unmeasured
  <2>1. SuiteOf(i)' = SuiteOf(i)
    BY <1>1 DEF SuiteOf
  <2>2. SuiteOf(i) \subseteq DOMAIN tests
    BY DEF SuiteOf, Tables, StoredRow
  <2>3. Links(tests', SuiteOf(i)) = Links(tests, SuiteOf(i))
    BY <2>2 DEF Links, TestsKept
  <2>4. runs[i].coverage[1].linked = Links(tests, SuiteOf(i))
    BY <1>1 DEF Tables, CoverageAddsUp, LinkedPartsAddUp, Links
  <2> QED
    BY <1>1, <2>1, <2>3, <2>4
<1>5. Evaluated'
  BY <1>1 DEF Evaluated
<1> QED
  BY <1>2, <1>3, <1>4, <1>5 DEF Tables, CoverageAddsUp, TestsKept

-----------------------------------------------------------------------------
\* A request that writes nothing and keeps its stamp, or ends.
LEMMA QuietStep ==
    ASSUME IInv, UNCHANGED << clock, version, tests, runs, evaluation >>,
           NEW r \in Request, NEW q, Sound(q), request' = [request EXCEPT ![r] = q],
           q.pc # "idle" => Active(r) /\ q.at = request[r].at
    PROVE  IInv'
<1>1. TestsKept
  BY DEF IInv, Tables, TestsKept
<1>2. Tables' /\ Evaluated'
  BY DEF IInv, Tables, StoredRow, CoverageAddsUp, ExecutedPartsAddUp, LinkedPartsAddUp,
         SuiteOf, Evaluated
<1>3. Sound(q)'
  BY DEF Sound, HeldRow
<1>4. \A s \in Request : \A p : p = request[s] => Sound(p)'
  BY <1>1, OthersStay DEF IInv
<1>5. q.pc # "idle" => \A s \in Request \ {r} : Active(s) => request[s].at # q.at
  BY DEF IInv, Sessions
<1>6. Sessions'
  BY <1>3, <1>4, <1>5, RequestStep DEF IInv
<1> QED
  BY <1>2, <1>6 DEF IInv

\* A request ends, whatever it wrote to the tables.
LEMMA EndStep ==
    ASSUME IInv, TestsKept, NEW r \in Request, Done(r),
           \A i \in DOMAIN runs' : i \in DOMAIN runs /\ runs'[i].at = runs[i].at
    PROVE  Sessions'
<1>1. \A s \in Request : \A p : p = request[s] => Sound(p)'
  BY OthersStay DEF IInv
<1>2. Sound(Idle)'
  BY DEF Idle, Sound, SessionState, Operation
<1>3. Idle.pc = "idle"
  BY DEF Idle
<1> QED
  BY <1>1, <1>2, <1>3, RequestStep DEF IInv, Done

\* A session begins: its stamp is later than all others.
LEMMA ReceiveStep ==
    ASSUME IInv, NEW r \in Request, NEW op \in Operation, Receive(r, op)
    PROVE  IInv'
<1>1. clock \in Nat /\ clock' = clock + 1 /\ version \in Nat
  BY DEF IInv, Tables, Receive
<1>2. UNCHANGED << version, tests, runs, evaluation >>
  BY DEF Receive
<1>3. TestsKept
  BY <1>1, <1>2 DEF TestsKept
<1>4. Tables' /\ Evaluated'
  BY <1>1, <1>2, <1>3, TablesStay DEF IInv, Tables
<1>5. PICK q : q = [Idle EXCEPT !.pc = "list", !.op = op, !.version = version, !.at = clock']
  OBVIOUS
<1>6. request' = [request EXCEPT ![r] = q]
  BY <1>5 DEF Receive
<1>7. q \in SessionState /\ q.at = clock' /\ q.tests = {} /\ q.rows = << >> /\ q.pc = "list"
  <2>1. q = [pc |-> "list", op |-> op, version |-> version, at |-> clock',
             tests |-> {}, runs |-> {}, rows |-> << >>]
    BY <1>5 DEF Idle
  <2>2. clock' \in Nat /\ << >> \in Seq(RunRows)
    BY <1>1
  <2> QED
    BY <1>1, <2>1, <2>2 DEF SessionState
<1>8. \A i \in DOMAIN runs : runs[i].at # q.at
  <2> SUFFICES ASSUME NEW i \in DOMAIN runs PROVE runs[i].at # q.at
    OBVIOUS
  <2>1. runs[i].at <= clock /\ runs[i] \in RunRows
    BY DEF IInv, Tables, StoredRow
  <2>2. runs[i].at \in Nat
    BY <2>1 DEF RunRows
  <2> QED
    BY <1>1, <1>7, <2>1, <2>2
<1>9. Sound(q)'
  BY <1>1, <1>2, <1>7, <1>8 DEF Sound
<1>10. \A s \in Request : Active(s) => request[s].at # q.at
  BY <1>1, <1>7 DEF IInv, Sessions, Sound, Active
<1>11. \A s \in Request : \A p : p = request[s] => Sound(p)'
  BY <1>2, <1>3, OthersStay DEF IInv
<1>12. Sessions'
  BY <1>6, <1>9, <1>10, <1>11, RequestStep DEF IInv
<1> QED
  BY <1>4, <1>12 DEF IInv

\* What a session lists are rows of the tables.
LEMMA ListStep ==
    ASSUME IInv, NEW r \in Request, ListTests(r)
    PROVE  IInv'
<1>1. request[r] \in SessionState /\ Sound(request[r]) /\ request[r].pc = "list"
  BY DEF IInv, Sessions, ListTests
<1>2. PICK wanted \in SUBSET LiveTests :
          request' = [request EXCEPT ![r].pc = request[r].op, ![r].tests = wanted,
                                     ![r].runs = {i \in LiveRuns : runs[i].test \in wanted}]
  BY DEF ListTests
<1>3. PICK q : q = [request[r] EXCEPT !.pc = request[r].op, !.tests = wanted,
                                      !.runs = {i \in LiveRuns : runs[i].test \in wanted}]
  OBVIOUS
<1>4. request' = [request EXCEPT ![r] = q]
  BY <1>2, <1>3 DEF IInv, Sessions
<1>5. wanted \subseteq DOMAIN tests /\ DOMAIN tests \subseteq Nat /\ LiveRuns \subseteq Nat
  BY DEF LiveTests, LiveRuns, IInv, Tables
<1>6. /\ q.pc = request[r].op /\ q.tests = wanted /\ q.rows = request[r].rows
      /\ q.at = request[r].at
  BY <1>1, <1>3 DEF SessionState
<1>7. q \in SessionState
  BY <1>1, <1>3, <1>5 DEF SessionState
<1>8. q.pc # "idle" /\ q.pc # "reply"
  BY <1>1, <1>6 DEF SessionState, Operation
<1>9. Sound(q)
  BY <1>1, <1>5, <1>6, <1>7, <1>8 DEF Sound, HeldRow
<1> QED
  BY <1>1, <1>4, <1>6, <1>9, QuietStep DEF ListTests, Active

\* A row is of its session's stamp and version, and its coverage, calculated over it and
\* the rows before it, adds up (testing.py 155-176, runner.py 80-119).
LEMMA RunStep ==
    ASSUME IInv, NEW r \in Request, NEW t \in NextTests(r), NEW outcome \in Outcome,
           RunTest(r, t, outcome)
    PROVE  IInv'
<1> DEFINE old == request[r].rows
           n == Len(old)
           row == RunRow(r, t, outcome)
           measured == CoverageOf(outcome, Append(old, row), request[r].tests)
           new == [Append(old, row) EXCEPT ![Len(Append(old, row))].coverage = measured]
<1>1. /\ request[r] \in SessionState /\ Sound(request[r]) /\ request[r].pc = "run"
      /\ UNCHANGED << clock, version, tests, runs, evaluation >>
  BY DEF IInv, Sessions, RunTest
<1>2. CASE Done(r)
  BY <1>1, <1>2, IdleIsSound, QuietStep DEF Done, Idle
<1>3. CASE request' = [request EXCEPT ![r].rows = new]
  <2>1. /\ old \in Seq(RunRows) /\ n \in Nat /\ DOMAIN old = 1..n
        /\ request[r].version \in Nat /\ request[r].at \in Nat
    BY <1>1 DEF SessionState
  <2>2. t \in DOMAIN tests /\ t \in Nat
    BY <1>1 DEF NextTests, Todo, Sound, IInv, Tables
  <2>a. t \in request[r].tests
    BY DEF NextTests, Todo
  <2>3. /\ row \in RunRows /\ row.test = t /\ row.at = request[r].at
        /\ row.ran = row.version /\ ~ row.deleted
    <3>1. << >> \in Seq(Coverage)
      OBVIOUS
    <3> QED
      BY <2>1, <2>2, <3>1 DEF RunRow, Row, RunRows, Outcome, Unmeasured
  <2>4. PICK last : last = [row EXCEPT !.coverage = measured]
    OBVIOUS
  <2>5. /\ Append(old, row) \in Seq(RunRows) /\ Len(Append(old, row)) = n + 1
        /\ DOMAIN Append(old, row) = 1..(n + 1)
        /\ Append(old, row)[n + 1] = row
        /\ \A k \in 1..n : Append(old, row)[k] = old[k]
    BY <2>1, <2>3
  <2>6. \/ measured = Unmeasured
        \/ measured = << [executed |-> Parts(tests, Append(old, row), 1..(n + 1)),
                          linked |-> Links(tests, request[r].tests)] >>
    <3>1. Executed(Append(old, row)) = Parts(tests, Append(old, row), 1..(n + 1))
      BY <2>5 DEF Executed, Parts
    <3> QED
      BY <3>1 DEF CoverageOf, Links
  <2>7. Parts(tests, Append(old, row), 1..(n + 1)) \in SUBSET Name
    <3>1. \A k \in 1..(n + 1) : Append(old, row)[k].test \in DOMAIN tests
      <4>1. \A k \in 1..n : old[k].test \in DOMAIN tests
        BY <1>1, <2>1 DEF Sound, HeldRow
      <4>2. \A k \in 1..(n + 1) : k \in 1..n \/ k = n + 1
        BY <2>1
      <4> HIDE DEF row
      <4> QED
        BY <2>2, <2>3, <2>5, <4>1, <4>2
    <3>2. \A u \in DOMAIN tests : tests[u].name \in Name
      BY RowTypes DEF IInv
    <3> QED
      BY <3>1, <3>2 DEF Parts
  <2>8. measured \in Seq(Coverage)
    <3>1. \A S : \A P \in S : << >> \in Seq(S) /\ << P >> \in Seq(S)
      OBVIOUS
    <3>2. Links(tests, request[r].tests) \in SUBSET Linked
      BY DEF Links
    <3>3. [executed |-> Parts(tests, Append(old, row), 1..(n + 1)),
           linked |-> Links(tests, request[r].tests)] \in Coverage
      BY <2>7, <3>2 DEF Coverage
    <3> HIDE DEF measured, row
    <3> QED
      BY <2>6, <3>1, <3>3 DEF Unmeasured
  <2>9. /\ last \in RunRows /\ last.test = t /\ last.at = request[r].at
        /\ last.ran = last.version /\ ~ last.deleted /\ last.coverage = measured
        /\ last.executed = row.executed
    BY <2>3, <2>4, <2>8 DEF RunRows
  <2>10. /\ new \in Seq(RunRows) /\ DOMAIN new = 1..(n + 1) /\ new[n + 1] = last
         /\ \A k \in 1..n : new[k] = old[k]
    <3>1. PICK rows : rows = Append(old, row)
      OBVIOUS
    <3>2. new = [rows EXCEPT ![n + 1] = last]
      <4>1. new = [rows EXCEPT ![n + 1].coverage = measured]
        BY <2>5, <3>1
      <4> HIDE DEF new, measured, row
      <4> QED
        BY <2>4, <2>5, <3>1, <4>1
    <3> HIDE DEF new, measured, row
    <3>3. rows \in Seq(RunRows) /\ Len(rows) = n + 1 /\ n + 1 \in 1..Len(rows)
      BY <2>1, <2>5, <3>1
    <3>4. /\ new \in Seq(RunRows) /\ Len(new) = n + 1
          /\ \A k \in 1..(n + 1) : new[k] = IF k = n + 1 THEN last ELSE rows[k]
      BY <2>9, <3>2, <3>3, ExceptSeq
    <3>5. DOMAIN new = 1..(n + 1)
      BY <3>4
    <3> QED
      BY <2>1, <2>5, <3>1, <3>4, <3>5
  <2> HIDE DEF new, measured, row
  <2>11. PICK q : q = [request[r] EXCEPT !.rows = new]
    OBVIOUS
  <2>12. request' = [request EXCEPT ![r] = q]
    BY <1>3, <2>11 DEF IInv, Sessions
  <2>13. /\ q \in SessionState /\ q.rows = new /\ q.pc = "run" /\ q.at = request[r].at
         /\ q.tests = request[r].tests
    BY <1>1, <2>10, <2>11 DEF SessionState
  <2>14. ASSUME NEW k \in DOMAIN new PROVE HeldRow(q, k)
    <3>1. CASE k \in 1..n
      <4>1. HeldRow(request[r], k) /\ new[k] = old[k]
        BY <1>1, <2>1, <2>10, <3>1 DEF Sound
      <4>2. Parts(tests, old, 1..k) = Parts(tests, new, 1..k)
        <5>1. \A j \in 1..k : old[j] = new[j]
          BY <2>1, <2>10, <3>1
        <5> QED
          BY <5>1 DEF Parts
      <4> QED
        BY <2>13, <4>1, <4>2 DEF HeldRow
    <3>2. CASE k = n + 1
      <4>1. Parts(tests, Append(old, row), 1..(n + 1)) = Parts(tests, new, 1..(n + 1))
        <5>1. \A j \in 1..(n + 1) : /\ Append(old, row)[j].executed = new[j].executed
                                    /\ Append(old, row)[j].test = new[j].test
          BY <2>1, <2>3, <2>5, <2>9, <2>10
        <5> QED
          BY <5>1 DEF Parts
      <4> QED
        BY <2>2, <2>a, <2>6, <2>9, <2>10, <2>13, <3>2, <4>1 DEF HeldRow, Unmeasured
    <3> QED
      BY <2>1, <2>10, <3>1, <3>2
  <2>15. Sound(q)
    BY <1>1, <2>13, <2>14 DEF Sound
  <2> QED
    BY <1>1, <2>12, <2>13, <2>15, QuietStep DEF Active
<1> QED
  BY <1>2, <1>3 DEF RunTest

\* The suite's rows are stored behind those of earlier suites, none of which has its
\* stamp, so the rows of one stamp are those of one suite (testing.py 164-182).
LEMMA CommitStep ==
    ASSUME IInv, NEW r \in Request, CommitSuite(r)
    PROVE  IInv'
<1> DEFINE rows == request[r].rows
           n == Len(rows)
           m == Len(runs)
<1>1. /\ request[r] \in SessionState /\ Sound(request[r]) /\ request[r].pc = "run"
      /\ UNCHANGED << clock, version, tests, evaluation >> /\ runs' = runs \o rows
  BY DEF IInv, Sessions, CommitSuite
<1>2. /\ runs \in Seq(RunRows) /\ rows \in Seq(RunRows) /\ m \in Nat /\ n \in Nat
      /\ DOMAIN runs = 1..m /\ DOMAIN rows = 1..n
  BY <1>1 DEF IInv, Tables, SessionState
<1>3. /\ runs' \in Seq(RunRows) /\ Len(runs') = m + n /\ DOMAIN runs' = 1..(m + n)
      /\ \A i \in 1..m : runs'[i] = runs[i]
      /\ \A k \in 1..n : runs'[m + k] = rows[k]
  BY <1>1, <1>2
<1>4. \A i \in DOMAIN runs' : i \in 1..m \/ \E k \in 1..n : i = m + k
  <2> SUFFICES ASSUME NEW i \in 1..(m + n), i \notin 1..m PROVE \E k \in 1..n : i = m + k
    BY <1>3
  <2>1. i - m \in 1..n /\ i = m + (i - m)
    BY <1>2
  <2> QED
    BY <2>1
<1>5. TestsKept
  BY <1>1 DEF IInv, Tables, TestsKept
<1>6. \A k \in 1..n : HeldRow(request[r], k)
  BY <1>1, <1>2 DEF Sound
<1>7. \A i \in 1..m : runs[i].at # request[r].at
  BY <1>1, <1>2 DEF Sound
<1>8. \A k \in 1..n : rows[k].at = request[r].at
  BY <1>6 DEF HeldRow
<1>9. request[r].at \in 1..clock /\ clock \in Nat
  BY <1>1 DEF Sound, IInv, Tables
<1> HIDE DEF rows, n, m
<1>10. \A i \in DOMAIN runs' : StoredRow(i)'
  <2>1. ASSUME NEW i \in 1..m PROVE StoredRow(i)'
    <3>1. StoredRow(i)
      BY <1>2 DEF IInv, Tables
    <3> QED
      BY <1>1, <1>3, <3>1 DEF StoredRow
  <2>2. ASSUME NEW i, NEW k \in 1..n, i = m + k PROVE StoredRow(i)'
    <3>1. /\ rows[k].test \in DOMAIN tests /\ rows[k].at \in 1..clock
          /\ rows[k].ran = rows[k].version
      BY <1>6, <1>8, <1>9 DEF HeldRow, rows
    <3>2. rows[k].at <= clock
      BY <1>9, <3>1
    <3>3. runs'[i] = rows[k]
      BY <1>3, <2>2
    <3>4. UNCHANGED << clock, tests >>
      BY <1>1
    <3> QED
      BY <3>1, <3>2, <3>3, <3>4 DEF StoredRow
  <2> QED
    BY <1>4, <2>1, <2>2
<1>11. ExecutedPartsAddUp'
  <2> SUFFICES ASSUME NEW i \in DOMAIN runs', runs'[i].coverage # Unmeasured
               PROVE  runs'[i].coverage[1].executed =
                          {tests'[runs'[j].test].name :
                              j \in {k \in 1..i : runs'[k].at = runs'[i].at /\ runs'[k].executed}}
    BY DEF ExecutedPartsAddUp, Unmeasured
  <2> SUFFICES runs'[i].coverage[1].executed =
                   Parts(tests', runs', {j \in 1..i : runs'[j].at = runs'[i].at})
    <3>1. {j \in 1..i : runs'[j].at = runs'[i].at /\ runs'[j].executed} =
              {k \in {j \in 1..i : runs'[j].at = runs'[i].at} : runs'[k].executed}
      OBVIOUS
    <3> QED
      BY <3>1 DEF Parts
  <2> DEFINE T == {j \in 1..i : runs'[j].at = runs'[i].at}
  <2>1. CASE i \in 1..m
    <3>1. T = {j \in 1..i : runs[j].at = runs[i].at} /\ T \subseteq 1..m
      BY <1>2, <1>3, <2>1
    <3>2. runs[i].coverage[1].executed = Parts(tests, runs, T)
      <4>1. {j \in 1..i : runs[j].at = runs[i].at /\ runs[j].executed} = {k \in T : runs[k].executed}
        BY <3>1
      <4>2. i \in DOMAIN runs /\ runs[i].coverage # Unmeasured
        BY <1>2, <1>3, <2>1
      <4> QED
        BY <4>1, <4>2 DEF IInv, Tables, CoverageAddsUp, ExecutedPartsAddUp, Parts
    <3>3. Parts(tests, runs, T) = Parts(tests, runs', T)
      <4>1. \A j \in T : runs'[j] = runs[j]
        BY <1>3, <3>1
      <4> QED
        BY <4>1 DEF Parts
    <3> QED
      BY <1>1, <1>3, <2>1, <3>2, <3>3
  <2>2. ASSUME NEW k \in 1..n, i = m + k
        PROVE  runs'[i].coverage[1].executed = Parts(tests', runs', T)
    <3>1. runs'[i] = rows[k] /\ runs'[i].at = request[r].at
      BY <1>3, <1>8, <2>2
    <3>2. \A j \in T : \E l \in 1..k : j = m + l
      <4> SUFFICES ASSUME NEW j \in T PROVE \E l \in 1..k : j = m + l
        OBVIOUS
      <4>1. j \in 1..i /\ runs'[j].at = request[r].at
        BY <3>1
      <4>2. j \notin 1..m
        BY <1>3, <1>7, <4>1
      <4>3. j - m \in 1..k /\ j = m + (j - m)
        BY <1>2, <2>2, <4>1, <4>2
      <4> QED
        BY <4>3
    <3>3. \A l \in 1..k : m + l \in T /\ runs'[m + l] = rows[l]
      <4> SUFFICES ASSUME NEW l \in 1..k PROVE m + l \in T /\ runs'[m + l] = rows[l]
        OBVIOUS
      <4>1. l \in 1..n /\ m + l \in 1..i
        BY <1>2, <2>2
      <4> QED
        BY <1>3, <1>8, <3>1, <4>1
    <3>4. rows[k].coverage[1].executed = Parts(tests, rows, 1..k)
      BY <1>6, <2>2, <3>1 DEF HeldRow, rows, Unmeasured
    <3>5. Parts(tests, rows, 1..k) = Parts(tests, runs', T)
      <4>1. \A l \in 1..k : rows[l].executed => \E j \in T :
                runs'[j].executed /\ tests[runs'[j].test].name = tests[rows[l].test].name
        BY <3>3
      <4>2. \A j \in T : runs'[j].executed => \E l \in 1..k :
                rows[l].executed /\ tests[runs'[j].test].name = tests[rows[l].test].name
        BY <3>2, <3>3
      <4> HIDE DEF T
      <4> QED
        BY <4>1, <4>2, SameParts
    <3> QED
      BY <1>1, <3>1, <3>4, <3>5
  <2> QED
    BY <1>4, <2>1, <2>2
<1>11a. LinkedPartsAddUp'
  <2> SUFFICES ASSUME NEW i \in DOMAIN runs', runs'[i].coverage # Unmeasured
               PROVE  runs'[i].coverage[1].linked = Links(tests', SuiteOf(i)')
    BY DEF LinkedPartsAddUp, Links, Unmeasured
  <2>1. CASE i \in 1..m
    <3>1. SuiteOf(i)' = SuiteOf(i)
      <4>1. runs'[i].at # request[r].at
        BY <1>3, <1>7, <2>1
      <4>2. \A j \in DOMAIN runs' : runs'[j].at = runs'[i].at => j \in 1..m
        BY <1>3, <1>4, <1>8, <4>1
      <4>3. \A j \in 1..m : j \in DOMAIN runs /\ j \in DOMAIN runs' /\ runs'[j] = runs[j]
        BY <1>2, <1>3
      <4> QED
        BY <1>2, <2>1, <4>2, <4>3 DEF SuiteOf
    <3>2. runs[i].coverage[1].linked = Links(tests, SuiteOf(i))
      BY <1>2, <1>3, <2>1 DEF IInv, Tables, CoverageAddsUp, LinkedPartsAddUp, Links
    <3> QED
      BY <1>1, <1>3, <2>1, <3>1, <3>2
  <2>2. ASSUME NEW k \in 1..n, i = m + k
        PROVE  runs'[i].coverage[1].linked = Links(tests', SuiteOf(i)')
    <3>1. runs'[i] = rows[k] /\ runs'[i].at = request[r].at
      BY <1>3, <1>8, <2>2
    <3>2. request[r].tests = {rows[l].test : l \in 1..n}
      BY <1>2, <1>6 DEF CommitSuite, Todo, HeldRow, rows
    <3>3. \A j \in DOMAIN runs' : runs'[j].at = request[r].at => \E l \in 1..n : j = m + l
      BY <1>3, <1>4, <1>7
    <3>4. \A l \in 1..n : /\ m + l \in DOMAIN runs'
                          /\ runs'[m + l] = rows[l] /\ runs'[m + l].at = request[r].at
      <4> SUFFICES ASSUME NEW l \in 1..n
                   PROVE  /\ m + l \in DOMAIN runs'
                          /\ runs'[m + l] = rows[l] /\ runs'[m + l].at = request[r].at
        OBVIOUS
      <4>1. m + l \in 1..(m + n)
        BY <1>2
      <4> QED
        BY <1>3, <1>8, <4>1
    <3>5. SuiteOf(i)' = request[r].tests
      <4>1. SuiteOf(i)' = {runs'[j].test : j \in {l \in DOMAIN runs' : runs'[l].at = request[r].at}}
        BY <3>1 DEF SuiteOf
      <4> QED
        BY <3>2, <3>3, <3>4, <4>1
    <3>6. rows[k].coverage[1].linked = Links(tests, request[r].tests)
      BY <1>6, <2>2, <3>1 DEF HeldRow, rows, Unmeasured
    <3> QED
      BY <1>1, <3>1, <3>5, <3>6
  <2> QED
    BY <1>4, <2>1, <2>2
<1>12. Tables'
  BY <1>1, <1>3, <1>10, <1>11, <1>11a DEF IInv, Tables, CoverageAddsUp
<1>13. Evaluated'
  BY <1>1, <1>2, <1>3 DEF IInv, Evaluated, m
<1>14. PICK q : q = [request[r] EXCEPT !.pc = "reply", !.runs = OwnRuns(r)]
  OBVIOUS
<1>15. request' = [request EXCEPT ![r] = q]
  BY <1>14 DEF IInv, Sessions, CommitSuite
<1>16. /\ q \in SessionState /\ q.pc = "reply" /\ q.at = request[r].at /\ q.rows = rows
       /\ q.tests = request[r].tests
  <2>1. OwnRuns(r) \in SUBSET Nat
    BY <1>2 DEF OwnRuns, m, n, rows
  <2> QED
    BY <1>1, <1>14, <2>1 DEF SessionState, rows
<1>17. Sound(q)'
  <2>1. \A k \in DOMAIN q.rows : HeldRow(q, k)'
    BY <1>1, <1>2, <1>6, <1>16 DEF HeldRow, rows
  <2> QED
    BY <1>1, <1>16, <2>1 DEF Sound
<1>18. \A s \in Request \ {r} : \A p : p = request[s] => Sound(p)'
  <2> SUFFICES ASSUME NEW s \in Request \ {r}, NEW p, p = request[s] PROVE Sound(p)'
    OBVIOUS
  <2>1. Sound(p)
    BY DEF IInv, Sessions
  <2>2. p.pc # "idle" => p.at # request[r].at
    BY <1>1 DEF IInv, Sessions, Active
  <2>3. p.pc \notin {"idle", "reply"} => \A i \in DOMAIN runs' : runs'[i].at # p.at
    <3> SUFFICES ASSUME p.pc \notin {"idle", "reply"}, NEW i \in DOMAIN runs'
                 PROVE  runs'[i].at # p.at
      OBVIOUS
    <3>1. CASE i \in 1..m
      <4>1. runs[i].at # p.at
        BY <1>2, <2>1, <3>1 DEF Sound
      <4> QED
        BY <1>3, <3>1, <4>1
    <3>2. CASE \E k \in 1..n : i = m + k
      BY <1>3, <1>8, <2>2, <3>2
    <3> QED
      BY <1>4, <3>1, <3>2
  <2> QED
    BY <1>5, <2>1, <2>3, SoundStays
<1>19. q.pc # "idle" => \A s \in Request \ {r} : Active(s) => request[s].at # q.at
  BY <1>1, <1>16 DEF IInv, Sessions, Active
<1>20. Sessions'
  BY <1>15, <1>17, <1>18, <1>19, RequestStep DEF IInv
<1> QED
  BY <1>12, <1>13, <1>20 DEF IInv

\* The tests become old, which is as long as they were, and more behind it.
Added(old, more) ==
    /\ TestsKept /\ tests' \in Seq(TestRow)
    /\ \A t \in DOMAIN tests : tests'[t] = old[t]
    /\ \A k \in DOMAIN more : tests'[Len(tests) + k] = more[k] /\ Len(tests) + k \in DOMAIN tests'
    /\ \A t \in DOMAIN tests' :
           t \in DOMAIN tests \/ \E k \in DOMAIN more : t = Len(tests) + k

LEMMA AddTests ==
    ASSUME Tables, UNCHANGED clock, NEW old \in Seq(TestRow), NEW more \in Seq(TestRow),
           Len(old) = Len(tests), \A t \in DOMAIN tests : old[t].name = tests[t].name,
           tests' = old \o more
    PROVE  Added(old, more)
<1> DEFINE n == Len(tests)
           m == Len(more)
<1>1. /\ n \in Nat /\ m \in Nat /\ DOMAIN tests = 1..n /\ DOMAIN old = 1..n /\ DOMAIN more = 1..m
      /\ clock \in Nat
  BY DEF Tables
<1>2. /\ tests' \in Seq(TestRow) /\ Len(tests') = n + m /\ DOMAIN tests' = 1..(n + m)
      /\ \A t \in 1..n : tests'[t] = old[t]
      /\ \A k \in 1..m : tests'[n + k] = more[k]
  <2>1. /\ old \o more \in Seq(TestRow) /\ Len(old \o more) = n + m
        /\ \A i \in 1..(n + m) : (old \o more)[i] = IF i <= n THEN old[i] ELSE more[i - n]
    <3>1. /\ old \o more \in Seq(TestRow) /\ Len(old \o more) = Len(old) + Len(more)
          /\ \A i \in 1..(Len(old) + Len(more)) :
                 (old \o more)[i] = IF i <= Len(old) THEN old[i] ELSE more[i - Len(old)]
      BY ConcatProperties, Zenon
    <3> QED
      BY <3>1
  <2>2. DOMAIN tests' = 1..(n + m)
    BY <2>1
  <2>3. \A k \in 1..m : n + k \in 1..(n + m) /\ ~ (n + k <= n) /\ (n + k) - n = k
    BY <1>1
  <2>4. \A t \in 1..n : t \in 1..(n + m) /\ t <= n
    BY <1>1
  <2> HIDE DEF n, m
  <2> QED
    BY <2>1, <2>2, <2>3, <2>4
<1>3. \A t \in 1..(n + m) : t \in 1..n \/ \E k \in 1..m : t = n + k
  <2> SUFFICES ASSUME NEW t \in 1..(n + m), t \notin 1..n PROVE \E k \in 1..m : t = n + k
    OBVIOUS
  <2>1. t - n \in 1..m /\ t = n + (t - n)
    BY <1>1
  <2> QED
    BY <2>1
<1> HIDE DEF n, m
<1>4. TestsKept
  <2>1. 1..n \subseteq 1..(n + m)
    BY <1>1
  <2> QED
    BY <1>1, <1>2, <2>1 DEF TestsKept
<1>5. \A k \in 1..m : n + k \in 1..(n + m)
  BY <1>1
<1> QED
  BY <1>1, <1>2, <1>3, <1>4, <1>5 DEF n, m, Added

\* generate_tests and create_test add to the tests.
LEMMA StoreStep ==
    ASSUME IInv, NEW r \in Request, PersistGenerated(r) \/ CreateTest(r)
    PROVE  IInv'
<1>1. UNCHANGED << clock, version, runs, evaluation >> /\ Done(r) /\ request[r].at \in Nat
  <2>1. request[r] \in SessionState
    BY DEF IInv, Sessions
  <2> QED
    BY <2>1 DEF PersistGenerated, CreateTest, SessionState
<1>2. \E more \in Seq(TestRow) : tests' = tests \o more
  <2>1. CASE PersistGenerated(r)
    <3>1. PICK batch \in SUBSET Name :
              tests' = tests \o Stored(batch \ NamesStored(r), "SYSTEM", TRUE, request[r].at)
      BY <2>1 DEF PersistGenerated
    <3>2. PICK fresh, at : fresh = batch \ NamesStored(r) /\ at = request[r].at
      OBVIOUS
    <3>3. PICK more : more = Stored(fresh, "SYSTEM", TRUE, at)
      OBVIOUS
    <3>4. TRUE \in BOOLEAN /\ "SYSTEM" \in Author
      BY DEF Author
    <3>5. more \in Seq(TestRow)
      <4>1. fresh \in SUBSET Name /\ at \in Nat
        BY <1>1, <3>2
      <4>2. BatchRows(more, fresh, "SYSTEM", at)
        BY <3>3, <3>4, <4>1, StoredBatch
      <4> QED
        BY <3>3, <3>4, <4>1, <4>2 DEF BatchRows
    <3> QED
      BY <3>1, <3>2, <3>3, <3>5
  <2>2. CASE CreateTest(r)
    <3>1. PICK name \in Name, enabled \in BOOLEAN :
              tests' = tests \o Stored({name}, "HUMAN", enabled, request[r].at)
      BY <2>2 DEF CreateTest
    <3>2. PICK more : more = Stored({name}, "HUMAN", enabled, request[r].at)
      OBVIOUS
    <3>3. "HUMAN" \in Author /\ {name} \in SUBSET Name
      BY DEF Author
    <3>4. more \in Seq(TestRow)
      BY <1>1, <3>2, <3>3, StoredBatch DEF BatchRows
    <3> QED
      BY <3>1, <3>2, <3>4
  <2> QED
    BY <2>1, <2>2
<1>3. TestsKept /\ tests' \in Seq(TestRow)
  <2>1. tests \in Seq(TestRow) /\ Tables
    BY DEF IInv, Tables
  <2> QED
    BY <1>1, <1>2, <2>1, AddTests DEF Added
<1>4. Tables' /\ Evaluated'
  BY <1>1, <1>3, TablesStay DEF IInv, Tables
<1>5. Sessions'
  BY <1>1, <1>3, EndStep
<1> QED
  BY <1>4, <1>5 DEF IInv

\* What a replacement does to the tables, unless a foreign key undoes it.
LEMMA ReplaceEffect ==
    ASSUME IInv, NEW r \in Request, Replace(r), ~ UNCHANGED << tests, runs >>
    PROVE  /\ TestsKept /\ tests' \in Seq(TestRow)
           /\ \A t \in DOMAIN tests :
                  tests'[t].deleted = (tests[t].deleted \/ t \in request[r].tests)
           /\ \A t \in DOMAIN tests' \ DOMAIN tests : tests'[t].at = request[r].at
           /\ \A s, t \in DOMAIN tests' \ DOMAIN tests : tests'[s].name = tests'[t].name => s = t
           /\ runs' \in Seq(RunRows) /\ Len(runs') = Len(runs)
           /\ \A i \in DOMAIN runs :
                  /\ runs'[i].test = runs[i].test /\ runs'[i].version = runs[i].version
                  /\ runs'[i].ran = runs[i].ran /\ runs'[i].executed = runs[i].executed
                  /\ runs'[i].coverage = runs[i].coverage /\ runs'[i].at = runs[i].at
                  /\ runs'[i].status = runs[i].status
                  /\ runs'[i].deleted = (runs[i].deleted \/ i \in request[r].runs)
<1> DEFINE old == [t \in DOMAIN tests |->
                      [tests[t] EXCEPT !.deleted = @ \/ t \in request[r].tests]]
<1>1. PICK batch \in SUBSET Name :
          tests' = old \o Stored(batch, "SYSTEM", TRUE, request[r].at)
  BY DEF Replace
<1>2. runs' = [i \in DOMAIN runs |->
                  [runs[i] EXCEPT !.deleted = @ \/ i \in request[r].runs]]
  BY DEF Replace
<1>3. PICK more, at : more = Stored(batch, "SYSTEM", TRUE, at) /\ at = request[r].at
  OBVIOUS
<1>4. request[r].at \in Nat /\ UNCHANGED clock
  BY DEF IInv, Sessions, SessionState, Replace
<1>5. /\ more \in Seq(TestRow)
      /\ \A i \in DOMAIN more : more[i].at = request[r].at
      /\ \A i, j \in DOMAIN more : more[i].name = more[j].name => i = j
  <2>1. TRUE \in BOOLEAN /\ "SYSTEM" \in Author
    BY DEF Author
  <2>2. at \in Nat
    BY <1>3, <1>4
  <2>3. BatchRows(more, batch, "SYSTEM", at)
    BY <1>3, <2>1, <2>2, StoredBatch
  <2> QED
    BY <1>3, <2>3 DEF BatchRows
<1>6. Tables
  BY DEF IInv
<1>7. old \in Seq(TestRow) /\ Len(old) = Len(tests)
  <2>1. \A t \in DOMAIN tests : [tests[t] EXCEPT !.deleted = @ \/ t \in request[r].tests] \in TestRow
    BY <1>6, RowTypes DEF TestRow
  <2>2. old \in [1..Len(tests) -> TestRow]
    BY <1>6, <2>1, RowTypes
  <2> QED
    BY <1>6, <2>2, RowTypes
<1>8. \A t \in DOMAIN tests : /\ old[t].name = tests[t].name
                             /\ old[t].deleted = (tests[t].deleted \/ t \in request[r].tests)
  BY <1>6, RowTypes DEF TestRow
<1>9. /\ TestsKept /\ tests' \in Seq(TestRow)
      /\ \A t \in DOMAIN tests : tests'[t] = old[t]
      /\ \A k \in DOMAIN more : tests'[Len(tests) + k] = more[k]
      /\ \A t \in DOMAIN tests' :
             t \in DOMAIN tests \/ \E k \in DOMAIN more : t = Len(tests) + k
  <2> HIDE DEF old
  <2>1. tests' = old \o more /\ UNCHANGED clock
    BY <1>1, <1>3, <1>4
  <2>2. Added(old, more)
    BY <1>5, <1>6, <1>7, <1>8, <2>1, AddTests
  <2> QED
    BY <2>2 DEF Added
<1>10. /\ \A t \in DOMAIN tests' \ DOMAIN tests : tests'[t].at = request[r].at
       /\ \A s, t \in DOMAIN tests' \ DOMAIN tests : tests'[s].name = tests'[t].name => s = t
  BY <1>5, <1>9
<1>11. /\ runs' \in Seq(RunRows) /\ Len(runs') = Len(runs)
       /\ \A i \in DOMAIN runs :
              /\ runs'[i].test = runs[i].test /\ runs'[i].version = runs[i].version
              /\ runs'[i].ran = runs[i].ran /\ runs'[i].executed = runs[i].executed
              /\ runs'[i].coverage = runs[i].coverage /\ runs'[i].at = runs[i].at
              /\ runs'[i].status = runs[i].status
              /\ runs'[i].deleted = (runs[i].deleted \/ i \in request[r].runs)
  <2>1. \A m \in RunRows : \A b \in BOOLEAN : [m EXCEPT !.deleted = b] \in RunRows
    BY DEF RunRows
  <2>2. \A i \in DOMAIN runs : [runs[i] EXCEPT !.deleted = @ \/ i \in request[r].runs] \in RunRows
    <3> SUFFICES ASSUME NEW i \in DOMAIN runs
                 PROVE  [runs[i] EXCEPT !.deleted = @ \/ i \in request[r].runs] \in RunRows
      OBVIOUS
    <3>1. runs[i] \in RunRows
      BY <1>6, RowTypes
    <3>2. (runs[i].deleted \/ i \in request[r].runs) \in BOOLEAN
      OBVIOUS
    <3> QED
      BY <2>1, <3>1, <3>2
  <2>3. runs' \in [1..Len(runs) -> RunRows]
    BY <1>2, <1>6, <2>2, RowTypes
  <2>4. \A i \in DOMAIN runs :
            runs'[i] = [runs[i] EXCEPT !.deleted = @ \/ i \in request[r].runs]
    BY <1>2
  <2>5. \A i \in DOMAIN runs : runs[i] \in RunRows
    BY <1>6, RowTypes
  <2>6. runs' \in Seq(RunRows) /\ Len(runs') = Len(runs)
    BY <1>6, <2>3, RowTypes
  <2> HIDE DEF old
  <2> QED
    BY <2>4, <2>5, <2>6 DEF RunRows
<1> HIDE DEF old
<1> QED
  BY <1>8, <1>9, <1>10, <1>11

LEMMA ReplaceStep ==
    ASSUME IInv, NEW r \in Request, Replace(r)
    PROVE  IInv'
<1>1. UNCHANGED << clock, version, evaluation >> /\ Done(r)
  BY DEF Replace
<1>2. CASE UNCHANGED << tests, runs >>
  BY <1>1, <1>2, IdleIsSound, QuietStep DEF Done, Idle
<1>3. CASE ~ UNCHANGED << tests, runs >>
  <2>1. TestsKept /\ tests' \in Seq(TestRow)
    BY <1>3, ReplaceEffect
  <2>2. /\ runs' \in Seq(RunRows) /\ Len(runs') = Len(runs)
        /\ \A i \in DOMAIN runs :
               /\ runs'[i].test = runs[i].test /\ runs'[i].version = runs[i].version
               /\ runs'[i].ran = runs[i].ran /\ runs'[i].executed = runs[i].executed
               /\ runs'[i].coverage = runs[i].coverage /\ runs'[i].at = runs[i].at
    BY <1>3, ReplaceEffect
  <2>3. Tables' /\ Evaluated'
    BY <1>1, <2>1, <2>2, TablesStay DEF IInv, Tables
  <2>4. \A i \in DOMAIN runs' : i \in DOMAIN runs /\ runs'[i].at = runs[i].at
    BY <2>2 DEF IInv, Tables
  <2>5. Sessions'
    BY <1>1, <2>1, <2>4, EndStep
  <2> QED
    BY <2>3, <2>5 DEF IInv
<1> QED
  BY <1>2, <1>3

\* The run an evaluation takes its coverage from is one of its version.
LEMMA EvaluateStep ==
    ASSUME IInv, NEW r \in Request, Evaluate(r)
    PROVE  IInv'
<1>1. UNCHANGED << clock, version, tests, runs >> /\ Done(r) /\ request[r] \in SessionState
  BY DEF Evaluate, IInv, Sessions
<1>2. TestsKept
  BY <1>1 DEF IInv, Tables, TestsKept
<1>3. Tables'
  BY <1>1 DEF IInv, Tables, StoredRow, CoverageAddsUp, ExecutedPartsAddUp,
              LinkedPartsAddUp, SuiteOf
<1>4. Sessions'
  BY <1>1, <1>2, EndStep
<1>5. PICK i \in LatestOf(RunsEvaluated(r)) :
          evaluation' = [version |-> request[r].version, run |-> i]
  BY DEF Evaluate
<1>6. i = 0 \/ i \in RunsEvaluated(r)
  BY DEF LatestOf, Newest
<1>7. i = 0 \/ (i \in DOMAIN runs /\ runs[i].version = request[r].version)
  BY <1>6 DEF RunsEvaluated, LiveRuns
<1>8. /\ i \in 0..Len(runs) /\ request[r].version \in Nat
      /\ i # 0 => runs[i].version = request[r].version
  BY <1>1, <1>7, RowTypes DEF SessionState, IInv
<1>9. Evaluated'
  BY <1>1, <1>5, <1>8 DEF Evaluated
<1> QED
  BY <1>3, <1>4, <1>9 DEF IInv

\* The other steps write neither tests nor runs nor evaluations.
LEMMA OtherStep ==
    ASSUME IInv,
           \/ \E r \in Request : Respond(r) \/ CheckGate(r) \/ Die(r)
           \/ NewVersion
    PROVE  IInv'
<1>1. CASE \E r \in Request : Respond(r) \/ CheckGate(r) \/ Die(r)
  <2>1. PICK r \in Request : Respond(r) \/ CheckGate(r) \/ Die(r)
    BY <1>1
  <2>2. Done(r) /\ UNCHANGED << clock, version, tests, runs, evaluation >>
    BY <2>1 DEF Respond, CheckGate, Die
  <2> QED
    BY <2>2, IdleIsSound, QuietStep DEF Done, Idle
<1>2. CASE NewVersion
  <2>1. UNCHANGED << clock, tests, runs, evaluation, request >> /\ version' \in Nat
    BY <1>2 DEF NewVersion, IInv, Tables
  <2> QED
    BY <2>1 DEF IInv, Tables, StoredRow, CoverageAddsUp, ExecutedPartsAddUp, LinkedPartsAddUp,
                SuiteOf, Evaluated, Sessions, Sound, HeldRow, Active
<1> QED
  BY <1>1, <1>2

LEMMA IInvStep == IInv /\ [Next]_vars => IInv'
<1> SUFFICES ASSUME IInv, [Next]_vars PROVE IInv'
  OBVIOUS
<1>1. ASSUME NEW r \in Request, NEW op \in Operation, Receive(r, op) PROVE IInv'
  BY <1>1, ReceiveStep
<1>2. ASSUME NEW r \in Request, Step(r) PROVE IInv'
  BY <1>2, ListStep, StoreStep, ReplaceStep, RunStep, CommitStep, EvaluateStep, OtherStep
     DEF Step
<1>3. ASSUME NEW r \in Request, Die(r) PROVE IInv'
  BY <1>3, OtherStep
<1>4. CASE NewVersion
  BY <1>4, OtherStep
<1>5. CASE UNCHANGED vars
  BY <1>5 DEF vars, IInv, Tables, StoredRow, CoverageAddsUp, ExecutedPartsAddUp,
              LinkedPartsAddUp, SuiteOf, Evaluated, Sessions, Sound, HeldRow, Active
<1> QED
  BY <1>1, <1>2, <1>3, <1>4, <1>5 DEF Next

LEMMA IInvInit == Init => IInv
<1> SUFFICES ASSUME Init PROVE IInv
  OBVIOUS
<1>1. tests \in Seq(TestRow)
  <2>1. PICK batch \in SUBSET Critical : tests = Stored(batch, "SYSTEM", TRUE, 0)
    BY DEF Init
  <2>2. batch \in SUBSET Name /\ TRUE \in BOOLEAN /\ "SYSTEM" \in Author
    BY EvidenceAssumption DEF Author
  <2>3. BatchRows(tests, batch, "SYSTEM", 0)
    BY <2>1, <2>2, StoredBatch
  <2> QED
    BY <2>3 DEF BatchRows
<1>2. Tables /\ Evaluated
  <2>1. runs = << >> /\ DOMAIN runs = {} /\ Len(runs) = 0 /\ runs \in Seq(RunRows)
    BY DEF Init
  <2>2. Tables
    BY <1>1, <2>1 DEF Init, Tables, CoverageAddsUp, ExecutedPartsAddUp, LinkedPartsAddUp
  <2>3. Evaluated
    BY <2>1 DEF Init, Evaluated
  <2> QED
    BY <2>2, <2>3
<1>3. Sessions
  BY IdleIsSound DEF Init, Sessions, Sound, Active, Idle
<1> QED
  BY <1>2, <1>3 DEF IInv

LEMMA IInvHolds == Spec => []IInv
<1>1. Init => IInv
  BY IInvInit
<1>2. IInv /\ [Next]_vars => IInv'
  BY IInvStep
<1> QED
  BY <1>1, <1>2, PTL DEF Spec

\* However requests overlap and versions change meanwhile, an evaluation's coverage was
\* measured on the version it evaluates (testing.py 155, 176, evaluations.py 199-219).
THEOREM EvidenceIsOfTheVersion == Spec => []EvaluationIsOfItsVersion
<1>1. IInv => EvaluationIsOfItsVersion
  BY DEF IInv, Tables, StoredRow, Evaluated, EvaluationIsOfItsVersion
<1> QED
  BY <1>1, IInvHolds, PTL

\* However suites interleave, the coverage stored with a run is of its own suite: of what
\* its runs up to this one executed, and of the requirements of all its tests, those that
\* never run included (runner.py 93-96, coverage.py 16-29, testing.py 164-176).
THEOREM CoverageIsOfTheSuite == Spec => []CoverageAddsUp
<1>1. IInv => CoverageAddsUp
  BY DEF IInv, Tables
<1> QED
  BY <1>1, IInvHolds, PTL

-----------------------------------------------------------------------------
(***************************************************************************)
(* One request after another.                                               *)
(***************************************************************************)

OneAtATime == \A r, s \in Request : Active(r) /\ Active(s) => r = s

\* While no two requests have overlapped, one at most is active.
LEMMA NoOverlap ==
    ASSUME Next, ~ overlapped'
    PROVE  ~ overlapped /\ OneAtATime'
<1>1. ~ overlapped /\ ~ Cardinality(Busy') > 1
  BY DEF Next
<1>2. IsFiniteSet(Busy')
  <2>1. Busy' \in SUBSET Request
    BY DEF Busy
  <2> QED
    BY <2>1, EvidenceAssumption, FS_Subset
<1>3. ASSUME NEW r \in Request, NEW s \in Request, Active(r)', Active(s)' PROVE r = s
  <2>1. r \in Busy' /\ s \in Busy'
    BY <1>3 DEF Busy, Active
  <2> QED
    BY <1>1, <1>2, <2>1, NoTwo
<1> QED
  BY <1>1, <1>3 DEF OneAtATime

\* So a step of one request finds and leaves all others idle.
LEMMA OthersAreIdle ==
    ASSUME Sessions, OneAtATime, OneAtATime', NEW r \in Request, NEW q,
           request' = [request EXCEPT ![r] = q], Active(r) \/ Active(r)', Alone(q)'
    PROVE  \A s \in Request : Alone(request[s])'
<1>1. /\ request'[r] = q
      /\ \A s \in Request \ {r} : request'[s] = request[s]
  BY DEF Sessions
<1>2. ASSUME NEW s \in Request \ {r} PROVE request'[s].pc = "idle"
  BY <1>1 DEF OneAtATime, Active
<1>3. ASSUME NEW s \in Request PROVE Alone(request[s])'
  <2>1. CASE s = r
    BY <1>1, <2>1 DEF Alone, Answering
  <2>2. CASE s # r
    BY <1>2, <2>2 DEF Alone
  <2> QED
    BY <2>1, <2>2
<1> QED
  BY <1>3

LEMMA IdleIsAlone == Alone(Idle)'
  BY DEF Alone, Idle

\* A request ends, or goes on without having listed or stored anything new.
LEMMA QuietTurn ==
    ASSUME IInv, InTurn, OneAtATime', NEW r \in Request, NEW q, Alone(q)',
           request' = [request EXCEPT ![r] = q], Active(r) \/ Active(r)',
           UNCHANGED << tests, runs, reply >>
    PROVE  InTurn'
<1>1. \A s \in Request : Alone(request[s])'
  BY OthersAreIdle DEF IInv, InTurn, OneAtATime
<1>2. RowsInOrder' /\ NamesOnce'
  BY DEF InTurn, RowsInOrder, NamesOnce, LiveTests
<1> QED
  BY <1>1, <1>2 DEF InTurn, OneAtATime

LEMMA ReadingTurn ==
    ASSUME IInv, InTurn, OneAtATime', NEW r \in Request,
           \/ \E op \in Operation : Receive(r, op)
           \/ ListTests(r) \/ Evaluate(r) \/ CheckGate(r) \/ Die(r)
           \/ \E t \in NextTests(r), outcome \in Outcome : RunTest(r, t, outcome)
    PROVE  InTurn'
<1>1. UNCHANGED << tests, runs, reply >>
  BY DEF Receive, ListTests, Evaluate, CheckGate, Die, RunTest
<1>2. request[r] \in SessionState /\ Alone(request[r])
  BY DEF IInv, Sessions, InTurn
<1>3. CASE Done(r) /\ Active(r)
  BY <1>1, <1>3, IdleIsAlone, QuietTurn DEF Done
<1>4. CASE \E op \in Operation : Receive(r, op)
  <2>1. PICK op \in Operation : Receive(r, op)
    BY <1>4
  <2>2. PICK q : q = [Idle EXCEPT !.pc = "list", !.op = op, !.version = version, !.at = clock']
    OBVIOUS
  <2>3. request' = [request EXCEPT ![r] = q]
    BY <2>1, <2>2 DEF Receive
  <2>4. q.pc = "list" /\ q.at = clock'
    BY <2>2 DEF Idle
  <2>5. Alone(q)' /\ Active(r)'
    BY <2>3, <2>4 DEF Alone, Active, IInv, Sessions
  <2> QED
    BY <1>1, <2>3, <2>5, QuietTurn
<1>5. CASE ListTests(r)
  <2>1. PICK wanted \in SUBSET LiveTests :
            /\ request[r].op # "run" => wanted = LiveTests
            /\ request' = [request EXCEPT ![r].pc = request[r].op, ![r].tests = wanted,
                                          ![r].runs = {i \in LiveRuns : runs[i].test \in wanted}]
    BY <1>5 DEF ListTests
  <2>2. PICK q : q = [request[r] EXCEPT !.pc = request[r].op, !.tests = wanted,
                                        !.runs = {i \in LiveRuns : runs[i].test \in wanted}]
    OBVIOUS
  <2>3. request' = [request EXCEPT ![r] = q]
    BY <2>1, <2>2 DEF IInv, Sessions
  <2>4. /\ q.pc = request[r].op /\ q.tests = wanted /\ q.at = request[r].at
        /\ request[r].pc = "list" /\ request[r].op \in {"generate", "replace", "run"}
    BY <1>2, <1>5, <2>2 DEF SessionState, ListTests
  <2>5. UNCHANGED clock
    BY <1>5 DEF ListTests
  <2>6. q.at = clock'
    BY <1>2, <2>4, <2>5 DEF Alone
  <2>7. Alone(q)'
    BY <1>1, <2>1, <2>4, <2>6 DEF Alone, LiveTests
  <2> QED
    BY <1>1, <2>3, <2>4, <2>7, QuietTurn DEF Active
<1>6. CASE \E t \in NextTests(r), outcome \in Outcome : RunTest(r, t, outcome) /\ ~ Done(r)
  <2>1. PICK rows : request' = [request EXCEPT ![r].rows = rows]
    BY <1>6 DEF RunTest
  <2>2. PICK q : q = [request[r] EXCEPT !.rows = rows]
    OBVIOUS
  <2>3. request' = [request EXCEPT ![r] = q]
    BY <2>1, <2>2 DEF IInv, Sessions
  <2>4. q.pc = request[r].pc /\ q.at = request[r].at /\ request[r].pc = "run" /\ UNCHANGED clock
    BY <1>2, <1>6, <2>2 DEF SessionState, RunTest
  <2>5. Alone(q)'
    BY <1>2, <2>4 DEF Alone
  <2> QED
    BY <1>1, <2>3, <2>4, <2>5, QuietTurn DEF Active
<1>7. CASE Evaluate(r) \/ CheckGate(r) \/ Die(r)
  BY <1>3, <1>7 DEF Evaluate, CheckGate, Die, Active
<1>8. CASE \E t \in NextTests(r), outcome \in Outcome : RunTest(r, t, outcome) /\ Done(r)
  BY <1>3, <1>8 DEF RunTest, Active
<1> QED
  BY <1>4, <1>5, <1>6, <1>7, <1>8

\* A batch leaves out the names that are stored, all of which its request has seen.
LEMMA GenerateTurn ==
    ASSUME IInv, InTurn, OneAtATime', NEW r \in Request, PersistGenerated(r)
    PROVE  InTurn'
<1>1. /\ Done(r) /\ Active(r) /\ UNCHANGED << clock, runs, reply >>
      /\ request[r] \in SessionState /\ Alone(request[r]) /\ request[r].pc = "generate"
  BY DEF PersistGenerated, Active, IInv, Sessions, InTurn
<1>2. request[r].tests = LiveTests
  BY <1>1 DEF Alone
<1>3. PICK batch \in SUBSET Name :
          tests' = tests \o Stored(batch \ NamesStored(r), "SYSTEM", TRUE, request[r].at)
  BY DEF PersistGenerated
<1>4. PICK fresh, at : fresh = batch \ NamesStored(r) /\ at = request[r].at
  OBVIOUS
<1>5. PICK more : more = Stored(fresh, "SYSTEM", TRUE, at)
  OBVIOUS
<1>6. BatchRows(more, fresh, "SYSTEM", at)
  <2>1. fresh \in SUBSET Name /\ at \in Nat /\ TRUE \in BOOLEAN /\ "SYSTEM" \in Author
    BY <1>1, <1>4 DEF SessionState, Author
  <2> QED
    BY <1>5, <2>1, StoredBatch
<1>7. Added(tests, more)
  <2>1. Tables /\ tests \in Seq(TestRow) /\ more \in Seq(TestRow) /\ tests' = tests \o more
    BY <1>3, <1>4, <1>5, <1>6 DEF BatchRows, IInv, Tables
  <2> QED
    BY <1>1, <2>1, AddTests
<1>8. \A t \in LiveTests : tests[t].name \notin fresh
  BY <1>2, <1>4 DEF NamesStored
<1>9. NamesOnce'
  <2> SUFFICES ASSUME NEW s \in LiveTests', NEW t \in LiveTests',
                      tests'[s].by = "SYSTEM", tests'[t].by = "SYSTEM",
                      tests'[s].name = tests'[t].name
               PROVE  s = t
    BY DEF NamesOnce
  <2>1. \A u \in LiveTests' :
            \/ u \in LiveTests /\ tests'[u] = tests[u]
            \/ \E k \in DOMAIN more : u = Len(tests) + k /\ tests'[u] = more[k]
    BY <1>7 DEF Added, LiveTests
  <2>2. CASE s \in LiveTests /\ tests'[s] = tests[s]
    <3>1. CASE t \in LiveTests /\ tests'[t] = tests[t]
      BY <2>2, <3>1 DEF InTurn, NamesOnce
    <3>2. CASE \E k \in DOMAIN more : tests'[t] = more[k]
      BY <1>6, <1>8, <2>2, <3>2 DEF BatchRows
    <3> QED
      BY <2>1, <3>1, <3>2
  <2>3. CASE \E k \in DOMAIN more : s = Len(tests) + k /\ tests'[s] = more[k]
    <3>1. CASE t \in LiveTests /\ tests'[t] = tests[t]
      BY <1>6, <1>8, <2>3, <3>1 DEF BatchRows
    <3>2. CASE \E k \in DOMAIN more : t = Len(tests) + k /\ tests'[t] = more[k]
      BY <1>6, <2>3, <3>2 DEF BatchRows
    <3> QED
      BY <2>1, <3>1, <3>2
  <2> QED
    BY <2>1, <2>2, <2>3
<1>10. \A s \in Request : Alone(request[s])'
  BY <1>1, IdleIsAlone, OthersAreIdle DEF IInv, InTurn, OneAtATime, Done
<1> QED
  BY <1>1, <1>9, <1>10 DEF InTurn, RowsInOrder, OneAtATime

\* A test that a user writes is no generated one.
LEMMA CreateTurn ==
    ASSUME IInv, InTurn, OneAtATime', NEW r \in Request, CreateTest(r)
    PROVE  InTurn'
<1>1. /\ Done(r) /\ Active(r) /\ UNCHANGED << clock, runs, reply >>
      /\ request[r] \in SessionState
  BY DEF CreateTest, Active, IInv, Sessions
<1>2. PICK name \in Name, enabled \in BOOLEAN :
          tests' = tests \o Stored({name}, "HUMAN", enabled, request[r].at)
  BY DEF CreateTest
<1>3. PICK names, at : names = {name} /\ at = request[r].at
  OBVIOUS
<1>4. PICK more : more = Stored(names, "HUMAN", enabled, at)
  OBVIOUS
<1>5. BatchRows(more, names, "HUMAN", at)
  <2>1. names \in SUBSET Name /\ at \in Nat /\ "HUMAN" \in Author
    BY <1>1, <1>3 DEF SessionState, Author
  <2> QED
    BY <1>4, <2>1, StoredBatch
<1>6. Added(tests, more)
  <2>1. Tables /\ tests \in Seq(TestRow) /\ more \in Seq(TestRow) /\ tests' = tests \o more
    BY <1>2, <1>3, <1>4, <1>5 DEF BatchRows, IInv, Tables
  <2> QED
    BY <1>1, <2>1, AddTests
<1>7. \A u \in LiveTests' : tests'[u].by = "SYSTEM" => u \in LiveTests /\ tests'[u] = tests[u]
  BY <1>5, <1>6 DEF Added, LiveTests, BatchRows
<1>8. NamesOnce'
  BY <1>7 DEF NamesOnce, InTurn
<1>9. \A s \in Request : Alone(request[s])'
  BY <1>1, IdleIsAlone, OthersAreIdle DEF IInv, InTurn, OneAtATime, Done
<1> QED
  BY <1>1, <1>8, <1>9 DEF InTurn, RowsInOrder, OneAtATime

\* A replacement deletes all there are before it stores the new ones.
LEMMA ReplaceTurn ==
    ASSUME IInv, InTurn, OneAtATime', NEW r \in Request, Replace(r)
    PROVE  InTurn'
<1>1. /\ Done(r) /\ Active(r) /\ UNCHANGED << clock, reply >>
      /\ Alone(request[r]) /\ request[r].pc = "replace"
  BY DEF Replace, Active, InTurn
<1>2. CASE UNCHANGED << tests, runs >>
  BY <1>1, <1>2, IdleIsAlone, QuietTurn DEF Done
<1>3. CASE ~ UNCHANGED << tests, runs >>
  <2>1. request[r].tests = LiveTests
    BY <1>1 DEF Alone
  <2>2. /\ \A t \in DOMAIN tests :
               tests'[t].deleted = (tests[t].deleted \/ t \in request[r].tests)
        /\ \A s, t \in DOMAIN tests' \ DOMAIN tests : tests'[s].name = tests'[t].name => s = t
        /\ Len(runs') = Len(runs) /\ runs' \in Seq(RunRows)
        /\ \A i \in DOMAIN runs : runs'[i].at = runs[i].at
    BY <1>3, ReplaceEffect
  <2>3. LiveTests' \subseteq DOMAIN tests' \ DOMAIN tests
    BY <2>1, <2>2 DEF LiveTests
  <2>4. NamesOnce'
    BY <2>2, <2>3 DEF NamesOnce
  <2>5. RowsInOrder'
    BY <2>2 DEF RowsInOrder, InTurn, IInv, Tables
  <2>6. \A s \in Request : Alone(request[s])'
    BY <1>1, IdleIsAlone, OthersAreIdle DEF IInv, InTurn, OneAtATime, Done
  <2> QED
    BY <1>1, <2>4, <2>5, <2>6 DEF InTurn, OneAtATime
<1> QED
  BY <1>2, <1>3

\* The rows of a suite are the newest, as no later request has stored any.
LEMMA CommitTurn ==
    ASSUME IInv, InTurn, OneAtATime', NEW r \in Request, CommitSuite(r)
    PROVE  InTurn'
<1>1. /\ Active(r) /\ UNCHANGED << clock, tests, reply >> /\ request[r].pc = "run"
      /\ request[r] \in SessionState /\ Sound(request[r]) /\ request[r].at = clock
  BY DEF CommitSuite, Active, IInv, Sessions, InTurn, Alone
<1>2. PICK rows, n, m : rows = request[r].rows /\ n = Len(rows) /\ m = Len(runs)
  OBVIOUS
<1>3. /\ runs \in Seq(RunRows) /\ rows \in Seq(RunRows) /\ m \in Nat /\ n \in Nat
      /\ DOMAIN runs = 1..m /\ DOMAIN rows = 1..n /\ runs' = runs \o rows
  BY <1>1, <1>2 DEF IInv, Tables, SessionState, CommitSuite
<1>4. /\ Len(runs') = m + n /\ DOMAIN runs' = 1..(m + n)
      /\ \A i \in 1..m : runs'[i] = runs[i]
      /\ \A k \in 1..n : runs'[m + k] = rows[k]
  BY <1>2, <1>3
<1>5. \A i \in 1..m : /\ runs'[i].at <= clock /\ runs'[i].at # clock /\ runs'[i].at \in Nat
  BY <1>1, <1>3, <1>4, RowTypes DEF Sound, IInv
<1>6. \A k \in 1..n : rows[k].at = clock /\ ~ rows[k].deleted
  BY <1>1, <1>2, <1>3 DEF Sound, HeldRow
<1>7. \A i \in (m + 1)..(m + n) : runs'[i].at = clock /\ ~ runs'[i].deleted
  <2> SUFFICES ASSUME NEW i \in (m + 1)..(m + n)
               PROVE  runs'[i].at = clock /\ ~ runs'[i].deleted
    OBVIOUS
  <2>1. i - m \in 1..n /\ i = m + (i - m)
    BY <1>3
  <2> QED
    BY <1>4, <1>6, <2>1
<1>8. \A i \in 1..(m + n) : i \in 1..m \/ i \in (m + 1)..(m + n)
  BY <1>3
<1>9. clock \in Nat
  BY DEF IInv, Tables
<1>10. RowsInOrder'
  <2> SUFFICES ASSUME NEW i \in 1..(m + n), NEW j \in 1..(m + n), i <= j
               PROVE  runs'[i].at <= runs'[j].at
    BY <1>4 DEF RowsInOrder
  <2>1. CASE j \in 1..m
    <3>1. i \in 1..m
      BY <1>3, <2>1
    <3> QED
      BY <1>3, <1>4, <2>1, <3>1 DEF InTurn, RowsInOrder
  <2>2. CASE j \in (m + 1)..(m + n)
    <3>1. runs'[j].at = clock
      BY <1>7, <2>2
    <3>2. runs'[i].at <= clock
      BY <1>5, <1>7, <1>8, <1>9
    <3> QED
      BY <3>1, <3>2
  <2> QED
    BY <1>8, <2>1, <2>2
<1>11. PICK q : q = [request[r] EXCEPT !.pc = "reply", !.runs = OwnRuns(r)]
  OBVIOUS
<1>12. request' = [request EXCEPT ![r] = q]
  BY <1>11 DEF IInv, Sessions, CommitSuite
<1>13. /\ q.pc = "reply" /\ q.at = clock /\ q.rows = rows /\ q.runs = (m + 1)..(m + n)
  BY <1>1, <1>2, <1>11 DEF SessionState, OwnRuns
<1>14. Answering(q)'
  <2>1. Len(runs') - Len(q.rows) + 1 = m + 1 /\ Len(q.rows) <= Len(runs')
    BY <1>2, <1>3, <1>4, <1>13
  <2>2. \A i \in 1..(m + n) : runs'[i].at = q.at <=> i >= m + 1
    BY <1>3, <1>5, <1>7, <1>8, <1>13
  <2> QED
    BY <1>4, <1>7, <1>13, <2>1, <2>2 DEF Answering
<1>15. Alone(q)'
  BY <1>1, <1>13, <1>14 DEF Alone
<1>16. \A s \in Request : Alone(request[s])'
  BY <1>1, <1>12, <1>15, OthersAreIdle DEF IInv, InTurn, OneAtATime
<1> QED
  BY <1>1, <1>10, <1>16 DEF InTurn, NamesOnce, LiveTests, OneAtATime

\* A set of as many rows as the suite has, none of them older than one left out, is the
\* suite: its rows are the newest there are.
LEMMA RespondTurn ==
    ASSUME IInv, InTurn, OneAtATime', NEW r \in Request, Respond(r)
    PROVE  InTurn'
<1>1. /\ Done(r) /\ Active(r) /\ UNCHANGED << clock, tests, runs >>
      /\ request[r] \in SessionState /\ Answering(request[r]) /\ request[r].at = clock
  BY DEF Respond, Active, IInv, Sessions, InTurn, Alone
<1>2. PICK T \in ListRuns(LiveRuns, Len(request[r].rows)) :
          reply' = [own |-> request[r].runs, shown |-> T]
  BY DEF Respond
<1>3. PICK own, n, m, S : /\ own = request[r].runs /\ n = Len(request[r].rows)
                          /\ m = Len(runs) /\ S = LiveRuns
  OBVIOUS
<1>4. /\ m \in Nat /\ n \in Nat /\ n <= m /\ DOMAIN runs = 1..m
      /\ own = (m - n + 1)..m
      /\ \A i \in 1..m : runs[i].at = clock <=> i >= m - n + 1
      /\ \A i \in own : ~ runs[i].deleted
  <2>1. /\ runs \in Seq(RunRows) /\ request[r].rows \in Seq(RunRows)
        /\ request[r].pc = "reply"
    BY <1>1 DEF SessionState, IInv, Tables, Respond
  <2>2. m \in Nat /\ n \in Nat /\ DOMAIN runs = 1..m
    BY <1>3, <2>1
  <2>3. /\ n <= m /\ own = (m - n + 1)..m
        /\ \A i \in DOMAIN runs : runs[i].at = clock <=> i >= m - n + 1
        /\ \A i \in own : ~ runs[i].deleted
    BY <1>1, <1>3, <2>1 DEF Answering
  <2> QED
    BY <2>2, <2>3
<1>5. own \subseteq S /\ S \subseteq 1..m
  <2>1. own \subseteq 1..m
    BY <1>4
  <2> QED
    BY <1>3, <1>4, <2>1 DEF LiveRuns
<1>6. IsFiniteSet(S) /\ IsFiniteSet(own) /\ Cardinality(own) = n
  <2>1. IsFiniteSet(1..m)
    BY <1>4, FS_Interval
  <2>2. IsFiniteSet(S)
    BY <1>5, <2>1, FS_Subset
  <2>3. m - n + 1 \in Int /\ m \in Int
    BY <1>4
  <2>4. IsFiniteSet(own) /\ Cardinality(own) = IF m - n + 1 > m THEN 0 ELSE m - (m - n + 1) + 1
    BY <1>4, <2>3, FS_Interval
  <2>5. (IF m - n + 1 > m THEN 0 ELSE m - (m - n + 1) + 1) = n
    BY <1>4
  <2> QED
    BY <2>2, <2>4, <2>5
<1>7. ASSUME own # {} PROVE T = own
  <2>1. n # 0
    BY <1>4, <1>7
  <2>2. CASE n >= Cardinality(S)
    <3>1. T = S
      BY <1>2, <1>3, <2>2 DEF ListRuns
    <3>2. Cardinality(own) <= Cardinality(S) /\ (Cardinality(S) = Cardinality(own) => S = own)
      BY <1>5, <1>6, FS_Subset
    <3>3. Cardinality(S) \in Nat
      BY <1>6, FS_CardinalityType
    <3> QED
      BY <1>4, <1>6, <2>2, <3>1, <3>2, <3>3
  <2>3. CASE ~ n >= Cardinality(S)
    <3>1. /\ T \in SUBSET S /\ Cardinality(T) = n
          /\ \A i \in T, j \in S \ T : runs[j].at <= runs[i].at
      BY <1>2, <1>3, <2>1, <2>3 DEF ListRuns
    <3>2. IsFiniteSet(T)
      BY <1>6, <3>1, FS_Subset
    <3>3. own \subseteq T => own = T
      BY <1>6, <3>1, <3>2, FS_Subset
    <3>4. T \subseteq own => own = T
      BY <1>6, <3>1, FS_Subset
    <3>5. ASSUME NEW i \in T, i \notin own, NEW j \in own, j \notin T PROVE FALSE
      <4>1. i \in 1..m /\ j \in 1..m /\ j \in S \ T
        BY <1>4, <1>5, <3>1, <3>5
      <4>2. runs[j].at = clock /\ runs[i].at # clock
        BY <1>4, <3>5, <4>1
      <4>3. runs[i].at <= clock /\ runs[i].at \in Nat /\ clock \in Nat
        BY <1>4, <4>1, RowTypes DEF IInv, Tables
      <4>4. runs[j].at <= runs[i].at
        BY <3>1, <4>1
      <4> QED
        BY <4>2, <4>3, <4>4
    <3> QED
      BY <3>3, <3>4, <3>5
  <2> QED
    BY <2>2, <2>3
<1>8. reply'.own # {} => reply'.shown = reply'.own
  BY <1>2, <1>3, <1>7
<1>9. \A s \in Request : Alone(request[s])'
  BY <1>1, IdleIsAlone, OthersAreIdle DEF IInv, InTurn, OneAtATime, Done
<1> QED
  BY <1>1, <1>8, <1>9 DEF InTurn, RowsInOrder, NamesOnce, LiveTests, OneAtATime

LEMMA SerialStep == IInv /\ Serial /\ [Next]_vars => Serial'
<1> SUFFICES ASSUME IInv, Serial, [Next]_vars, ~ overlapped' PROVE InTurn'
  BY DEF Serial
<1>1. CASE UNCHANGED vars
  BY <1>1 DEF vars, Serial, InTurn, Alone, Answering, RowsInOrder, NamesOnce, LiveTests, Active
<1>2. CASE Next
  <2>1. InTurn /\ OneAtATime'
    BY <1>2, NoOverlap DEF Serial
  <2>2. CASE NewVersion
    BY <2>1, <2>2 DEF NewVersion, InTurn, Alone, Answering, RowsInOrder, NamesOnce,
                      LiveTests, Active
  <2>3. ASSUME NEW r \in Request, Step(r) PROVE InTurn'
    BY <2>1, <2>3, ReadingTurn, GenerateTurn, ReplaceTurn, CreateTurn, CommitTurn, RespondTurn
       DEF Step
  <2>4. ASSUME NEW r \in Request, (\E op \in Operation : Receive(r, op)) \/ Die(r)
        PROVE  InTurn'
    BY <2>1, <2>4, ReadingTurn
  <2> QED
    BY <1>2, <2>2, <2>3, <2>4 DEF Next
<1> QED
  BY <1>1, <1>2

LEMMA SerialInit == Init => Serial
<1> SUFFICES ASSUME Init PROVE InTurn
  BY DEF Serial
<1>1. \A r \in Request : request[r] = Idle /\ Idle.pc = "idle"
  BY DEF Init, Idle
<1>2. NamesOnce
  <2>1. PICK batch \in SUBSET Critical : tests = Stored(batch, "SYSTEM", TRUE, 0)
    BY DEF Init
  <2>2. batch \in SUBSET Name /\ TRUE \in BOOLEAN /\ "SYSTEM" \in Author
    BY EvidenceAssumption DEF Author
  <2>3. BatchRows(tests, batch, "SYSTEM", 0)
    BY <2>1, <2>2, StoredBatch
  <2> QED
    BY <2>3 DEF BatchRows, NamesOnce, LiveTests
<1>3. RowsInOrder
  BY DEF Init, RowsInOrder
<1>4. reply.own = {}
  BY DEF Init
<1> QED
  BY <1>1, <1>2, <1>3, <1>4 DEF InTurn, Alone, Active

LEMMA SerialHolds == Spec => [](IInv /\ Serial)
<1>1. Init => IInv /\ Serial
  BY IInvInit, SerialInit
<1>2. (IInv /\ Serial) /\ [Next]_vars => (IInv /\ Serial)'
  BY IInvStep, SerialStep
<1> QED
  BY <1>1, <1>2, PTL DEF Spec

\* While requests do not overlap, no press of "Generate Tests" stores a generated test a
\* second time (testing.py 95-103).
THEOREM GeneratingTwiceStoresOnce == Spec => []GenerationIsIdempotent
<1>1. Serial => GenerationIsIdempotent
  BY DEF Serial, InTurn, NamesOnce, GenerationIsIdempotent
<1> QED
  BY <1>1, SerialHolds, PTL

\* While requests do not overlap, running tests answers with the rows of that suite
\* (testing.py 183).
THEOREM AnswersAreTheSuite == Spec => []ReplyIsTheSuite
<1>1. Serial => ReplyIsTheSuite
  BY DEF Serial, InTurn, ReplyIsTheSuite
<1> QED
  BY <1>1, SerialHolds, PTL

\* While requests do not overlap, the gate passes no workflow one of whose important tests
\* failed when it was last run: the newest row by its stamp is the last one stored
\* (quality.py 116-147).
THEOREM GateKnowsTheLastRun == Spec => GateHearsTheLastWord
<1> DEFINE Heard == (~ overlapped /\ gate' # gate /\ gate'.status = "PASS") =>
                        \A t \in LiveTests : tests[t].name \in Critical =>
                            \A i \in LiveRuns :
                                (runs[i].test = t /\ \A j \in LiveRuns : runs[j].test = t => j <= i)
                                    => runs[i].status \notin {"FAILED", "ERROR"}
<1>1. IInv /\ Serial /\ [Next]_vars => [Heard]_vars
  <2> SUFFICES ASSUME IInv, Serial, [Next]_vars, ~ overlapped, gate' # gate,
                      gate'.status = "PASS",
                      NEW t \in LiveTests, tests[t].name \in Critical,
                      NEW i \in LiveRuns, runs[i].test = t,
                      \A j \in LiveRuns : runs[j].test = t => j <= i
               PROVE  runs[i].status \notin {"FAILED", "ERROR"}
    OBVIOUS
  <2>1. PICK r \in Request : CheckGate(r)
    BY DEF Next, vars, Step, Receive, ListTests, PersistGenerated, Replace, CreateTest, RunTest,
           CommitSuite, Respond, Evaluate, NewVersion, Die
  <2>2. CriticalFailures = {}
    BY <2>1 DEF CheckGate
  <2>3. i \in LatestVerdict(t)
    <3>1. RowsInOrder
      BY DEF Serial, InTurn
    <3>2. \A j \in LiveRuns : runs[j].test = t => runs[j].at <= runs[i].at
      BY <3>1 DEF LiveRuns, RowsInOrder
    <3> QED
      BY <3>2 DEF LatestVerdict, Newest
  <2> QED
    BY <2>2, <2>3 DEF CriticalFailures
<1>2. Spec => [][Heard]_vars
  BY <1>1, SerialHolds, PTL DEF Spec
<1> QED
  BY <1>2 DEF GateHearsTheLastWord
==============================================================================
