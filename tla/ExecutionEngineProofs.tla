------------------------ MODULE ExecutionEngineProofs ------------------------
(***************************************************************************)
(* Theorems about ExecutionEngine for every set of engines, versions, nodes, *)
(* tests and request threads, in every environment, however engines, n8n and *)
(* the threads of the mock server interleave.                                *)
(*                                                                         *)
(* The first invariant relates the cache of an engine, the workflow it has in *)
(* hand and what n8n keeps; it holds whatever goes wrong.  The second one says *)
(* besides, for an n8n that does what it is asked, where an execution may be  *)
(* while its engine waits, and what the registry makes of its token then.     *)
(***************************************************************************)
EXTENDS ExecutionEngine, SequenceTheorems, WellFoundedInduction, TLAPS

Pc == {"new", "idle", "create", "publish", "discard", "open", "trigger", "wait", "close", "map",
       "unpublish", "delete", "release"} \cup Stopped

EngineState == [pc : Pc, version : Version, test : Test, wf : Nat, run : Nat, exec : Nat,
                raising : BOOLEAN]

Workflow == [path : Engine, version : Version, exists : BOOLEAN, active : BOOLEAN]

\* The engine has a workflow in hand that is not, or no more, in its cache.
Keeping == {"publish", "discard", "unpublish", "delete"}

\* The engine runs a workflow out of its cache.
Using == {"open", "trigger", "wait"}

\* Workflow w of n8n is engine e's, made of version v.
Owned(e, v, w) == w \in DOMAIN workflows /\ workflows[w].path = e /\ workflows[w].version = v

\* What engine e may rely on in state q.
Sound(e, q) ==
    /\ q \in EngineState
    /\ q.pc \in Keeping \cup Using => Owned(e, q.version, q.wf)
    /\ q.pc \in Keeping \cup {"create"} => published[e][q.version] = 0
    /\ q.pc \in Using => published[e][q.version] = q.wf

\* A cached entry is an own workflow, which n8n serves unless somebody spoilt it.
Entry(e, v) == LET w == published[e][v]
               IN  w # 0 => /\ Owned(e, v, w)
                            /\ w \notin excused => workflows[w].exists /\ workflows[w].active

Cache == \A e \in Engine, v \in Version : Entry(e, v)

Tables == /\ published \in [Engine -> [Version -> Nat]]
          /\ workflows \in Seq(Workflow)
          /\ env \in Environment

Engines == /\ engine \in [Engine -> EngineState]
           /\ \A e \in Engine : Sound(e, engine[e])

\* A list, of whatever it lists.
IsList(s) == s \in Seq({s[i] : i \in DOMAIN s})

Execution == [wf : Nat, run : Nat, state : {"accepted", "running", "finished", "deleted"}]

Lists == IsList(runs) /\ IsList(results) /\ executions \in Seq(Execution)

IInv == Tables /\ Lists /\ Engines /\ Cache /\ OrphansAreExcused
-----------------------------------------------------------------------------
\* A workflow that n8n is asked to create gets the next id (n8n_client.py 62).
LEMMA CreatedRows ==
    ASSUME NEW S \in Seq(Workflow), NEW e \in Engine, NEW v \in Version, NEW T,
           T = Append(S, [path |-> Path(e), version |-> v, exists |-> TRUE, active |-> FALSE])
    PROVE  /\ T \in Seq(Workflow) /\ Len(T) = Len(S) + 1 /\ Len(S) \in Nat
           /\ DOMAIN S = 1..Len(S) /\ DOMAIN T = 1..(Len(S) + 1)
           /\ \A w \in DOMAIN S : T[w] = S[w]
           /\ T[Len(S) + 1] = [path |-> e, version |-> v, exists |-> TRUE, active |-> FALSE]
<1>1. PICK row : row = [path |-> e, version |-> v, exists |-> TRUE, active |-> FALSE]
  OBVIOUS
<1>2. row \in Workflow
  BY <1>1 DEF Workflow
<1> QED
  BY <1>1, <1>2 DEF Path

\* An engine's state with another pc, and with the fields its step assigns.
LEMMA FreshState ==
    /\ Fresh \in EngineState /\ Fresh.pc = "new" /\ ~ Fresh.raising
    /\ \A e : Sound(e, Fresh) /\ Sound(e, [Fresh EXCEPT !.pc = "dead"])
<1>1. (CHOOSE v \in Version : TRUE) \in Version /\ (CHOOSE t \in Test : TRUE) \in Test
  BY EngineAssumption
<1> QED
  BY <1>1 DEF Fresh, EngineState, Pc, Stopped, Sound, Keeping, Using

\* Workflows keep their owners.
WorkflowsKept == \A e, v, w : Owned(e, v, w) => Owned(e, v, w)'

\* One engine takes a step: what the others rely on stays.
LEMMA EngineStep ==
    ASSUME Engines, WorkflowsKept, NEW e \in Engine, NEW q, Sound(e, q)',
           engine' = [engine EXCEPT ![e] = q],
           \A o \in Engine : o # e => published'[o] = published[o]
    PROVE  Engines'
<1>1. q \in EngineState /\ engine' \in [Engine -> EngineState]
  BY DEF Sound, Engines
<1>2. ASSUME NEW o \in Engine PROVE Sound(o, engine[o])'
  <2>1. CASE o = e
    <3>1. engine'[o] = q
      BY <2>1 DEF Engines
    <3> QED
      BY <2>1, <3>1 DEF Sound, Owned
  <2>2. CASE o # e
    <3>1. PICK s : s = engine[o]
      OBVIOUS
    <3>2. engine'[o] = s /\ Sound(o, s) /\ published'[o] = published[o]
      BY <2>2, <3>1 DEF Engines
    <3>3. Sound(o, s)'
      BY <3>2 DEF Sound, WorkflowsKept
    <3> QED
      BY <3>2, <3>3 DEF Sound, Owned
  <2> QED
    BY <2>1, <2>2
<1> QED
  BY <1>1, <1>2 DEF Engines

\* The invariant but for the lists, which have lemmas of their own.
Served == Tables /\ Engines /\ Cache /\ OrphansAreExcused

\* A step of one engine that leaves cache and n8n's workflows alone, and the workflow in
\* hand where it is.
LEMMA QuietStep ==
    ASSUME IInv, UNCHANGED << published, workflows, excused, env >>,
           NEW e \in Engine, NEW q, Sound(e, q), engine' = [engine EXCEPT ![e] = q],
           engine[e].pc \in Keeping => q.pc \in Keeping /\ q.wf = engine[e].wf
    PROVE  Served'
<1>1. WorkflowsKept /\ Sound(e, q)'
  BY DEF WorkflowsKept, Sound, Owned
<1>2. Engines'
  BY <1>1, EngineStep DEF IInv
<1>3. Tables' /\ Cache'
  BY DEF IInv, Tables, Cache, Entry, Owned
<1>4. OrphansAreExcused'
  <2> SUFFICES ASSUME NEW w \in DOMAIN workflows, workflows[w].exists, w \notin excused,
                      NEW o, o = workflows[w].path,
                      published[o][workflows[w].version] # w
               PROVE  engine'[o].wf = w /\ engine'[o].pc \in Keeping
    BY DEF OrphansAreExcused, Exists, Keeping
  <2>1. engine[o].wf = w /\ engine[o].pc \in Keeping
    BY DEF IInv, OrphansAreExcused, Exists, Keeping
  <2>2. o \in Engine
    <3>1. workflows[w] \in Workflow
      BY DEF IInv, Tables
    <3> QED
      BY <3>1 DEF Workflow
  <2> QED
    BY <2>1, <2>2 DEF IInv, Engines
<1> QED
  BY <1>2, <1>3, <1>4 DEF Served

\* A step of the caller: build, simulate, finish or release with nothing left to release.
LEMMA CallerStep ==
    ASSUME IInv, UNCHANGED env, NEW e \in Engine,
           \/ Build(e) \/ Finish(e)
           \/ \E v \in env.versions, test \in Test : Simulate(e, v, test)
    PROVE  Served'
<1>1. Sound(e, engine[e]) /\ engine \in [Engine -> EngineState] /\ engine[e] \in EngineState
  BY DEF IInv, Engines
<1>2. UNCHANGED << published, workflows, excused >>
  BY DEF Build, Finish, Simulate, n8nvars
<1>3. engine[e].pc \in {"new", "idle"}
  BY DEF Build, Finish, Simulate
<1>4. CASE Build(e) \/ Finish(e)
  <2>1. PICK pc \in {"idle", "release", "gone"} : engine' = [engine EXCEPT ![e].pc = pc]
    BY <1>4 DEF Build, Finish, Goto
  <2>2. PICK q : q = [engine[e] EXCEPT !.pc = pc]
    OBVIOUS
  <2>3. engine' = [engine EXCEPT ![e] = q] /\ q.pc = pc
    BY <1>1, <2>1, <2>2 DEF EngineState
  <2>4. Sound(e, q)
    BY <1>1, <2>2, <2>3 DEF Sound, EngineState, Pc, Stopped, Keeping, Using
  <2> QED
    BY <1>2, <1>3, <2>3, <2>4, QuietStep DEF Keeping
<1>5. CASE \E v \in env.versions, test \in Test : Simulate(e, v, test)
  <2>1. PICK v \in env.versions, test \in Test : Simulate(e, v, test)
    BY <1>5
  <2>2. v \in Version
    BY EngineAssumption DEF IInv, Tables
  <2>3. PICK q : q = [Fresh EXCEPT !.pc = IF published[e][v] # 0 THEN "open" ELSE "create",
                         !.version = v, !.test = test, !.wf = published[e][v]]
    OBVIOUS
  <2>4. engine' = [engine EXCEPT ![e] = q]
    BY <2>1, <2>3 DEF Simulate
  <2>5. published[e][v] \in Nat /\ Entry(e, v)
    BY <2>2 DEF IInv, Tables, Cache
  <2>6. /\ q.pc = IF published[e][v] # 0 THEN "open" ELSE "create"
        /\ q.version = v /\ q.wf = published[e][v] /\ q \in EngineState
    BY <2>2, <2>3, <2>5, FreshState DEF EngineState, Pc
  <2>7. Sound(e, q)
    BY <2>5, <2>6 DEF Sound, Entry, Keeping, Using
  <2> QED
    BY <1>2, <1>3, <2>4, <2>7, QuietStep DEF Keeping
<1> QED
  BY <1>4, <1>5

\* Lists that grow or change in place are lists.
LEMMA GrownList ==
    ASSUME NEW s, IsList(s), NEW x, NEW t, t = Append(s, x)
    PROVE  /\ IsList(t) /\ Len(s) \in Nat /\ Len(t) = Len(s) + 1
           /\ DOMAIN s = 1..Len(s) /\ DOMAIN t = 1..(Len(s) + 1)
           /\ \A i \in DOMAIN s : t[i] = s[i]
           /\ t[Len(s) + 1] = x
<1>1. PICK S : S = {s[i] : i \in DOMAIN s} \cup {x}
  OBVIOUS
<1>2. s \in Seq(S) /\ x \in S
  <2>1. {s[i] : i \in DOMAIN s} \subseteq S
    BY <1>1
  <2> QED
    BY <1>1, <2>1, SeqMonotonic DEF IsList
<1>3. /\ t \in Seq(S) /\ Len(s) \in Nat /\ Len(t) = Len(s) + 1
      /\ DOMAIN s = 1..Len(s) /\ DOMAIN t = 1..(Len(s) + 1)
      /\ \A i \in DOMAIN s : t[i] = s[i]
      /\ t[Len(s) + 1] = x
  BY <1>2
<1>4. IsList(t)
  BY <1>3, SeqDef DEF IsList
<1> QED
  BY <1>3, <1>4

LEMMA ChangedList ==
    ASSUME NEW s, IsList(s), NEW i, NEW x, NEW t, t = [s EXCEPT ![i] = x]
    PROVE  IsList(t)
<1>1. PICK n \in Nat : s \in [1..n -> {s[j] : j \in DOMAIN s}]
  BY SeqDef DEF IsList
<1>2. DOMAIN t = 1..n /\ t = [j \in 1..n |-> t[j]]
  BY <1>1
<1>3. t \in [1..n -> {t[j] : j \in DOMAIN t}]
  BY <1>2
<1>4. \A S : [1..n -> S] \subseteq Seq(S)
  BY SeqDef
<1> QED
  BY <1>2, <1>3, <1>4, Zenon DEF IsList

\* Of finitely many positions one is the last.
LEMMA LastPosition ==
    ASSUME NEW top \in Nat, NEW D \in SUBSET (1..top), D # {}
    PROVE  \E d \in D : \A c \in D : c <= d
<1> DEFINE Left == {top - d : d \in D}
           R == OpToRel(<, Nat)
<1>1. Left \subseteq Nat /\ Left # {}
  <2>1. \A d \in D : top - d \in Nat
    OBVIOUS
  <2>2. PICK d \in D : TRUE
    OBVIOUS
  <2>3. top - d \in Left
    OBVIOUS
  <2> QED
    BY <2>1, <2>3
<1>2. PICK x \in Left : \A y \in Left : << y, x >> \notin R
  <2>1. IsWellFoundedOn(R, Nat)
    BY NatLessThanWellFounded
  <2> HIDE DEF Left, R
  <2> QED
    BY <2>1, <1>1, WFMin
<1>3. \A y \in Left : ~ (y < x)
  BY <1>1, <1>2 DEF OpToRel
<1>4. PICK d \in D : x = top - d
  OBVIOUS
<1>5. \A c \in D : c <= d
  <2> TAKE c \in D
  <2>1. top - c \in Left
    OBVIOUS
  <2>2. c \in Nat /\ d \in Nat
    OBVIOUS
  <2> QED
    BY <1>3, <1>4, <2>1, <2>2
<1> QED
  BY <1>5

\* The newest record of a workflow is one of its executions (n8n_client.py 136-141).
LEMMA NewestRecord ==
    ASSUME Lists, NEW w
    PROVE  /\ LatestExecution(w) \in Nat
           /\ LatestExecution(w) # 0 => LatestExecution(w) \in Records(w)
           /\ LatestExecution(w) = 0 => Records(w) = {}
<1>1. CASE Records(w) = {}
  BY <1>1 DEF LatestExecution
<1>2. CASE Records(w) # {}
  <2>1. PICK n \in Nat : DOMAIN executions = 1..n
    BY DEF Lists
  <2>2. Records(w) \in SUBSET (1..n)
    BY <2>1 DEF Records
  <2>6. \E x \in Records(w) : \A y \in Records(w) : y <= x
    BY <1>2, <2>2, LastPosition
  <2>7. LatestExecution(w) \in Records(w)
    BY <1>2, <2>6 DEF LatestExecution
  <2>8. \A y \in Records(w) : y \in Nat \ {0}
    BY <2>1 DEF Records
  <2> QED
    BY <1>2, <2>7, <2>8
<1> QED
  BY <1>1, <1>2

\* The steps of an engine that concern its mocks, its executions and its results.
LEMMA RunStep ==
    ASSUME IInv, UNCHANGED env, NEW e \in Engine,
           \/ OpenMocks(e) \/ Trigger(e) \/ Poll(e) \/ CloseMocks(e) \/ MapAndDelete(e)
    PROVE  Served'
<1>1. /\ Sound(e, engine[e]) /\ engine \in [Engine -> EngineState]
      /\ engine[e] \in EngineState /\ Lists
  BY DEF IInv, Engines
<1>2. UNCHANGED << published, workflows, excused >>
  BY DEF OpenMocks, Trigger, Poll, CloseMocks, MapAndDelete, n8nvars
<1>3. engine[e].pc \notin Keeping
  BY DEF OpenMocks, Trigger, Poll, CloseMocks, MapAndDelete, Keeping
<1>4. CASE OpenMocks(e)
  <2>1. /\ engine' = [engine EXCEPT ![e].pc = "trigger", ![e].run = Len(runs')]
        /\ engine[e].pc = "open"
        /\ runs' = Append(runs, Mocks!NewRun(Path(e), engine[e].test))
    BY <1>4 DEF OpenMocks, Mocks!Open
  <2>2. Len(runs') \in Nat
    BY <1>1, <2>1, GrownList DEF Lists
  <2>3. PICK q : q = [engine[e] EXCEPT !.pc = "trigger", !.run = Len(runs')]
    OBVIOUS
  <2>4. /\ q \in EngineState /\ q.pc = "trigger" /\ q.version = engine[e].version
        /\ q.wf = engine[e].wf
    BY <1>1, <2>2, <2>3 DEF EngineState, Pc
  <2>5. Sound(e, q)
    BY <1>1, <2>1, <2>4 DEF Sound, Keeping, Using
  <2> QED
    BY <1>1, <1>2, <1>3, <2>1, <2>3, <2>5, QuietStep
<1>5. CASE Poll(e)
  <2>1. PICK x : x = LatestExecution(engine[e].wf)
    OBVIOUS
  <2>2. engine' = [engine EXCEPT ![e].pc = "close", ![e].exec = x] /\ x \in Nat
    BY <1>1, <1>5, <2>1, NewestRecord DEF Poll
  <2>3. PICK q : q = [engine[e] EXCEPT !.pc = "close", !.exec = x]
    OBVIOUS
  <2>4. q \in EngineState /\ q.pc = "close"
    BY <1>1, <2>2, <2>3 DEF EngineState, Pc
  <2>5. Sound(e, q)
    BY <2>4 DEF Sound, Keeping, Using
  <2> QED
    BY <1>1, <1>2, <1>3, <2>2, <2>3, <2>5, QuietStep
<1>6. CASE CloseMocks(e) /\ engine[e].raising
  <2>1. engine' = [engine EXCEPT ![e].pc = "idle", ![e].raising = FALSE]
    BY <1>6 DEF CloseMocks, Raise
  <2>2. PICK q : q = [engine[e] EXCEPT !.pc = "idle", !.raising = FALSE]
    OBVIOUS
  <2>3. q \in EngineState /\ q.pc = "idle"
    BY <1>1, <2>2 DEF EngineState, Pc
  <2>4. Sound(e, q)
    BY <2>3 DEF Sound, Keeping, Using
  <2> QED
    BY <1>1, <1>2, <1>3, <2>1, <2>2, <2>4, QuietStep
<1>7. CASE Trigger(e)
  <2>1. PICK q : q = [engine[e] EXCEPT !.pc = "wait"]
    OBVIOUS
  <2>2. engine' = [engine EXCEPT ![e] = q] /\ engine[e].pc = "trigger"
    BY <1>1, <1>7, <2>1 DEF Trigger, Goto
  <2>3. /\ q \in EngineState /\ q.pc = "wait" /\ q.version = engine[e].version
        /\ q.wf = engine[e].wf
    BY <1>1, <2>1 DEF EngineState, Pc
  <2>4. Sound(e, q)
    BY <1>1, <2>2, <2>3 DEF Sound, Keeping, Using
  <2> QED
    BY <1>2, <1>3, <2>2, <2>4, QuietStep
<1>8. CASE MapAndDelete(e) \/ (CloseMocks(e) /\ ~ engine[e].raising)
  <2>1. PICK pc \in {"idle", "map"} : engine' = [engine EXCEPT ![e].pc = pc]
    BY <1>8 DEF MapAndDelete, CloseMocks, Goto
  <2>2. PICK q : q = [engine[e] EXCEPT !.pc = pc]
    OBVIOUS
  <2>3. engine' = [engine EXCEPT ![e] = q] /\ q.pc = pc /\ q \in EngineState
    BY <1>1, <2>1, <2>2 DEF EngineState, Pc
  <2>4. Sound(e, q)
    BY <2>3 DEF Sound, Keeping, Using
  <2> QED
    BY <1>2, <1>3, <2>3, <2>4, QuietStep
<1> QED
  BY <1>4, <1>5, <1>6, <1>7, <1>8

\* One request that adds a workflow to n8n: it has an id of its own, belongs to the engine
\* that asked, and no other workflow changes hands.
LEMMA CreateStep ==
    ASSUME IInv, UNCHANGED env, NEW e \in Engine, CreateWorkflow(e) \/ CreateFails(e)
    PROVE  Served'
<1>1. /\ Sound(e, engine[e]) /\ engine \in [Engine -> EngineState]
      /\ engine[e] \in EngineState /\ engine[e].pc = "create"
  BY DEF IInv, Engines, CreateWorkflow, CreateFails
<1>2. PICK n, v : n = Len(workflows) + 1 /\ v = engine[e].version
  OBVIOUS
<1>3. /\ workflows \in Seq(Workflow) /\ published \in [Engine -> [Version -> Nat]]
      /\ v \in Version
  BY <1>1, <1>2 DEF IInv, Tables, EngineState
<1>4. UNCHANGED published
  BY DEF CreateWorkflow, CreateFails
<1>5. ASSUME NEW q, q \in EngineState, q.pc = "idle", engine' = [engine EXCEPT ![e] = q],
             UNCHANGED << workflows, excused >>
      PROVE  Served'
  <2>1. Sound(e, q)
    BY <1>5 DEF Sound, Keeping, Using
  <2> QED
    BY <1>1, <1>4, <1>5, <2>1, QuietStep DEF Keeping
<1>6. ASSUME NEW q, q \in EngineState, engine' = [engine EXCEPT ![e] = q],
             workflows' = Created(Path(e), engine[e].version),
             \/ q.pc = "idle" /\ excused' = excused \cup {n}
             \/ /\ q.pc = "publish" /\ q.wf = n /\ q.version = v
                /\ UNCHANGED excused
      PROVE  Served'
  <2>1. /\ workflows' \in Seq(Workflow) /\ n \in Nat \ {0} /\ n \notin DOMAIN workflows
        /\ DOMAIN workflows' = DOMAIN workflows \cup {n}
        /\ \A w \in DOMAIN workflows : workflows'[w] = workflows[w]
        /\ workflows'[n] = [path |-> e, version |-> v, exists |-> TRUE, active |-> FALSE]
    <3>1. workflows' = Append(workflows, [path |-> Path(e), version |-> v, exists |-> TRUE,
                                          active |-> FALSE])
      BY <1>2, <1>6 DEF Created
    <3> QED
      BY <1>2, <1>3, <3>1, CreatedRows
  <2>2. WorkflowsKept
    BY <2>1 DEF WorkflowsKept, Owned
  <2>3. Sound(e, q)'
    <3>1. CASE q.pc = "idle"
      BY <1>6, <3>1 DEF Sound, Keeping, Using
    <3>2. CASE q.pc = "publish" /\ q.wf = n /\ q.version = v
      <4>1. Owned(e, v, n)'
        BY <2>1 DEF Owned
      <4>2. published'[e][v] = 0
        BY <1>1, <1>2, <1>4 DEF Sound
      <4> QED
        BY <1>6, <3>2, <4>1, <4>2 DEF Sound, Keeping, Using
    <3> QED
      BY <1>6, <3>1, <3>2
  <2>4. Engines'
    BY <1>4, <1>6, <2>2, <2>3, EngineStep DEF IInv
  <2>5. Cache'
    <3> SUFFICES ASSUME NEW o \in Engine, NEW u \in Version PROVE Entry(o, u)'
      BY DEF Cache
    <3> QED
      BY <1>4, <1>6, <2>1 DEF IInv, Cache, Entry, Owned
  <2>6. OrphansAreExcused'
    <3> SUFFICES ASSUME NEW w \in DOMAIN workflows', workflows'[w].exists, w \notin excused',
                        NEW o, o = workflows'[w].path,
                        published[o][workflows'[w].version] # w
                 PROVE  engine'[o].wf = w /\ engine'[o].pc \in Keeping
      BY <1>4 DEF OrphansAreExcused, Exists, Keeping
    <3>1. CASE w = n
      BY <1>1, <1>6, <2>1, <3>1 DEF Keeping
    <3>2. CASE w \in DOMAIN workflows
      <4>1. engine[o].wf = w /\ engine[o].pc \in Keeping
        BY <1>6, <2>1, <3>2 DEF IInv, OrphansAreExcused, Exists, Keeping
      <4>2. o # e
        BY <1>1, <4>1 DEF Keeping
      <4>3. o \in Engine
        <5>1. workflows[w] \in Workflow
          BY <1>3, <3>2
        <5> QED
          BY <2>1, <3>2, <5>1 DEF Workflow
      <4> QED
        BY <1>1, <1>6, <4>1, <4>2, <4>3
    <3> QED
      BY <2>1, <3>1, <3>2
  <2> QED
    BY <1>3, <1>4, <2>1, <2>4, <2>5, <2>6 DEF Served, Tables, IInv
<1>7. CASE CreateFails(e)
  <2>1. PICK q : q = [engine[e] EXCEPT !.pc = "idle", !.raising = FALSE]
    OBVIOUS
  <2>2. engine' = [engine EXCEPT ![e] = q]
    BY <1>1, <1>7, <2>1 DEF CreateFails, Raise
  <2>3. q \in EngineState /\ q.pc = "idle"
    BY <1>1, <2>1 DEF EngineState, Pc
  <2>4. CASE UNCHANGED << workflows, excused >>
    BY <1>5, <2>2, <2>3, <2>4
  <2>5. CASE /\ workflows' = Created(Path(e), engine[e].version)
             /\ excused' = excused \cup {Len(workflows')}
    <3>1. Len(workflows') = n
      BY <1>2, <1>3, <2>5, CreatedRows DEF Created
    <3> QED
      BY <1>6, <2>2, <2>3, <2>5, <3>1
  <2> QED
    BY <1>7, <2>4, <2>5 DEF CreateFails
<1>8. CASE CreateWorkflow(e)
  <2>1. workflows' = Created(Path(e), engine[e].version) /\ UNCHANGED excused
    BY <1>8 DEF CreateWorkflow
  <2>2. Len(workflows') = n /\ n \in Nat
    BY <1>2, <1>3, <2>1, CreatedRows DEF Created
  <2>3. PICK q : q = [engine[e] EXCEPT !.pc = "publish", !.wf = n]
    OBVIOUS
  <2>4. engine' = [engine EXCEPT ![e] = q]
    BY <1>1, <1>8, <2>2, <2>3 DEF CreateWorkflow
  <2>5. q \in EngineState /\ q.pc = "publish" /\ q.wf = n /\ q.version = v
    BY <1>1, <1>2, <2>2, <2>3 DEF EngineState, Pc
  <2> QED
    BY <1>6, <2>1, <2>4, <2>5
<1> QED
  BY <1>7, <1>8

\* n8n changes the flags of workflow w and of no other.
Touched(w) == /\ workflows' \in Seq(Workflow) /\ DOMAIN workflows' = DOMAIN workflows
              /\ \A u \in DOMAIN workflows : u # w => workflows'[u] = workflows[u]
              /\ workflows'[w].path = workflows[w].path
              /\ workflows'[w].version = workflows[w].version

\* A step on the workflow in hand, which is in no cache, so none has a stale entry after.
LEMMA HandStep ==
    ASSUME IInv, UNCHANGED << env, published >>, NEW e \in Engine, NEW q, Sound(e, q)',
           engine' = [engine EXCEPT ![e] = q], engine[e].pc \in Keeping,
           NEW w, w = engine[e].wf, Touched(w), excused \subseteq excused',
           \/ q.pc \in Keeping /\ q.wf = w
           \/ ~ workflows'[w].exists
           \/ w \in excused'
    PROVE  Served'
<1>1. /\ engine \in [Engine -> EngineState] /\ Owned(e, engine[e].version, w)
      /\ published[e][engine[e].version] = 0
  BY DEF IInv, Engines, Sound
<1>2. WorkflowsKept
  BY <1>1 DEF WorkflowsKept, Owned, Touched
<1>3. Engines'
  BY <1>2, EngineStep DEF IInv
<1>4. Cache'
  <2> SUFFICES ASSUME NEW o \in Engine, NEW u \in Version, NEW x, x = published[o][u], x # 0
               PROVE  /\ Owned(o, u, x)'
                      /\ x \notin excused' => workflows'[x].exists /\ workflows'[x].active
    BY DEF Cache, Entry, Owned
  <2>1. /\ Owned(o, u, x)
        /\ x \notin excused => workflows[x].exists /\ workflows[x].active
    BY DEF IInv, Cache, Entry
  <2>2. x # w
    BY <1>1, <2>1 DEF Owned
  <2> QED
    BY <1>2, <2>1, <2>2 DEF WorkflowsKept, Touched, Owned
<1>5. OrphansAreExcused'
  <2> SUFFICES ASSUME NEW u \in DOMAIN workflows', workflows'[u].exists, u \notin excused',
                      NEW o, o = workflows'[u].path,
                      published[o][workflows'[u].version] # u
               PROVE  engine'[o].wf = u /\ engine'[o].pc \in Keeping
    BY DEF OrphansAreExcused, Exists, Keeping
  <2>1. u \in DOMAIN workflows /\ o = workflows[u].path /\ o \in Engine
    <3>1. u \in DOMAIN workflows /\ workflows'[u] \in Workflow
      BY DEF Touched
    <3> QED
      BY <3>1 DEF Touched, Workflow
  <2>2. CASE u = w
    BY <1>1, <2>1, <2>2 DEF Owned
  <2>3. CASE u # w
    <3>1. engine[o].wf = u /\ engine[o].pc \in Keeping
      BY <2>1, <2>3 DEF Touched, IInv, OrphansAreExcused, Exists, Keeping
    <3> QED
      BY <1>1, <2>1, <2>3, <3>1
  <2> QED
    BY <2>2, <2>3
<1> QED
  BY <1>3, <1>4, <1>5 DEF Served, Tables, IInv, Touched

\* What a request that publishes, unpublishes or deletes workflow w does to the rows.
LEMMA FlagsTouched ==
    ASSUME Tables, NEW w \in DOMAIN workflows,
           \/ UNCHANGED workflows
           \/ \E b \in BOOLEAN : workflows' = SetActive(w, b)
           \/ workflows' = Removed(w)
    PROVE  /\ Touched(w)
           /\ workflows' = Removed(w) => ~ workflows'[w].exists /\ ~ workflows'[w].active
           /\ \A b \in BOOLEAN : workflows' = SetActive(w, b) =>
                  workflows'[w].active = b /\ workflows'[w].exists = workflows[w].exists
<1>1. workflows \in Seq(Workflow) /\ workflows[w] \in Workflow
  BY DEF Tables
<1>2. workflows[w].exists \in BOOLEAN /\ FALSE \in BOOLEAN /\ TRUE \in BOOLEAN
  BY <1>1 DEF Workflow
<1>3. ASSUME UNCHANGED workflows PROVE Touched(w)
  BY <1>1, <1>3 DEF Touched
<1>4. ASSUME NEW b \in BOOLEAN, workflows' = SetActive(w, b)
      PROVE  /\ Touched(w) /\ workflows'[w].exists = workflows[w].exists
             /\ workflows'[w].active = b
  <2>1. PICK row : row = [workflows[w] EXCEPT !.active = b]
    OBVIOUS
  <2>2. /\ row \in Workflow /\ row.path = workflows[w].path
        /\ row.version = workflows[w].version
        /\ row.exists = workflows[w].exists /\ row.active = b
    BY <1>1, <2>1 DEF Workflow
  <2>3. workflows' = [workflows EXCEPT ![w] = row]
    BY <1>4, <2>1 DEF SetActive
  <2> QED
    BY <1>1, <2>2, <2>3 DEF Touched
<1>5. ASSUME workflows' = Removed(w)
      PROVE  Touched(w) /\ ~ workflows'[w].exists /\ ~ workflows'[w].active
  <2>1. PICK row : row = [workflows[w] EXCEPT !.exists = FALSE, !.active = FALSE]
    OBVIOUS
  <2>2. /\ row \in Workflow /\ row.path = workflows[w].path
        /\ row.version = workflows[w].version /\ ~ row.exists /\ ~ row.active
    BY <1>1, <2>1 DEF Workflow
  <2>3. workflows' = [workflows EXCEPT ![w] = row]
    BY <1>5, <2>1 DEF Removed
  <2> QED
    BY <1>1, <2>2, <2>3 DEF Touched
<1>6. Touched(w)
  BY <1>3, <1>4, <1>5
<1> QED
  BY <1>4, <1>5, <1>6

\* Discard, unpublish, delete, and a publication that fails.
LEMMA DropStep ==
    ASSUME IInv, UNCHANGED env, NEW e \in Engine,
           PublishFails(e) \/ Discard(e) \/ Unpublish(e) \/ DeleteWorkflow(e)
    PROVE  Served'
<1>1. /\ engine \in [Engine -> EngineState] /\ engine[e] \in EngineState
      /\ engine[e].pc \in Keeping /\ Sound(e, engine[e])
  BY DEF IInv, Engines, PublishFails, Discard, Unpublish, DeleteWorkflow, Keeping
<1>2. PICK w, v : w = engine[e].wf /\ v = engine[e].version
  OBVIOUS
<1>3. Owned(e, v, w) /\ published[e][v] = 0 /\ w \in DOMAIN workflows
  BY <1>1, <1>2 DEF Sound, Owned
<1>4. UNCHANGED published /\ excused \subseteq excused'
  BY DEF PublishFails, Discard, Unpublish, DeleteWorkflow, TolerantDelete
<1>5. \/ UNCHANGED workflows
      \/ \E b \in BOOLEAN : workflows' = SetActive(w, b)
      \/ workflows' = Removed(w)
  BY <1>2 DEF PublishFails, Discard, Unpublish, DeleteWorkflow, TolerantDelete
<1>6. Touched(w) /\ (workflows' = Removed(w) => ~ workflows'[w].exists)
  BY <1>3, <1>5, FlagsTouched DEF IInv
<1>7. Owned(e, v, w)'
  BY <1>3, <1>6 DEF Owned, Touched
<1>8. CASE Discard(e)
  <2>1. PICK q : q = [engine[e] EXCEPT !.pc = "idle", !.raising = FALSE]
    OBVIOUS
  <2>2. engine' = [engine EXCEPT ![e] = q]
    BY <1>1, <1>8, <2>1 DEF Discard, Raise
  <2>3. q \in EngineState /\ q.pc = "idle"
    BY <1>1, <2>1 DEF EngineState, Pc
  <2>4. Sound(e, q)'
    BY <2>3 DEF Sound, Keeping, Using
  <2>5. ~ workflows'[w].exists \/ w \in excused'
    BY <1>2, <1>6, <1>8 DEF Discard, TolerantDelete
  <2> QED
    BY <1>1, <1>2, <1>4, <1>6, <2>2, <2>4, <2>5, HandStep
<1>9. CASE DeleteWorkflow(e)
  <2>1. PICK pc \in {"close", "release"} : engine' = [engine EXCEPT ![e].pc = pc]
    BY <1>9 DEF DeleteWorkflow, Goto
  <2>2. PICK q : q = [engine[e] EXCEPT !.pc = pc]
    OBVIOUS
  <2>3. engine' = [engine EXCEPT ![e] = q] /\ q.pc = pc /\ q \in EngineState
    BY <1>1, <2>1, <2>2 DEF EngineState, Pc
  <2>4. Sound(e, q)'
    BY <2>3 DEF Sound, Keeping, Using
  <2>5. ~ workflows'[w].exists \/ w \in excused'
    BY <1>2, <1>6, <1>9 DEF DeleteWorkflow, TolerantDelete
  <2> QED
    BY <1>1, <1>2, <1>4, <1>6, <2>3, <2>4, <2>5, HandStep
<1>10. CASE PublishFails(e) \/ Unpublish(e)
  <2>1. PICK pc \in {"discard", "delete"} : engine' = [engine EXCEPT ![e].pc = pc]
    BY <1>10 DEF PublishFails, Unpublish, Goto
  <2>2. PICK q : q = [engine[e] EXCEPT !.pc = pc]
    OBVIOUS
  <2>3. /\ engine' = [engine EXCEPT ![e] = q] /\ q.pc = pc /\ q \in EngineState
        /\ q.version = v /\ q.wf = w
    BY <1>1, <1>2, <2>1, <2>2 DEF EngineState, Pc
  <2>4. Sound(e, q)' /\ q.pc \in Keeping
    BY <1>3, <1>4, <1>7, <2>3 DEF Sound, Keeping, Using
  <2> QED
    BY <1>1, <1>2, <1>4, <1>6, <2>3, <2>4, HandStep
<1> QED
  BY <1>8, <1>9, <1>10

\* The workflow in hand is published and cached: the place in the cache was empty.
LEMMA PublishStep ==
    ASSUME IInv, UNCHANGED env, NEW e \in Engine, Publish(e)
    PROVE  Served'
<1>1. /\ engine \in [Engine -> EngineState] /\ engine[e] \in EngineState
      /\ engine[e].pc = "publish" /\ Sound(e, engine[e])
      /\ published \in [Engine -> [Version -> Nat]] /\ workflows \in Seq(Workflow)
  BY DEF IInv, Engines, Tables, Publish
<1>2. PICK w, v : w = engine[e].wf /\ v = engine[e].version
  OBVIOUS
<1>3. /\ Owned(e, v, w) /\ published[e][v] = 0 /\ w \in DOMAIN workflows /\ v \in Version
      /\ w \in Nat \ {0}
  BY <1>1, <1>2 DEF Sound, Owned, Keeping, EngineState
<1>4. /\ workflows' = SetActive(w, TRUE) /\ workflows[w].exists /\ UNCHANGED excused
      /\ published' = [published EXCEPT ![e] = [@ EXCEPT ![v] = w]]
  BY <1>2 DEF Publish, Publishable, Exists
<1>5. TRUE \in BOOLEAN
  OBVIOUS
<1>6. Touched(w) /\ workflows'[w].active /\ workflows'[w].exists
  BY <1>3, <1>4, <1>5, FlagsTouched DEF IInv
<1>7. WorkflowsKept
  BY <1>6 DEF WorkflowsKept, Owned, Touched
<1>8. /\ published' \in [Engine -> [Version -> Nat]] /\ published'[e][v] = w
      /\ \A o \in Engine, u \in Version :
             o # e \/ u # v => published'[o][u] = published[o][u]
      /\ \A o \in Engine : o # e => published'[o] = published[o]
  BY <1>1, <1>3, <1>4
<1>9. PICK q : q = [engine[e] EXCEPT !.pc = "open"]
  OBVIOUS
<1>10. /\ engine' = [engine EXCEPT ![e] = q] /\ q \in EngineState /\ q.pc = "open"
       /\ q.wf = w /\ q.version = v
  BY <1>1, <1>2, <1>9 DEF Publish, Goto, EngineState, Pc
<1>11. Owned(e, v, w)'
  BY <1>3, <1>6 DEF Owned, Touched
<1>12. Sound(e, q)'
  BY <1>8, <1>10, <1>11 DEF Sound, Keeping, Using
<1>13. Engines'
  BY <1>7, <1>8, <1>10, <1>12, EngineStep DEF IInv
<1>14. Cache'
  <2> SUFFICES ASSUME NEW o \in Engine, NEW u \in Version PROVE Entry(o, u)'
    BY DEF Cache
  <2> PICK x : x = published'[o][u]
    OBVIOUS
  <2>1. CASE o = e /\ u = v
    BY <1>6, <1>8, <1>11, <2>1 DEF Entry, Owned
  <2>2. CASE o # e \/ u # v
    <3>1. x # 0 => /\ Owned(o, u, x)
                   /\ x \notin excused => workflows[x].exists /\ workflows[x].active
      BY <1>8, <2>2 DEF IInv, Cache, Entry
    <3>2. x # 0 => x # w
      BY <1>3, <2>2, <3>1 DEF Owned
    <3>3. x # 0 => /\ Owned(o, u, x)'
                   /\ x \notin excused => workflows'[x].exists /\ workflows'[x].active
      BY <1>6, <1>7, <3>1, <3>2 DEF WorkflowsKept, Touched, Owned
    <3> QED
      BY <1>4, <3>3 DEF Entry, Owned
  <2> QED
    BY <2>1, <2>2
<1>15. OrphansAreExcused'
  <2> SUFFICES ASSUME NEW u \in DOMAIN workflows', workflows'[u].exists, u \notin excused,
                      NEW o, o = workflows'[u].path,
                      published'[o][workflows'[u].version] # u
               PROVE  engine'[o].wf = u /\ engine'[o].pc \in Keeping
    BY <1>4 DEF OrphansAreExcused, Exists, Keeping
  <2> PICK x : x = workflows'[u].version
    OBVIOUS
  <2>1. /\ u \in DOMAIN workflows /\ workflows[u] \in Workflow
        /\ o = workflows[u].path /\ x = workflows[u].version
    <3>1. u \in DOMAIN workflows
      BY <1>6 DEF Touched
    <3>2. /\ workflows'[u].path = workflows[u].path
          /\ workflows'[u].version = workflows[u].version
      BY <1>6, <3>1 DEF Touched
    <3> QED
      BY <1>1, <3>1, <3>2
  <2>2. o \in Engine /\ x \in Version /\ u # 0
    BY <1>1, <2>1 DEF Workflow
  <2>3. u # w
    BY <1>3, <1>8, <2>1 DEF Owned
  <2>4. workflows[u].exists /\ published[o][x] # u
    <3>1. workflows[u].exists
      BY <1>6, <2>1, <2>3 DEF Touched
    <3>2. CASE o = e /\ x = v
      BY <1>3, <2>2, <3>1, <3>2
    <3>3. CASE o # e \/ x # v
      BY <1>8, <2>2, <3>1, <3>3
    <3> QED
      BY <3>2, <3>3
  <2>5. engine[o].wf = u /\ engine[o].pc \in Keeping
    BY <2>1, <2>4 DEF IInv, OrphansAreExcused, Exists, Keeping
  <2>6. o # e
    BY <1>2, <2>3, <2>5
  <2> QED
    BY <1>1, <1>10, <2>2, <2>5, <2>6
<1> QED
  BY <1>6, <1>8, <1>13, <1>14, <1>15 DEF Served, Tables, IInv, Touched

\* An entry is taken out of the cache, and its workflow is in hand from then on.
LEMMA PopStep ==
    ASSUME IInv, UNCHANGED << workflows, excused, env >>, NEW e \in Engine, NEW v \in Version,
           NEW q, q \in EngineState, engine' = [engine EXCEPT ![e] = q],
           engine[e].pc \notin Keeping, published[e][v] # 0,
           q.pc = "unpublish", q.version = v, q.wf = published[e][v],
           published' = [published EXCEPT ![e] = [@ EXCEPT ![v] = 0]]
    PROVE  Served'
<1>1. published \in [Engine -> [Version -> Nat]] /\ engine \in [Engine -> EngineState]
  BY DEF IInv, Tables, Engines
<1>2. /\ published' \in [Engine -> [Version -> Nat]] /\ published'[e][v] = 0
      /\ \A o \in Engine, u \in Version :
             o # e \/ u # v => published'[o][u] = published[o][u]
      /\ \A o \in Engine : o # e => published'[o] = published[o]
  BY <1>1
<1>3. WorkflowsKept
  BY DEF WorkflowsKept, Owned
<1>4. Owned(e, v, q.wf)
  BY DEF IInv, Cache, Entry
<1>5. Sound(e, q)'
  BY <1>2, <1>4 DEF Sound, Owned, Keeping, Using
<1>6. Engines'
  BY <1>2, <1>3, <1>5, EngineStep DEF IInv
<1>7. Cache'
  <2> SUFFICES ASSUME NEW o \in Engine, NEW u \in Version PROVE Entry(o, u)'
    BY DEF Cache
  <2>1. Entry(o, u) /\ (published'[o][u] = 0 \/ published'[o][u] = published[o][u])
    BY <1>2 DEF IInv, Cache
  <2> QED
    BY <2>1 DEF Entry, Owned
<1>8. OrphansAreExcused'
  <2> SUFFICES ASSUME NEW w \in DOMAIN workflows, workflows[w].exists, w \notin excused,
                      NEW o, o = workflows[w].path,
                      NEW x, x = workflows[w].version, published'[o][x] # w
               PROVE  engine'[o].wf = w /\ engine'[o].pc \in Keeping
    BY DEF OrphansAreExcused, Exists, Keeping
  <2>1. o \in Engine /\ x \in Version
    <3>1. workflows[w] \in Workflow
      BY DEF IInv, Tables
    <3> QED
      BY <3>1 DEF Workflow
  <2>2. CASE published[o][x] = w
    <3>1. o = e /\ x = v
      BY <1>2, <2>1, <2>2
    <3> QED
      BY <1>1, <2>2, <3>1 DEF Keeping
  <2>3. CASE published[o][x] # w
    <3>1. engine[o].wf = w /\ engine[o].pc \in Keeping
      BY <2>3 DEF IInv, OrphansAreExcused, Exists, Keeping
    <3> QED
      BY <1>1, <2>1, <3>1
  <2> QED
    BY <2>2, <2>3
<1> QED
  BY <1>2, <1>6, <1>7, <1>8 DEF Served, Tables, IInv

\* A failed trigger or poll, and the release of what is cached.
LEMMA FailStep ==
    ASSUME IInv, UNCHANGED env, NEW e \in Engine, TriggerFails(e) \/ PollFails(e) \/ Release(e)
    PROVE  Served'
<1>1. /\ engine \in [Engine -> EngineState] /\ engine[e] \in EngineState
      /\ Sound(e, engine[e]) /\ engine[e].pc \notin Keeping
      /\ published \in [Engine -> [Version -> Nat]]
  BY DEF IInv, Engines, Tables, TriggerFails, PollFails, Release, Keeping
<1>2. UNCHANGED << workflows, excused >>
  BY DEF TriggerFails, PollFails, Release, n8nvars
<1>3. CASE TriggerFails(e) \/ PollFails(e)
  <2>1. PICK v : v = engine[e].version
    OBVIOUS
  <2>2. /\ v \in Version /\ published[e][v] = engine[e].wf /\ published[e][v] # 0
    <3>1. Owned(e, v, engine[e].wf) /\ published[e][v] = engine[e].wf
      BY <1>1, <1>3, <2>1 DEF TriggerFails, PollFails, Sound, Using
    <3>2. engine[e].wf # 0
      BY <3>1 DEF Owned, IInv, Tables
    <3> QED
      BY <1>1, <2>1, <3>1, <3>2 DEF EngineState
  <2>3. PICK q : q = [engine[e] EXCEPT !.pc = "unpublish", !.raising = TRUE]
    OBVIOUS
  <2>4. engine' = [engine EXCEPT ![e] = q]
    BY <1>1, <1>3, <2>3 DEF TriggerFails, PollFails, FailRun
  <2>5. q \in EngineState /\ q.pc = "unpublish" /\ q.version = v /\ q.wf = published[e][v]
    BY <1>1, <2>1, <2>2, <2>3 DEF EngineState, Pc
  <2>6. published' = [published EXCEPT ![e] = [@ EXCEPT ![v] = 0]]
    BY <1>3, <2>1 DEF TriggerFails, PollFails, FailRun, Popped
  <2> QED
    BY <1>1, <1>2, <2>2, <2>4, <2>5, <2>6, PopStep
<1>4. CASE Release(e)
  <2>1. CASE Goto(e, "released") /\ UNCHANGED published
    <3>1. PICK q : q = [engine[e] EXCEPT !.pc = "released"]
      OBVIOUS
    <3>2. engine' = [engine EXCEPT ![e] = q] /\ q \in EngineState /\ q.pc = "released"
      BY <1>1, <2>1, <3>1 DEF Goto, EngineState, Pc, Stopped
    <3>3. Sound(e, q)
      BY <3>2 DEF Sound, Keeping, Using
    <3> QED
      BY <1>1, <1>2, <2>1, <3>2, <3>3, QuietStep
  <2>2. CASE \E v \in {u \in Version : published[e][u] # 0} :
                 /\ engine' = [engine EXCEPT ![e].pc = "unpublish", ![e].version = v,
                                             ![e].wf = published[e][v]]
                 /\ published' = [published EXCEPT ![e] = [@ EXCEPT ![v] = 0]]
    <3>1. PICK v \in {u \in Version : published[e][u] # 0} :
                 /\ engine' = [engine EXCEPT ![e].pc = "unpublish", ![e].version = v,
                                             ![e].wf = published[e][v]]
                 /\ published' = [published EXCEPT ![e] = [@ EXCEPT ![v] = 0]]
      BY <2>2
    <3>2. PICK w, q : /\ w = published[e][v]
                      /\ q = [engine[e] EXCEPT !.pc = "unpublish", !.version = v, !.wf = w]
      OBVIOUS
    <3>3. engine' = [engine EXCEPT ![e] = q] /\ w \in Nat /\ v \in Version /\ w # 0
      BY <1>1, <3>1, <3>2
    <3>4. q \in EngineState /\ q.pc = "unpublish" /\ q.version = v /\ q.wf = w
      BY <1>1, <3>2, <3>3 DEF EngineState, Pc
    <3> QED
      <4>1. published' = [published EXCEPT ![e] = [@ EXCEPT ![v] = 0]]
        BY <3>1
      <4>2. published[e][v] # 0 /\ q.wf = published[e][v]
        BY <3>2, <3>3, <3>4
      <4> QED
        BY <1>1, <1>2, <3>3, <3>4, <4>1, <4>2, PopStep
  <2> QED
    BY <1>4, <2>1, <2>2 DEF Release
<1> QED
  BY <1>3, <1>4

\* A sweep and a crash excuse what they leave behind.
LEMMA SweepStep ==
    ASSUME IInv, UNCHANGED env, NEW e \in Engine, Sweep(e)
    PROVE  Served'
<1>1. PICK S \in SUBSET (DOMAIN workflows) :
          /\ workflows' = [w \in DOMAIN workflows |->
                 IF w \in S THEN [workflows[w] EXCEPT !.exists = FALSE, !.active = FALSE]
                 ELSE workflows[w]]
          /\ excused' = excused \cup S
  BY DEF Sweep
<1>2. UNCHANGED << engine, published >>
  BY DEF Sweep
<1>3. \A w \in DOMAIN workflows :
          /\ workflows'[w] \in Workflow /\ workflows'[w].path = workflows[w].path
          /\ workflows'[w].version = workflows[w].version
          /\ w \notin S => workflows'[w] = workflows[w]
  <2> SUFFICES ASSUME NEW w \in DOMAIN workflows
               PROVE  /\ workflows'[w] \in Workflow /\ workflows'[w].path = workflows[w].path
                      /\ workflows'[w].version = workflows[w].version
                      /\ w \notin S => workflows'[w] = workflows[w]
    OBVIOUS
  <2>1. workflows[w] \in Workflow
    BY DEF IInv, Tables
  <2> QED
    BY <1>1, <2>1 DEF Workflow
<1>4. workflows' \in Seq(Workflow) /\ DOMAIN workflows' = DOMAIN workflows
  <2>1. PICK n \in Nat : DOMAIN workflows = 1..n
    BY DEF IInv, Tables
  <2>2. DOMAIN workflows' = 1..n /\ workflows' \in [1..n -> Workflow]
    BY <1>1, <1>3, <2>1
  <2>3. [1..n -> Workflow] \subseteq Seq(Workflow)
    BY SeqDef
  <2> QED
    BY <2>1, <2>2, <2>3
<1>5. WorkflowsKept
  BY <1>3, <1>4 DEF WorkflowsKept, Owned
<1>6. Engines'
  <2> SUFFICES ASSUME NEW o \in Engine PROVE Sound(o, engine[o])'
    BY <1>2 DEF IInv, Engines
  <2>1. PICK s : s = engine[o]
    OBVIOUS
  <2>2. Sound(o, s)
    BY <2>1 DEF IInv, Engines
  <2>3. Sound(o, s)'
    BY <1>2, <1>5, <2>2 DEF Sound, WorkflowsKept
  <2> QED
    BY <1>2, <2>1, <2>3 DEF Sound, Owned
<1>7. Cache'
  <2> SUFFICES ASSUME NEW o \in Engine, NEW v \in Version PROVE Entry(o, v)'
    BY DEF Cache
  <2>1. Entry(o, v)
    BY DEF IInv, Cache
  <2> QED
    BY <1>1, <1>2, <1>3, <1>4, <2>1 DEF Entry, Owned
<1>8. OrphansAreExcused'
  BY <1>1, <1>2, <1>3, <1>4 DEF IInv, OrphansAreExcused, Exists
<1> QED
  BY <1>2, <1>4, <1>6, <1>7, <1>8 DEF Served, Tables, IInv

LEMMA CrashStep ==
    ASSUME IInv, UNCHANGED env, Crash
    PROVE  Served'
<1>1. /\ engine \in [Engine -> EngineState] /\ \A e \in Engine : Sound(e, engine[e])
      /\ UNCHANGED workflows
      /\ published' = [e \in Engine |-> [v \in Version |-> 0]]
      /\ excused' = excused \cup {w \in DOMAIN workflows : workflows[w].exists}
  BY DEF IInv, Engines, Crash, n8nvars, Exists
<1>2. PICK d : d = [Fresh EXCEPT !.pc = "dead"]
  OBVIOUS
<1>3. \A e \in Engine : /\ engine'[e] = d \/ engine'[e] = engine[e]
                        /\ engine'[e] = engine[e] \/ engine'[e].pc = "dead"
                        /\ engine[e].pc \notin Stopped \cup {"new"} => engine'[e] = d
  BY <1>2, FreshState DEF Crash, EngineState
<1>4. DOMAIN engine' = Engine /\ engine' = [e \in Engine |-> engine'[e]]
  BY DEF Crash
<1>5. d \in EngineState /\ d.pc = "dead"
  BY <1>2, FreshState DEF EngineState, Pc, Stopped
<1>6. Engines'
  <2>1. \A e \in Engine : engine[e] \in EngineState
    BY <1>1
  <2>2. engine' \in [Engine -> EngineState]
    BY <1>3, <1>4, <1>5, <2>1
  <2>3. ASSUME NEW e \in Engine PROVE Sound(e, engine[e])'
    <3>1. CASE engine'[e] = d
      BY <1>5, <3>1 DEF Sound, Keeping, Using
    <3>2. CASE engine'[e] # d
      <4>1. engine[e].pc \in Stopped \cup {"new"} /\ engine'[e] = engine[e]
        BY <1>3, <3>2
      <4>2. engine[e].pc \notin Keeping \cup Using \cup {"create"}
        BY <4>1 DEF Stopped, Keeping, Using
      <4> QED
        BY <2>2, <4>1, <4>2 DEF Sound
    <3> QED
      BY <3>1, <3>2
  <2> QED
    BY <2>2, <2>3 DEF Engines
<1>7. Cache'
  BY <1>1 DEF Cache, Entry
<1>8. OrphansAreExcused'
  BY <1>1 DEF OrphansAreExcused, Exists
<1>9. 0 \in Nat /\ published' \in [Engine -> [Version -> Nat]]
  BY <1>1
<1> QED
  BY <1>1, <1>6, <1>7, <1>8, <1>9 DEF Served, Tables, IInv

\* What n8n, the request threads and the clock do is no engine's business.
LEMMA OtherStep ==
    ASSUME IInv, UNCHANGED << env, engine, published, workflows, excused >>
    PROVE  Served'
<1>1. Engines'
  <2>1. ASSUME NEW e \in Engine PROVE Sound(e, engine[e])'
    BY DEF IInv, Engines, Sound, Owned
  <2> QED
    BY <2>1 DEF IInv, Engines
<1>2. Cache'
  <2> SUFFICES ASSUME NEW e \in Engine, NEW v \in Version PROVE Entry(e, v)'
    BY DEF Cache
  <2> QED
    BY DEF IInv, Cache, Entry, Owned
<1>3. OrphansAreExcused'
  BY DEF IInv, OrphansAreExcused, Exists
<1> QED
  BY <1>1, <1>2, <1>3 DEF Served, Tables, IInv

\* How the lists change.
LEMMA ListsStep ==
    ASSUME IInv, Next
    PROVE  Lists'
<1>1. IsList(runs)'
  <2>1. \/ UNCHANGED runs
        \/ \E x : runs' = Append(runs, x)
        \/ \E i, x : runs' = [runs EXCEPT ![i] = x]
    <3>1. CASE \E e \in Engine : Progress(e)
      BY <3>1 DEF Progress, CreateWorkflow, Publish, PublishFails, Discard, OpenMocks, Trigger,
                  Poll, CloseMocks, MapAndDelete, Unpublish, DeleteWorkflow, Release, mockvars,
                  Mocks!Open, Mocks!Close
    <3>2. CASE \E e \in Engine : NetworkFault(e) \/ Caller(e)
      BY <3>2 DEF NetworkFault, CreateFails, TriggerFails, PollFails, Caller, Build, Finish,
                  Sweep, Simulate, mockvars
    <3>3. CASE N8n \/ (\E h \in Handler : LogCall(h) \/ Answer(h)) \/ Tick \/ Crash
      BY <3>3 DEF N8n, Start, End, CallMock, LogCall, Answer, Tick, Crash, mockvars,
                  Mocks!CountAttempt, Mocks!RefuseUnknownRun, Mocks!LogCall, Mocks!Answer,
                  Mocks!Tick
    <3> QED
      BY <3>1, <3>2, <3>3 DEF Next
  <2> QED
    BY <2>1, GrownList, ChangedList DEF IInv, Lists, IsList
<1>2. IsList(results)'
  <2>1. \/ UNCHANGED results
        \/ \E x : results' = Append(results, x)
    <3>1. CASE \E e \in Engine : Progress(e)
      BY <3>1 DEF Progress, CreateWorkflow, Publish, PublishFails, Discard, OpenMocks, Trigger,
                  Poll, CloseMocks, MapAndDelete, Unpublish, DeleteWorkflow, Release, Raise
    <3>2. CASE \E e \in Engine : NetworkFault(e) \/ Caller(e)
      BY <3>2 DEF NetworkFault, CreateFails, TriggerFails, PollFails, Caller, Build, Finish,
                  Sweep, Simulate, Raise
    <3>3. CASE N8n \/ (\E h \in Handler : LogCall(h) \/ Answer(h)) \/ Tick \/ Crash
      BY <3>3 DEF N8n, Start, End, CallMock, LogCall, Answer, Tick, Crash
    <3> QED
      BY <3>1, <3>2, <3>3 DEF Next
  <2> QED
    BY <2>1, GrownList DEF IInv, Lists, IsList
<1>3. executions' \in Seq(Execution)
  <2> DEFINE States == {"accepted", "running", "finished", "deleted"}
  <2>1. \/ UNCHANGED executions
        \/ \E e \in Engine : executions' = Accepted(Path(e), engine[e].run)
        \/ \E i : \E s \in States : executions' = [executions EXCEPT ![i].state = s]
    <3>1. CASE \E e \in Engine : Progress(e)
      BY <3>1 DEF Progress, CreateWorkflow, Publish, PublishFails, Discard, OpenMocks, Trigger,
                  Poll, CloseMocks, MapAndDelete, Unpublish, DeleteWorkflow, Release, n8nvars
    <3>2. CASE \E e \in Engine : NetworkFault(e) \/ Caller(e)
      BY <3>2 DEF NetworkFault, CreateFails, TriggerFails, PollFails, Caller, Build, Finish,
                  Sweep, Simulate, n8nvars
    <3>3. CASE N8n \/ (\E h \in Handler : LogCall(h) \/ Answer(h)) \/ Tick \/ Crash
      BY <3>3 DEF N8n, Start, End, CallMock, LogCall, Answer, Tick, Crash, n8nvars
    <3> QED
      BY <3>1, <3>2, <3>3 DEF Next
  <2>2. executions \in Seq(Execution)
    BY DEF IInv, Lists
  <2>3. ASSUME NEW i, NEW s \in States, executions' = [executions EXCEPT ![i].state = s]
        PROVE  executions' \in Seq(Execution)
    <3>1. CASE i \in DOMAIN executions
      <4>1. PICK row : row = [executions[i] EXCEPT !.state = s]
        OBVIOUS
      <4>2. executions[i] \in Execution
        BY <2>2, <3>1
      <4>3. executions[i] = [wf |-> executions[i].wf, run |-> executions[i].run,
                             state |-> executions[i].state]
             /\ executions[i].wf \in Nat /\ executions[i].run \in Nat
        BY <4>2 DEF Execution
      <4>4. row = [wf |-> executions[i].wf, run |-> executions[i].run, state |-> s]
        BY <4>1, <4>3
      <4>5. row \in Execution
        BY <2>3, <4>3, <4>4 DEF Execution
      <4>6. executions' = [executions EXCEPT ![i] = row]
        BY <2>3, <4>1
      <4> QED
        BY <2>2, <3>1, <4>5, <4>6
    <3>2. CASE i \notin DOMAIN executions
      <4>1. PICK row : row = [executions[i] EXCEPT !.state = s]
        OBVIOUS
      <4>2. executions' = [executions EXCEPT ![i] = row]
        BY <2>3, <4>1
      <4>3. executions = [j \in DOMAIN executions |-> executions[j]]
        BY <2>2
      <4>4. executions' = [j \in DOMAIN executions |-> executions[j]]
        BY <3>2, <4>2
      <4> QED
        BY <2>2, <4>3, <4>4
    <3> QED
      BY <3>1, <3>2
  <2>4. ASSUME NEW e \in Engine, executions' = Accepted(Path(e), engine[e].run)
        PROVE  executions' \in Seq(Execution)
    <3>1. CASE Active(e) = {}
      BY <2>2, <2>4, <3>1 DEF Accepted, Path
    <3>2. CASE Active(e) # {}
      <4>1. PICK row : row = [wf |-> CHOOSE w \in Active(e) : TRUE, run |-> engine[e].run,
                              state |-> "accepted"]
        OBVIOUS
      <4>2. (CHOOSE w \in Active(e) : TRUE) \in DOMAIN workflows
        BY <3>2 DEF Active
      <4>3. (CHOOSE w \in Active(e) : TRUE) \in Nat
        BY <4>2 DEF IInv, Tables
      <4>4. engine[e] \in EngineState
        BY DEF IInv, Engines
      <4>5. row \in Execution
        BY <4>1, <4>3, <4>4 DEF Execution, EngineState
      <4> QED
        BY <2>2, <2>4, <3>2, <4>1, <4>5 DEF Accepted, Path
    <3> QED
      BY <3>1, <3>2
  <2> QED
    BY <2>1, <2>2, <2>3, <2>4
<1> QED
  BY <1>1, <1>2, <1>3 DEF Lists, IsList

\* In the beginning there is nothing to keep or to cache.
LEMMA Initially == Init => IInv
<1> SUFFICES ASSUME Init PROVE IInv
  OBVIOUS
<1>1. Tables /\ Lists
  BY DEF Init, Mocks!Init, Tables, Lists, IsList
<1>2. Engines /\ Cache /\ OrphansAreExcused
  BY FreshState DEF Init, Engines, Cache, Entry, OrphansAreExcused
<1> QED
  BY <1>1, <1>2 DEF IInv

\* Every step, whoever takes it, keeps the invariant.
LEMMA Inductive == IInv /\ [Next]_vars => IInv'
<1> SUFFICES ASSUME IInv, [Next]_vars PROVE IInv'
  OBVIOUS
<1>1. CASE UNCHANGED vars
  <2>1. Served' /\ Lists'
    BY <1>1, OtherStep DEF vars, IInv, Lists, IsList
  <2> QED
    BY <2>1 DEF Served, IInv
<1>2. CASE Next
  <2>1. UNCHANGED env
    BY <1>2 DEF Next
  <2>2. ASSUME NEW e \in Engine, Progress(e) PROVE Served'
    BY <2>1, <2>2, CreateStep, PublishStep, DropStep, RunStep, FailStep DEF Progress
  <2>3. ASSUME NEW e \in Engine, NetworkFault(e) \/ Caller(e) PROVE Served'
    BY <2>1, <2>3, CreateStep, FailStep, CallerStep, SweepStep DEF NetworkFault, Caller
  <2>4. ASSUME N8n \/ (\E h \in Handler : LogCall(h) \/ Answer(h)) \/ Tick PROVE Served'
    BY <2>1, <2>4, OtherStep DEF N8n, Start, End, CallMock, LogCall, Answer, Tick, n8nvars
  <2>5. ASSUME Crash PROVE Served'
    BY <2>1, <2>5, CrashStep
  <2>6. Served'
    BY <1>2, <2>2, <2>3, <2>4, <2>5 DEF Next
  <2> QED
    BY <1>2, <2>6, ListsStep DEF Served, IInv
<1> QED
  BY <1>1, <1>2

LEMMA InvariantHolds == Spec => []IInv
  BY Initially, Inductive, PTL DEF Spec

\* What an engine's cache holds is a workflow of its own that n8n serves, unless somebody
\* swept it away; so it may be reused without asking (engine.py 151-165).
THEOREM CacheIsTruthful == Spec => []CacheHandsOutPublished
<1>1. IInv => CacheHandsOutPublished
  BY DEF IInv, Cache, Entry, Owned, CacheHandsOutPublished, Path
<1> QED
  BY <1>1, InvariantHolds, PTL

\* No workflow stays in n8n without an engine that will delete it, unless a lost reply, a
\* failed cleanup, a crash or a sweep is to blame (engine.py 162-221).
THEOREM NothingIsForgotten == Spec => []OrphansAreExcused
<1>1. IInv => OrphansAreExcused
  BY DEF IInv
<1> QED
  BY <1>1, InvariantHolds, PTL

-----------------------------------------------------------------------------
(* An n8n that does what it is asked, and nobody who sweeps.                   *)

\* The engine waits for an execution or reads one.
Running == {"wait", "close", "map"}

Live(x) == executions[x].state # "deleted"

PathOf(x) == workflows[executions[x].wf].path

\* An engine in state q waits for execution x or reads it.
Awaits(q, x) == /\ q.pc \in Running
                /\ executions[x].wf = q.wf /\ executions[x].run = q.run
                /\ q.pc \in {"close", "map"} => q.exec = x /\ executions[x].state = "finished"

\* Every execution n8n still has is the one its path's engine is about.
Awaited == \A x \in DOMAIN executions :
               /\ executions[x].wf \in DOMAIN workflows
               /\ Live(x) => Awaits(engine[PathOf(x)], x)

AloneOnPath == \A x, y \in DOMAIN executions :
                   Live(x) /\ Live(y) /\ PathOf(x) = PathOf(y) => x = y

\* A path is claimed by one workflow at most, and by none that was deleted.
OnePublished == \A u, w \in DOMAIN workflows :
                    /\ workflows[u].active => workflows[u].exists
                    /\ workflows[u].active /\ workflows[w].active
                       /\ workflows[u].path = workflows[w].path => u = w

\* What engine e is about in state q is as its requests left it.
Obedient(e, q) ==
    /\ ~ q.raising
    /\ q.pc \in {"publish", "discard"} => workflows[q.wf].exists /\ ~ workflows[q.wf].active
    /\ q.pc = "wait" => \E x \in DOMAIN executions : Live(x) /\ PathOf(x) = e
    /\ q.pc \in {"close", "map"} => /\ q.exec \in DOMAIN executions
                                    /\ Live(q.exec) /\ PathOf(q.exec) = e
    /\ q.pc \in {"trigger", "wait", "close"} => registry[e] \in {0, q.run}

Thread(h) == [pc |-> handler[h].pc, run |-> handler[h].run, node |-> handler[h].node,
              occurrence |-> handler[h].occurrence, response |-> handler[h].response]

Threads == /\ handler = [h \in Handler |-> handler[h]]
           /\ \A h \in Handler : handler[h] = Thread(h)
           /\ origin = [h \in Handler |-> origin[h]]

CallsMatch == \A h \in Handler : handler[h].pc = "responding" =>
                  /\ origin[h] \in DOMAIN executions
                  /\ executions[origin[h]].run = handler[h].run

MeasuredOwn == \A i \in DOMAIN results : results[i].kind = "measured" =>
                   /\ results[i].exec \in DOMAIN executions
                   /\ executions[results[i].exec].run = results[i].run

\* The registry has an entry for every path.
Registered == registry = [e \in Engine |-> registry[e]]

Orderly == /\ excused = {} /\ Registered /\ Threads
           /\ OnePublished /\ Awaited /\ AloneOnPath
           /\ \A e \in Engine : Obedient(e, engine[e])
           /\ CallsMatch /\ MeasuredOwn

\* A step by which n8n and the registry hear of nothing but engine e.
Concerns(e) ==
    /\ UNCHANGED << excused, handler, origin >>
    /\ Registered' /\ \A o \in Engine : o # e => registry'[o] \in {0, registry[o]}
    /\ WorkflowsKept
    /\ \A w \in DOMAIN workflows : workflows[w].path # e => workflows'[w] = workflows[w]
    /\ \A x \in DOMAIN executions :
           /\ x \in DOMAIN executions' /\ executions'[x].wf = executions[x].wf
           /\ executions'[x].run = executions[x].run
           /\ PathOf(x) # e => executions'[x] = executions[x]

\* Workflows keep their paths, and so do executions.
LEMMA PathsKept ==
    ASSUME IInv, Orderly, NEW e \in Engine, Concerns(e), NEW x \in DOMAIN executions
    PROVE  /\ PathOf(x) \in Engine /\ PathOf(x)' = PathOf(x)
           /\ executions'[x].wf \in DOMAIN workflows'
<1>1. PICK w : w = executions[x].wf
  OBVIOUS
<1>2. w \in DOMAIN workflows /\ workflows[w] \in Workflow
  BY <1>1 DEF Orderly, Awaited, IInv, Tables
<1>3. Owned(workflows[w].path, workflows[w].version, w)
  BY <1>2 DEF Owned
<1>4. w \in DOMAIN workflows' /\ workflows'[w].path = workflows[w].path
  BY <1>3 DEF Concerns, WorkflowsKept, Owned
<1>5. executions'[x].wf = w
  BY <1>1 DEF Concerns
<1> QED
  BY <1>1, <1>2, <1>4, <1>5 DEF PathOf, Workflow

\* The other engines stay what they were about.
LEMMA OthersObey ==
    ASSUME IInv, Orderly, NEW e \in Engine, NEW q, Concerns(e),
           engine' = [engine EXCEPT ![e] = q], Obedient(e, q)'
    PROVE  \A o \in Engine : Obedient(o, engine[o])'
<1> SUFFICES ASSUME NEW o \in Engine PROVE Obedient(o, engine[o])'
  OBVIOUS
<1>1. engine \in [Engine -> EngineState]
  BY DEF IInv, Engines
<1>2. CASE o = e
  <2>1. engine'[o] = q /\ o = e
    BY <1>1, <1>2
  <2> QED
    BY <2>1 DEF Obedient
<1>3. CASE o # e
  <2>1. PICK s : s = engine[o]
    OBVIOUS
  <2>2. engine'[o] = s /\ Obedient(o, s) /\ Sound(o, s)
    BY <1>1, <1>3, <2>1 DEF Orderly, IInv, Engines
  <2>3. s.pc \in {"publish", "discard"} => workflows'[s.wf].exists /\ ~ workflows'[s.wf].active
    <3>1. s.pc \in {"publish", "discard"} => s.wf \in DOMAIN workflows /\ workflows[s.wf].path = o
      BY <2>2 DEF Sound, Keeping, Owned
    <3> QED
      BY <1>3, <2>2, <3>1 DEF Obedient, Concerns
  <2>4. \A x \in DOMAIN executions : Live(x) /\ PathOf(x) = o =>
            x \in DOMAIN executions' /\ Live(x)' /\ PathOf(x)' = o
    <3> TAKE x \in DOMAIN executions
    <3>1. PathOf(x) # e => executions'[x] = executions[x] /\ x \in DOMAIN executions'
      BY DEF Concerns
    <3>2. PathOf(x)' = PathOf(x)
      BY PathsKept
    <3> QED
      BY <1>3, <3>1, <3>2 DEF Live
  <2>5. s.pc \in {"trigger", "wait", "close"} => registry'[o] \in {0, s.run}
    BY <1>3, <2>2 DEF Obedient, Concerns
  <2>6. s.pc = "wait" => \E x \in DOMAIN executions' : Live(x)' /\ PathOf(x)' = o
    BY <2>2, <2>4 DEF Obedient, Concerns
  <2>7. s.pc \in {"close", "map"} =>
            s.exec \in DOMAIN executions' /\ Live(s.exec)' /\ PathOf(s.exec)' = o
    BY <2>2, <2>4 DEF Obedient
  <2>8. Obedient(o, s)'
    BY <2>2, <2>3, <2>5, <2>6, <2>7 DEF Obedient
  <2> QED
    BY <2>2, <2>8
<1> QED
  BY <1>2, <1>3

\* Executions that nobody starts, changes or deletes stay with the engine they belong to,
\* which is none that was not waiting.
LEMMA ExecutionsStay ==
    ASSUME IInv, Orderly, NEW e \in Engine, NEW q, Concerns(e), UNCHANGED executions,
           engine' = [engine EXCEPT ![e] = q], engine[e].pc \notin Running
    PROVE  Awaited' /\ AloneOnPath'
<1>1. engine \in [Engine -> EngineState]
  BY DEF IInv, Engines
<1>2. AloneOnPath'
  <2>1. \A x \in DOMAIN executions : PathOf(x)' = PathOf(x)
    BY PathsKept
  <2> QED
    BY <2>1 DEF Orderly, AloneOnPath, Live
<1>3. Awaited'
  <2> SUFFICES ASSUME NEW x \in DOMAIN executions
               PROVE  /\ executions[x].wf \in DOMAIN workflows'
                      /\ Live(x) => Awaits(engine[PathOf(x)], x)'
    BY DEF Awaited, Live
  <2>1. PICK o : o = PathOf(x)
    OBVIOUS
  <2>2. PathOf(x)' = o /\ o \in Engine /\ executions[x].wf \in DOMAIN workflows'
    BY <2>1, PathsKept
  <2>3. ASSUME Live(x) PROVE engine'[o] = engine[o] /\ Awaits(engine[o], x)
    <3>1. Awaits(engine[o], x)
      BY <2>1, <2>3 DEF Orderly, Awaited
    <3>2. o # e
      BY <3>1 DEF Awaits
    <3> QED
      BY <1>1, <2>2, <3>1, <3>2
  <2> QED
    BY <2>2, <2>3 DEF Awaits
<1> QED
  BY <1>2, <1>3

\* Results and calls are about executions whose runs never change.
LEMMA CallsStay ==
    ASSUME Orderly, NEW e \in Engine, Concerns(e)
    PROVE  Threads' /\ CallsMatch' /\ (UNCHANGED results => MeasuredOwn')
<1>1. Threads' /\ CallsMatch'
  BY DEF Orderly, Threads, Thread, CallsMatch, Concerns
<1>2. UNCHANGED results => MeasuredOwn'
  BY DEF Orderly, MeasuredOwn, Concerns
<1> QED
  BY <1>1, <1>2

LEMMA ResultsGrow ==
    ASSUME IInv, Orderly, NEW e \in Engine, Concerns(e), NEW r, results' = Append(results, r),
           r.kind = "measured" => /\ r.exec \in DOMAIN executions
                                  /\ executions[r.exec].run = r.run
    PROVE  MeasuredOwn'
<1>1. IsList(results)
  BY DEF IInv, Lists
<1>2. /\ DOMAIN results' = DOMAIN results \cup {Len(results) + 1} /\ results'[Len(results) + 1] = r
      /\ \A i \in DOMAIN results : results'[i] = results[i]
  <2>1. /\ Len(results) \in Nat /\ DOMAIN results = 1..Len(results)
        /\ DOMAIN results' = 1..(Len(results) + 1)
        /\ \A i \in DOMAIN results : results'[i] = results[i]
        /\ results'[Len(results) + 1] = r
    BY <1>1, GrownList
  <2> QED
    BY <2>1
<1>3. \A x \in DOMAIN executions :
          x \in DOMAIN executions' /\ executions'[x].run = executions[x].run
  BY DEF Concerns
<1> SUFFICES ASSUME NEW i \in DOMAIN results', results'[i].kind = "measured"
             PROVE  /\ results'[i].exec \in DOMAIN executions'
                    /\ executions'[results'[i].exec].run = results'[i].run
  BY DEF MeasuredOwn
<1>4. CASE i \in DOMAIN results
  BY <1>2, <1>3, <1>4 DEF Orderly, MeasuredOwn
<1>5. CASE i \notin DOMAIN results
  BY <1>2, <1>3, <1>5
<1> QED
  BY <1>4, <1>5

LEMMA EngineKeepsOrder ==
    ASSUME IInv, Orderly, NEW e \in Engine, NEW q, Concerns(e), Obedient(e, q)',
           engine' = [engine EXCEPT ![e] = q],
           OnePublished', Awaited', AloneOnPath', MeasuredOwn'
    PROVE  Orderly'
BY OthersObey, CallsStay DEF Orderly, Concerns

\* A step that n8n and the registry do not hear of, while no execution is awaited.
LEMMA NothingHeard ==
    ASSUME Orderly, NEW e \in Engine,
           UNCHANGED << workflows, executions, registry, handler, origin, excused >>
    PROVE  Concerns(e) /\ OnePublished'
BY DEF Orderly, Concerns, Registered, WorkflowsKept, Owned, OnePublished

LEMMA PlainStep ==
    ASSUME IInv, Orderly, NEW e \in Engine, NEW q, engine' = [engine EXCEPT ![e] = q],
           UNCHANGED << workflows, executions, registry, handler, origin, excused, results >>,
           engine[e].pc \notin Running, q.pc \notin Running \cup {"publish", "trigger"},
           ~ q.raising, q.pc = "discard" => engine[e].pc = "publish" /\ q.wf = engine[e].wf
    PROVE  Orderly'
<1>1. Concerns(e) /\ OnePublished'
  BY NothingHeard
<1>2. Awaited' /\ AloneOnPath' /\ MeasuredOwn'
  BY <1>1, ExecutionsStay, CallsStay
<1>3. Obedient(e, engine[e])
  BY DEF Orderly
<1>4. Obedient(e, q)'
  BY <1>3 DEF Obedient, Running
<1> QED
  BY <1>1, <1>2, <1>4, EngineKeepsOrder

\* The caller's steps, a publication that is refused, and the release of the cache.
LEMMA CalmCallerStep ==
    ASSUME IInv, Calm, Orderly, NEW e \in Engine,
           \/ Build(e) \/ Finish(e) \/ PublishFails(e) \/ Release(e)
           \/ \E v \in env.versions, test \in Test : Simulate(e, v, test)
    PROVE  Orderly'
<1>1. /\ engine \in [Engine -> EngineState] /\ engine[e] \in EngineState
      /\ ~ engine[e].raising /\ engine[e].raising \in BOOLEAN
  BY DEF IInv, Engines, Orderly, Obedient, EngineState
<1>2. UNCHANGED << workflows, executions, registry, handler, origin, excused, results >>
  BY DEF Calm, Build, Finish, PublishFails, Release, Simulate, n8nvars, mockvars
<1>3. engine[e].pc \notin Running
  BY DEF Build, Finish, PublishFails, Release, Simulate, Running
<1>4. CASE \/ Build(e) \/ Finish(e) \/ PublishFails(e)
  <2>1. PICK pc \in {"idle", "release", "gone", "discard"} :
            /\ engine' = [engine EXCEPT ![e].pc = pc]
            /\ pc = "discard" => engine[e].pc = "publish"
    BY <1>4 DEF Build, Finish, PublishFails, Goto
  <2>2. PICK q : q = [engine[e] EXCEPT !.pc = pc]
    OBVIOUS
  <2>3. /\ engine' = [engine EXCEPT ![e] = q] /\ q.pc = pc /\ q.wf = engine[e].wf
        /\ q.raising = engine[e].raising
    BY <1>1, <2>1, <2>2 DEF EngineState
  <2>4. q.pc \notin Running \cup {"publish", "trigger"}
    BY <2>3 DEF Running
  <2> QED
    BY <1>1, <1>2, <1>3, <2>1, <2>3, <2>4, PlainStep
<1>5. CASE \E v \in env.versions, test \in Test : Simulate(e, v, test)
  <2>1. PICK v \in env.versions, test \in Test : Simulate(e, v, test)
    BY <1>5
  <2>2. PICK pc \in {"open", "create"} :
            engine' = [engine EXCEPT ![e] = [Fresh EXCEPT !.pc = pc, !.version = v, !.test = test,
                                                          !.wf = published[e][v]]]
    BY <2>1 DEF Simulate
  <2>3. PICK q : q = [Fresh EXCEPT !.pc = pc, !.version = v, !.test = test,
                                   !.wf = published[e][v]]
    OBVIOUS
  <2>4. engine' = [engine EXCEPT ![e] = q] /\ q.pc = pc /\ q.raising = Fresh.raising
    BY <2>2, <2>3 DEF Fresh
  <2>5. q.pc \notin Running \cup {"publish", "trigger", "discard"} /\ ~ q.raising
    BY <2>4, FreshState DEF Running
  <2> QED
    BY <1>2, <1>3, <2>4, <2>5, PlainStep
<1>6. CASE Release(e)
  <2>2. CASE Goto(e, "released")
    <3>1. PICK s : s = [engine[e] EXCEPT !.pc = "released"]
      OBVIOUS
    <3>2. /\ engine' = [engine EXCEPT ![e] = s] /\ s.pc = "released"
          /\ s.raising = engine[e].raising
      BY <1>1, <2>2, <3>1 DEF Goto, EngineState
    <3>3. s.pc \notin Running \cup {"publish", "trigger", "discard"}
      BY <3>2 DEF Running
    <3> QED
      BY <1>1, <1>2, <1>3, <3>2, <3>3, PlainStep
  <2>3. ASSUME NEW v, NEW w,
               engine' = [engine EXCEPT ![e].pc = "unpublish", ![e].version = v, ![e].wf = w]
        PROVE  Orderly'
    <3>1. PICK s : s = [engine[e] EXCEPT !.pc = "unpublish", !.version = v, !.wf = w]
      OBVIOUS
    <3>2. /\ engine' = [engine EXCEPT ![e] = s] /\ s.pc = "unpublish"
          /\ s.raising = engine[e].raising
      BY <1>1, <2>3, <3>1 DEF EngineState
    <3>3. s.pc \notin Running \cup {"publish", "trigger", "discard"}
      BY <3>2 DEF Running
    <3> QED
      BY <1>1, <1>2, <1>3, <3>2, <3>3, PlainStep
  <2> QED
    BY <1>6, <2>2, <2>3 DEF Release
<1> QED
  BY <1>4, <1>5, <1>6

\* A workflow is created, in the hands of the engine that asked.
LEMMA CalmCreateStep ==
    ASSUME IInv, Calm, Orderly, NEW e \in Engine, CreateWorkflow(e)
    PROVE  Orderly'
<1>1. /\ engine \in [Engine -> EngineState] /\ engine[e] \in EngineState
      /\ ~ engine[e].raising /\ engine[e].pc = "create" /\ workflows \in Seq(Workflow)
      /\ engine[e].version \in Version
  BY DEF IInv, Engines, Tables, Orderly, Obedient, EngineState, CreateWorkflow
<1>2. UNCHANGED << executions, registry, handler, origin, excused, results >>
  BY DEF CreateWorkflow, mockvars
<1>3. PICK n : n = Len(workflows) + 1
  OBVIOUS
<1>4. /\ n \in Nat /\ n \notin DOMAIN workflows /\ Len(workflows') = n
      /\ DOMAIN workflows' = DOMAIN workflows \cup {n}
      /\ \A w \in DOMAIN workflows : workflows'[w] = workflows[w]
      /\ workflows'[n].exists /\ ~ workflows'[n].active
  <2>1. workflows' = Append(workflows, [path |-> Path(e), version |-> engine[e].version,
                                        exists |-> TRUE, active |-> FALSE])
    BY DEF CreateWorkflow, Created
  <2>2. /\ Len(workflows') = Len(workflows) + 1 /\ Len(workflows) \in Nat
        /\ DOMAIN workflows = 1..Len(workflows)
        /\ DOMAIN workflows' = 1..(Len(workflows) + 1)
        /\ \A w \in DOMAIN workflows : workflows'[w] = workflows[w]
        /\ workflows'[Len(workflows) + 1] = [path |-> e, version |-> engine[e].version,
                                             exists |-> TRUE, active |-> FALSE]
    BY <1>1, <2>1, CreatedRows
  <2> QED
    BY <1>3, <2>2
<1>5. PICK q : q = [engine[e] EXCEPT !.pc = "publish", !.wf = n]
  OBVIOUS
<1>6. /\ engine' = [engine EXCEPT ![e] = q] /\ q.pc = "publish" /\ q.wf = n
      /\ ~ q.raising
  BY <1>1, <1>4, <1>5 DEF CreateWorkflow, EngineState
<1>7. WorkflowsKept
  BY <1>4 DEF WorkflowsKept, Owned
<1>8. Concerns(e)
  BY <1>2, <1>4, <1>7 DEF Concerns, Orderly, Registered
<1>9. OnePublished'
  BY <1>4 DEF Orderly, OnePublished
<1>10. Awaited' /\ AloneOnPath' /\ MeasuredOwn'
  BY <1>1, <1>2, <1>6, <1>8, ExecutionsStay, CallsStay DEF Running
<1>11. Obedient(e, q)'
  BY <1>4, <1>6 DEF Obedient
<1> QED
  BY <1>6, <1>8, <1>9, <1>10, <1>11, EngineKeepsOrder

\* The workflow in hand is published, unpublished or deleted.
LEMMA CalmFlagStep ==
    ASSUME IInv, Calm, Orderly, NEW e \in Engine,
           Publish(e) \/ Discard(e) \/ Unpublish(e) \/ DeleteWorkflow(e)
    PROVE  Orderly'
<1>1. /\ engine \in [Engine -> EngineState] /\ engine[e] \in EngineState
      /\ Sound(e, engine[e]) /\ ~ engine[e].raising /\ engine[e].raising \in BOOLEAN
      /\ engine[e].pc \in Keeping /\ engine[e].pc \notin Running
  BY DEF IInv, Engines, Orderly, Obedient, EngineState, Publish, Discard, Unpublish,
         DeleteWorkflow, Keeping, Running
<1>2. UNCHANGED << executions, registry, handler, origin, excused >>
  BY DEF Calm, Publish, Discard, Unpublish, DeleteWorkflow, TolerantDelete, mockvars
<1>3. PICK w : w = engine[e].wf
  OBVIOUS
<1>4. w \in DOMAIN workflows /\ workflows[w].path = e
  BY <1>1, <1>3 DEF Sound, Owned
<1>5. \/ workflows' = SetActive(w, TRUE) /\ workflows[w].exists /\ Active(e) = {}
      \/ workflows' = SetActive(w, FALSE)
      \/ workflows' = Removed(w)
  BY <1>3, <1>4 DEF Calm, Publish, Publishable, Exists, Discard, Unpublish, DeleteWorkflow,
                    TolerantDelete
<1>6. /\ Touched(w) /\ (workflows'[w].active => workflows'[w].exists /\ Active(e) = {})
  <2>1. TRUE \in BOOLEAN /\ FALSE \in BOOLEAN
    OBVIOUS
  <2>2. Tables
    BY DEF IInv
  <2> QED
    BY <1>4, <1>5, <2>1, <2>2, FlagsTouched
<1>7. WorkflowsKept
  BY <1>6 DEF WorkflowsKept, Owned, Touched
<1>8. Concerns(e)
  BY <1>2, <1>4, <1>6, <1>7 DEF Concerns, Touched, Orderly, Registered
<1>9. OnePublished'
  <2> SUFFICES ASSUME NEW u \in DOMAIN workflows, NEW v \in DOMAIN workflows
               PROVE  /\ workflows'[u].active => workflows'[u].exists
                      /\ workflows'[u].active /\ workflows'[v].active
                         /\ workflows'[u].path = workflows'[v].path => u = v
    BY <1>6 DEF OnePublished, Touched
  <2>1. \A x \in DOMAIN workflows : x # w /\ workflows[x].path = e /\ workflows'[x].active
                                       => ~ workflows'[w].active
    BY <1>6 DEF Touched, Active, Exists, Orderly, OnePublished
  <2> QED
    BY <1>4, <1>6, <2>1 DEF Touched, Orderly, OnePublished
<1>10. PICK q : /\ engine' = [engine EXCEPT ![e] = q] /\ ~ q.raising
                /\ q.pc \in {"open", "idle", "delete", "release"}
  <2>1. CASE Discard(e)
    <3>1. PICK s : s = [engine[e] EXCEPT !.pc = "idle", !.raising = FALSE]
      OBVIOUS
    <3>2. engine' = [engine EXCEPT ![e] = s] /\ s.pc = "idle" /\ ~ s.raising
      BY <1>1, <2>1, <3>1 DEF Discard, Raise, EngineState
    <3> QED
      BY <3>2
  <2>2. CASE Publish(e) \/ Unpublish(e) \/ DeleteWorkflow(e)
    <3>1. PICK pc \in {"open", "delete", "release"} : engine' = [engine EXCEPT ![e].pc = pc]
      BY <1>1, <2>2 DEF Publish, Unpublish, DeleteWorkflow, Goto
    <3>2. PICK s : s = [engine[e] EXCEPT !.pc = pc]
      OBVIOUS
    <3>3. engine' = [engine EXCEPT ![e] = s] /\ s.pc = pc /\ ~ s.raising
      BY <1>1, <3>1, <3>2 DEF EngineState
    <3> QED
      BY <3>3
  <2> QED
    BY <2>1, <2>2
<1>11. Obedient(e, q)'
  BY <1>10 DEF Obedient
<1>12. Awaited' /\ AloneOnPath'
  BY <1>1, <1>2, <1>8, <1>10, ExecutionsStay
<1>13. MeasuredOwn'
  <2>1. CASE UNCHANGED results
    BY <1>8, <2>1, CallsStay
  <2>2. CASE Discard(e)
    <3>1. PICK r : /\ results' = Append(results, r)
                   /\ r = [engine |-> e, run |-> engine[e].run, exec |-> 0,
                           kind |-> "unavailable"]
      BY <2>2 DEF Discard, Raise
    <3>2. r.kind = "unavailable"
      BY <3>1
    <3> QED
      BY <1>8, <3>1, <3>2, ResultsGrow
  <2> QED
    BY <2>1, <2>2 DEF Publish, Unpublish, DeleteWorkflow
<1> QED
  BY <1>8, <1>9, <1>10, <1>11, <1>12, <1>13, EngineKeepsOrder

\* A run is opened: the token of the engine means it, and other tokens at most lose theirs.
LEMMA CalmOpenStep ==
    ASSUME IInv, Calm, Orderly, NEW e \in Engine, OpenMocks(e)
    PROVE  Orderly'
<1>1. /\ engine \in [Engine -> EngineState] /\ engine[e] \in EngineState
      /\ ~ engine[e].raising /\ engine[e].pc = "open"
  BY DEF IInv, Engines, Orderly, Obedient, OpenMocks
<1>2. UNCHANGED << workflows, executions, handler, origin, excused, results >>
  BY DEF OpenMocks, Mocks!Open, n8nvars
<1>3. Len(runs') = Len(runs) + 1
  <2>1. runs' = Append(runs, Mocks!NewRun(Path(e), engine[e].test)) /\ IsList(runs)
    BY DEF OpenMocks, Mocks!Open, IInv, Lists
  <2> QED
    BY <2>1, GrownList
<1>4. /\ Registered' /\ registry'[e] = Len(runs')
      /\ \A o \in Engine : o # e => registry'[o] \in {0, registry[o]}
  BY <1>3 DEF OpenMocks, Mocks!Open, Mocks!NewIndex, Registered, Path
<1>5. PICK q : q = [engine[e] EXCEPT !.pc = "trigger", !.run = Len(runs')]
  OBVIOUS
<1>6. /\ engine' = [engine EXCEPT ![e] = q] /\ q.pc = "trigger" /\ q.run = Len(runs')
      /\ ~ q.raising
  BY <1>1, <1>5 DEF OpenMocks, EngineState
<1>7. WorkflowsKept
  BY <1>2 DEF WorkflowsKept, Owned
<1>8. Concerns(e)
  BY <1>2, <1>4, <1>7 DEF Concerns
<1>9. OnePublished'
  BY <1>2 DEF Orderly, OnePublished
<1>10. Awaited' /\ AloneOnPath' /\ MeasuredOwn'
  BY <1>1, <1>2, <1>6, <1>8, ExecutionsStay, CallsStay DEF Running
<1>11. Obedient(e, q)'
  BY <1>4, <1>6 DEF Obedient
<1> QED
  BY <1>6, <1>8, <1>9, <1>10, <1>11, EngineKeepsOrder

\* The trigger reaches the workflow the engine has published, for no other claims the path;
\* so from here on there is one execution on it, which carries the engine's own run.
LEMMA CalmTriggerStep ==
    ASSUME IInv, Calm, Orderly, NEW e \in Engine, Trigger(e)
    PROVE  Orderly'
<1>1. /\ engine \in [Engine -> EngineState] /\ engine[e] \in EngineState
      /\ Sound(e, engine[e]) /\ Obedient(e, engine[e]) /\ engine[e].pc = "trigger"
  BY DEF IInv, Engines, Orderly, Trigger
<1>2. UNCHANGED << workflows, registry, handler, origin, excused, results >>
  BY DEF Trigger, mockvars
<1>3. PICK w : w = engine[e].wf
  OBVIOUS
<1>4. Active(e) = {w}
  <2>1. PICK v : v = engine[e].version
    OBVIOUS
  <2>2. Owned(e, v, w) /\ published[e][v] = w /\ v \in Version /\ w # 0
    <3>1. Owned(e, v, w) /\ published[e][v] = w /\ v \in Version
      BY <1>1, <1>3, <2>1 DEF Sound, Using, EngineState
    <3> QED
      BY <3>1 DEF Owned, IInv, Tables
  <2>3. workflows[w].exists /\ workflows[w].active
    BY <2>2 DEF IInv, Cache, Entry, Orderly
  <2>4. \A u \in DOMAIN workflows : workflows[u].active /\ workflows[u].path = e => u = w
    BY <2>2, <2>3 DEF Orderly, OnePublished, Owned
  <2> QED
    BY <2>2, <2>3, <2>4 DEF Active, Exists, Owned
<1>5. PICK row : row = [wf |-> w, run |-> engine[e].run, state |-> "accepted"]
  OBVIOUS
<1>6. executions' = Append(executions, row)
  <2>1. (CHOOSE u \in Active(e) : TRUE) = w /\ Active(e) # {}
    BY <1>4
  <2> QED
    BY <1>5, <2>1 DEF Trigger, Accepted, Path
<1>7. PICK n : n = Len(executions) + 1
  OBVIOUS
<1>8. /\ n \notin DOMAIN executions /\ DOMAIN executions' = DOMAIN executions \cup {n}
      /\ \A x \in DOMAIN executions : executions'[x] = executions[x]
      /\ executions'[n] = row
  BY <1>6, <1>7 DEF IInv, Lists
<1>9. PICK q : q = [engine[e] EXCEPT !.pc = "wait"]
  OBVIOUS
<1>10. /\ engine' = [engine EXCEPT ![e] = q] /\ q.pc = "wait" /\ q.wf = w
       /\ q.run = engine[e].run /\ q.raising = engine[e].raising /\ engine'[e] = q
  BY <1>1, <1>3, <1>9 DEF Trigger, Goto, EngineState
<1>11. WorkflowsKept
  BY <1>2 DEF WorkflowsKept, Owned
<1>12. Concerns(e)
  BY <1>2, <1>8, <1>11 DEF Concerns, Orderly, Registered
<1>13. OnePublished' /\ MeasuredOwn'
  BY <1>2, <1>12, CallsStay DEF Orderly, OnePublished
<1>14. PathOf(n)' = e /\ w \in DOMAIN workflows /\ Live(n)'
  BY <1>1, <1>2, <1>3, <1>5, <1>8 DEF PathOf, Live, Sound, Using, Owned
<1>15. \A x \in DOMAIN executions : Live(x) =>
           /\ Awaits(engine[PathOf(x)], x) /\ PathOf(x) # e /\ PathOf(x) \in Engine
           /\ engine'[PathOf(x)] = engine[PathOf(x)]
  <2> SUFFICES ASSUME NEW x \in DOMAIN executions, Live(x)
               PROVE  /\ Awaits(engine[PathOf(x)], x) /\ PathOf(x) # e /\ PathOf(x) \in Engine
                      /\ engine'[PathOf(x)] = engine[PathOf(x)]
    OBVIOUS
  <2>1. Awaits(engine[PathOf(x)], x)
    BY DEF Orderly, Awaited
  <2>2. PathOf(x) # e /\ PathOf(x) \in Engine
    BY <1>1, <1>12, <2>1, PathsKept DEF Awaits, Running
  <2> QED
    BY <1>1, <1>10, <2>1, <2>2
<1>16. \A x \in DOMAIN executions : PathOf(x)' = PathOf(x)
  BY <1>12, PathsKept
<1>17. Awaited'
  <2> SUFFICES ASSUME NEW x \in DOMAIN executions'
               PROVE  /\ executions'[x].wf \in DOMAIN workflows'
                      /\ Live(x)' => Awaits(engine[PathOf(x)], x)'
    BY DEF Awaited
  <2>1. CASE x = n
    BY <1>2, <1>5, <1>8, <1>10, <1>14, <2>1 DEF Awaits, Running
  <2>2. CASE x \in DOMAIN executions
    <3>1. executions'[x].wf \in DOMAIN workflows'
      BY <1>12, <2>2, PathsKept
    <3>2. ASSUME Live(x)' PROVE Awaits(engine[PathOf(x)], x)'
      <4>1. Live(x)
        BY <1>8, <2>2, <3>2 DEF Live
      <4>2. engine'[PathOf(x)'] = engine[PathOf(x)]
        BY <1>15, <1>16, <2>2, <4>1
      <4> QED
        BY <1>8, <1>15, <2>2, <4>1, <4>2 DEF Awaits
    <3> QED
      BY <3>1, <3>2
  <2> QED
    BY <1>8, <2>1, <2>2
<1>18. AloneOnPath'
  <2> SUFFICES ASSUME NEW x \in DOMAIN executions', NEW y \in DOMAIN executions',
                      Live(x)', Live(y)', PathOf(x)' = PathOf(y)'
               PROVE  x = y
    BY DEF AloneOnPath
  <2>1. ASSUME NEW z \in DOMAIN executions, Live(z)' PROVE Live(z) /\ PathOf(z)' # e
    BY <1>8, <1>15, <1>16, <2>1 DEF Live
  <2> QED
    BY <1>8, <1>14, <1>16, <2>1 DEF Orderly, AloneOnPath
<1>19. Obedient(e, q)'
  <2>1. registry'[e] \in {0, q.run} /\ ~ q.raising
    BY <1>1, <1>2, <1>10 DEF Obedient
  <2>2. \E x \in DOMAIN executions' : Live(x)' /\ PathOf(x)' = e
    BY <1>8, <1>14
  <2> QED
    BY <1>10, <2>1, <2>2 DEF Obedient
<1> QED
  BY <1>10, <1>12, <1>13, <1>17, <1>18, <1>19, EngineKeepsOrder

\* The wait ends with the one execution there is on the path, and no sooner than it has
\* finished: n8n is not slow, so the deadline does not pass while it runs.
LEMMA CalmPollStep ==
    ASSUME IInv, Calm, Orderly, NEW e \in Engine, Poll(e)
    PROVE  Orderly'
<1>1. /\ engine \in [Engine -> EngineState] /\ engine[e] \in EngineState
      /\ Obedient(e, engine[e]) /\ engine[e].pc = "wait"
  BY DEF IInv, Engines, Orderly, Poll
<1>2. UNCHANGED << workflows, executions, registry, handler, origin, excused, results >>
  BY DEF Poll, mockvars, n8nvars
<1>3. PICK w, x : w = engine[e].wf /\ x = LatestExecution(w)
  OBVIOUS
<1>4. PICK y \in DOMAIN executions : Live(y) /\ PathOf(y) = e
  BY <1>1 DEF Obedient
<1>5. executions[y].wf = w /\ executions[y].run = engine[e].run
  BY <1>3, <1>4 DEF Orderly, Awaited, Awaits
<1>6. \A z \in Records(w) : z = y
  <2> TAKE z \in Records(w)
  <2>1. z \in DOMAIN executions /\ Live(z) /\ PathOf(z) = e
    BY <1>4, <1>5 DEF Records, Live, PathOf
  <2> QED
    BY <1>4, <2>1 DEF Orderly, AloneOnPath
<1>7. x = y /\ executions[y].state = "finished"
  <2>1. x # 0 => x = y
    BY <1>3, <1>6, NewestRecord DEF IInv
  <2>2. CASE x # 0 /\ executions[x].state = "finished"
    BY <2>1, <2>2
  <2>3. CASE Pending(w) = {}
    <3>1. executions[y] \in Execution
      BY <1>4 DEF IInv, Lists
    <3>2. executions[y].state = "finished"
      BY <1>4, <1>5, <2>3, <3>1 DEF Pending, Live, Execution
    <3>3. y \in Records(w)
      BY <1>4, <1>5, <3>2 DEF Records
    <3> QED
      BY <1>3, <2>1, <3>2, <3>3, NewestRecord DEF IInv
  <2> QED
    BY <1>3, <2>2, <2>3 DEF Poll, Calm
<1>8. PICK q : q = [engine[e] EXCEPT !.pc = "close", !.exec = y]
  OBVIOUS
<1>9. /\ engine' = [engine EXCEPT ![e] = q] /\ q.pc = "close" /\ q.exec = y
      /\ q.wf = w /\ q.run = engine[e].run /\ q.raising = engine[e].raising /\ engine'[e] = q
  BY <1>1, <1>3, <1>7, <1>8 DEF Poll, EngineState
<1>10. Concerns(e) /\ OnePublished'
  BY <1>2, NothingHeard
<1>11. MeasuredOwn'
  BY <1>2, <1>10, CallsStay
<1>12. \A z \in DOMAIN executions : PathOf(z)' = PathOf(z) /\ PathOf(z) \in Engine
  BY <1>10, PathsKept
<1>13. AloneOnPath'
  BY <1>2, <1>12 DEF Orderly, AloneOnPath, Live
<1>14. Awaited'
  <2> SUFFICES ASSUME NEW z \in DOMAIN executions
               PROVE  /\ executions[z].wf \in DOMAIN workflows
                      /\ Live(z) => Awaits(engine[PathOf(z)], z)'
    BY <1>2 DEF Awaited, Live
  <2>1. executions[z].wf \in DOMAIN workflows
    BY DEF Orderly, Awaited
  <2>2. ASSUME Live(z) PROVE Awaits(engine[PathOf(z)], z)'
    <3>1. Awaits(engine[PathOf(z)], z)
      BY <2>2 DEF Orderly, Awaited
    <3>2. CASE PathOf(z) = e
      <4>1. z = y
        BY <1>4, <2>2, <3>2 DEF Orderly, AloneOnPath
      <4>2. engine'[PathOf(z)'] = q
        BY <1>9, <1>12, <3>2
      <4> QED
        BY <1>2, <1>5, <1>7, <1>9, <4>1, <4>2 DEF Awaits, Running
    <3>3. CASE PathOf(z) # e
      <4>1. engine'[PathOf(z)'] = engine[PathOf(z)]
        BY <1>1, <1>9, <1>12, <3>3
      <4> QED
        BY <1>2, <3>1, <4>1 DEF Awaits
    <3> QED
      BY <3>2, <3>3
  <2> QED
    BY <2>1, <2>2
<1>15. Obedient(e, q)'
  <2>1. Live(y)' /\ PathOf(y)' = e
    BY <1>2, <1>4, <1>12 DEF Live
  <2> QED
    BY <1>1, <1>2, <1>9, <2>1 DEF Obedient
<1> QED
  BY <1>9, <1>10, <1>11, <1>13, <1>14, <1>15, EngineKeepsOrder

\* The run is closed once its execution has finished, and there is one to map.
LEMMA CalmCloseStep ==
    ASSUME IInv, Calm, Orderly, NEW e \in Engine, CloseMocks(e)
    PROVE  Orderly' /\ UNCHANGED results
<1>1. /\ engine \in [Engine -> EngineState] /\ engine[e] \in EngineState
      /\ Obedient(e, engine[e]) /\ engine[e].pc = "close"
  BY DEF IInv, Engines, Orderly, CloseMocks
<1>2. /\ UNCHANGED << workflows, executions, handler, origin, excused >>
      /\ registry' = [registry EXCEPT ![e] = 0]
  BY DEF CloseMocks, Mocks!Close, n8nvars, Path
<1>3. engine[e].exec # 0 /\ ~ engine[e].raising
  BY <1>1 DEF Obedient, IInv, Lists
<1>4. UNCHANGED results /\ engine' = [engine EXCEPT ![e].pc = "map"]
  BY <1>3 DEF CloseMocks, Goto
<1>5. PICK q : q = [engine[e] EXCEPT !.pc = "map"]
  OBVIOUS
<1>6. /\ engine' = [engine EXCEPT ![e] = q] /\ q.pc = "map" /\ q.exec = engine[e].exec
      /\ q.wf = engine[e].wf /\ q.run = engine[e].run /\ q.raising = engine[e].raising
      /\ engine'[e] = q
  BY <1>1, <1>4, <1>5 DEF EngineState
<1>7. Concerns(e)
  BY <1>2 DEF Concerns, WorkflowsKept, Owned, Orderly, Registered
<1>8. OnePublished' /\ MeasuredOwn'
  BY <1>2, <1>4, <1>7, CallsStay DEF Orderly, OnePublished
<1>9. \A z \in DOMAIN executions : PathOf(z)' = PathOf(z) /\ PathOf(z) \in Engine
  BY <1>7, PathsKept
<1>10. AloneOnPath'
  BY <1>2, <1>9 DEF Orderly, AloneOnPath, Live
<1>11. Awaited'
  <2> SUFFICES ASSUME NEW z \in DOMAIN executions
               PROVE  /\ executions[z].wf \in DOMAIN workflows
                      /\ Live(z) => Awaits(engine[PathOf(z)], z)'
    BY <1>2 DEF Awaited, Live
  <2>1. executions[z].wf \in DOMAIN workflows
    BY DEF Orderly, Awaited
  <2>2. ASSUME Live(z) PROVE Awaits(engine[PathOf(z)], z)'
    <3>1. Awaits(engine[PathOf(z)], z)
      BY <2>2 DEF Orderly, Awaited
    <3>2. CASE PathOf(z) = e
      <4>1. engine'[PathOf(z)'] = q
        BY <1>6, <1>9, <3>2
      <4> QED
        BY <1>1, <1>2, <1>6, <3>1, <3>2, <4>1 DEF Awaits, Running
    <3>3. CASE PathOf(z) # e
      <4>1. engine'[PathOf(z)'] = engine[PathOf(z)]
        BY <1>1, <1>6, <1>9, <3>3
      <4> QED
        BY <1>2, <3>1, <4>1 DEF Awaits
    <3> QED
      BY <3>2, <3>3
  <2> QED
    BY <2>1, <2>2
<1>12. Obedient(e, q)'
  BY <1>1, <1>2, <1>3, <1>6, <1>9 DEF Obedient, Live
<1> QED
  BY <1>4, <1>6, <1>7, <1>8, <1>10, <1>11, <1>12, EngineKeepsOrder

\* What is measured is the engine's own execution, which n8n then deletes: it has finished.
LEMMA CalmMapStep ==
    ASSUME IInv, Calm, Orderly, NEW e \in Engine, MapAndDelete(e)
    PROVE  Orderly'
<1>1. /\ engine \in [Engine -> EngineState] /\ engine[e] \in EngineState
      /\ Obedient(e, engine[e]) /\ engine[e].pc = "map"
      /\ ~ engine[e].raising /\ engine[e].raising \in BOOLEAN
  BY DEF IInv, Engines, Orderly, Obedient, EngineState, MapAndDelete
<1>2. UNCHANGED << workflows, registry, handler, origin, excused >>
  BY DEF MapAndDelete, mockvars
<1>3. PICK x : x = engine[e].exec
  OBVIOUS
<1>4. /\ x \in DOMAIN executions /\ Live(x) /\ PathOf(x) = e
      /\ executions[x].state = "finished" /\ executions[x].run = engine[e].run
  BY <1>1, <1>3 DEF Obedient, Orderly, Awaited, Awaits
<1>5. executions' = [executions EXCEPT ![x].state = "deleted"]
  BY <1>3, <1>4 DEF MapAndDelete, Calm
<1>6. PICK row : row = [executions[x] EXCEPT !.state = "deleted"]
  OBVIOUS
<1>7. row.wf = executions[x].wf /\ row.run = executions[x].run /\ row.state = "deleted"
  <2>1. executions[x] \in Execution
    BY <1>4 DEF IInv, Lists
  <2> QED
    BY <1>6, <2>1 DEF Execution
<1>8. /\ DOMAIN executions' = DOMAIN executions /\ executions'[x] = row
      /\ \A z \in DOMAIN executions : z # x => executions'[z] = executions[z]
  BY <1>4, <1>5, <1>6 DEF IInv, Lists
<1>9. PICK q : q = [engine[e] EXCEPT !.pc = "idle"]
  OBVIOUS
<1>10. engine' = [engine EXCEPT ![e] = q] /\ q.pc = "idle" /\ ~ q.raising
  BY <1>1, <1>9 DEF MapAndDelete, Goto, EngineState
<1>11. WorkflowsKept
  BY <1>2 DEF WorkflowsKept, Owned
<1>12. Concerns(e)
  BY <1>2, <1>4, <1>7, <1>8, <1>11 DEF Concerns, Orderly, Registered
<1>13. OnePublished'
  BY <1>2 DEF Orderly, OnePublished
<1>14. MeasuredOwn'
  <2>1. PICK r : /\ results' = Append(results, r)
                 /\ r = [engine |-> e, run |-> engine[e].run, exec |-> x, kind |-> "measured"]
    BY <1>3 DEF MapAndDelete
  <2>2. r.exec = x /\ r.run = engine[e].run
    BY <2>1
  <2> QED
    BY <1>4, <1>12, <2>1, <2>2, ResultsGrow
<1>15. \A z \in DOMAIN executions : PathOf(z)' = PathOf(z) /\ PathOf(z) \in Engine
  BY <1>12, PathsKept
<1>16. \A z \in DOMAIN executions : Live(z)' => Live(z) /\ PathOf(z) # e /\ z # x
  <2> SUFFICES ASSUME NEW z \in DOMAIN executions, Live(z)'
               PROVE  Live(z) /\ PathOf(z) # e /\ z # x
    OBVIOUS
  <2>1. z # x
    BY <1>7, <1>8 DEF Live
  <2>2. Live(z)
    BY <1>8, <2>1 DEF Live
  <2> QED
    BY <1>4, <2>1, <2>2 DEF Orderly, AloneOnPath
<1>17. AloneOnPath'
  BY <1>8, <1>15, <1>16 DEF Orderly, AloneOnPath
<1>18. Awaited'
  <2> SUFFICES ASSUME NEW z \in DOMAIN executions
               PROVE  /\ executions'[z].wf \in DOMAIN workflows
                      /\ Live(z)' => Awaits(engine[PathOf(z)], z)'
    BY <1>2, <1>8 DEF Awaited
  <2>1. executions'[z].wf \in DOMAIN workflows
    BY <1>2, <1>12, PathsKept
  <2>2. ASSUME Live(z)' PROVE Awaits(engine[PathOf(z)], z)'
    <3>1. Awaits(engine[PathOf(z)], z) /\ PathOf(z) # e /\ z # x
      BY <1>16, <2>2 DEF Orderly, Awaited
    <3>2. engine'[PathOf(z)'] = engine[PathOf(z)]
      BY <1>1, <1>10, <1>15, <3>1
    <3> QED
      BY <1>8, <3>1, <3>2 DEF Awaits
  <2> QED
    BY <2>1, <2>2
<1>19. Obedient(e, q)'
  BY <1>10 DEF Obedient
<1> QED
  BY <1>10, <1>12, <1>13, <1>14, <1>17, <1>18, <1>19, EngineKeepsOrder

\* What n8n does with an execution that is neither finished nor deleted is no news to the
\* engine that waits for it.
LEMMA CalmN8nStep ==
    ASSUME IInv, Calm, Orderly, NEW x \in DOMAIN executions, Start(x) \/ End(x)
    PROVE  Orderly'
<1>1. UNCHANGED << workflows, registry, handler, origin, excused, results, engine >>
  BY DEF Start, End, mockvars
<1>2. PICK s \in {"running", "finished"} : executions' = [executions EXCEPT ![x].state = s]
  BY DEF Start, End
<1>3. executions[x].state \in {"accepted", "running"} /\ executions[x] \in Execution
  BY DEF Start, End, IInv, Lists
<1>4. PICK row : row = [executions[x] EXCEPT !.state = s]
  OBVIOUS
<1>5. row.wf = executions[x].wf /\ row.run = executions[x].run /\ row.state = s
  BY <1>3, <1>4 DEF Execution
<1>6. /\ DOMAIN executions' = DOMAIN executions /\ executions'[x] = row
      /\ \A z \in DOMAIN executions : z # x => executions'[z] = executions[z]
  BY <1>2, <1>4 DEF IInv, Lists
<1>7. \A z \in DOMAIN executions :
          /\ executions'[z].wf = executions[z].wf /\ executions'[z].run = executions[z].run
          /\ Live(z)' <=> Live(z)
          /\ PathOf(z)' = PathOf(z)
  <2> TAKE z \in DOMAIN executions
  <2>1. executions'[z].wf = executions[z].wf /\ executions'[z].run = executions[z].run
    BY <1>5, <1>6
  <2>2. Live(z)' <=> Live(z)
    BY <1>3, <1>5, <1>6 DEF Live
  <2> QED
    BY <1>1, <2>1, <2>2 DEF PathOf
<1>8. Awaited'
  <2> SUFFICES ASSUME NEW z \in DOMAIN executions
               PROVE  /\ executions'[z].wf \in DOMAIN workflows
                      /\ Live(z)' => Awaits(engine[PathOf(z)], z)'
    BY <1>1, <1>6 DEF Awaited
  <2>1. executions'[z].wf \in DOMAIN workflows
    BY <1>7 DEF Orderly, Awaited
  <2>2. ASSUME Live(z)' PROVE Awaits(engine[PathOf(z)], z)'
    <3>1. Awaits(engine[PathOf(z)], z)
      BY <1>7, <2>2 DEF Orderly, Awaited
    <3>2. engine'[PathOf(z)'] = engine[PathOf(z)]
      BY <1>1, <1>7
    <3>3. CASE z = x
      BY <1>3, <1>5, <1>6, <3>1, <3>2, <3>3 DEF Awaits
    <3>4. CASE z # x
      BY <1>6, <3>1, <3>2, <3>4 DEF Awaits
    <3> QED
      BY <3>3, <3>4
  <2> QED
    BY <2>1, <2>2
<1>9. AloneOnPath'
  BY <1>6, <1>7 DEF Orderly, AloneOnPath
<1>10. \A e \in Engine : Obedient(e, engine[e])'
  <2> SUFFICES ASSUME NEW e \in Engine PROVE Obedient(e, engine[e])'
    OBVIOUS
  <2>1. Obedient(e, engine[e])
    BY DEF Orderly
  <2>2. engine[e].pc = "wait" => \E z \in DOMAIN executions' : Live(z)' /\ PathOf(z)' = e
    BY <1>6, <1>7, <2>1 DEF Obedient
  <2>3. engine[e].pc \in {"close", "map"} => /\ engine[e].exec \in DOMAIN executions'
                                             /\ Live(engine[e].exec)'
                                             /\ PathOf(engine[e].exec)' = e
    <3>1. engine[e].pc \in {"close", "map"} => /\ engine[e].exec \in DOMAIN executions
                                               /\ Live(engine[e].exec)
                                               /\ PathOf(engine[e].exec) = e
      BY <2>1 DEF Obedient
    <3>2. PICK z : z = engine[e].exec
      OBVIOUS
    <3> QED
      BY <1>1, <1>6, <1>7, <3>1, <3>2 DEF Live, PathOf
  <2> QED
    BY <1>1, <2>1, <2>2, <2>3 DEF Obedient
<1>11. OnePublished' /\ Registered' /\ Threads' /\ excused' = {}
  BY <1>1 DEF Orderly, OnePublished, Registered, Threads, Thread
<1>12. CallsMatch' /\ MeasuredOwn'
  BY <1>1, <1>6, <1>7 DEF Orderly, CallsMatch, MeasuredOwn
<1> QED
  BY <1>8, <1>9, <1>10, <1>11, <1>12 DEF Orderly

LEMMA ThreadsStep ==
    ASSUME IInv, Orderly, Threads', CallsMatch',
           UNCHANGED << engine, workflows, executions, registry, results, excused >>
    PROVE  Orderly'
<1>1. OnePublished' /\ Registered' /\ excused' = {} /\ MeasuredOwn'
  BY DEF Orderly, OnePublished, Registered, MeasuredOwn
<1>2. Awaited' /\ AloneOnPath'
  BY DEF Orderly, Awaited, AloneOnPath, Awaits, Live, PathOf
<1>3. \A e \in Engine : Obedient(e, engine[e])'
  BY DEF Orderly, Obedient, Live, PathOf
<1> QED
  BY <1>1, <1>2, <1>3 DEF Orderly

\* A call counts on the run its path means now, which is the run of the engine that waits
\* for the execution making the call.
LEMMA CalmCallStep ==
    ASSUME IInv, Calm, Orderly, NEW x \in DOMAIN executions, NEW h \in Handler, NEW n \in Node,
           CallMock(x, h, n)
    PROVE  Orderly'
<1>1. PICK o : o = PathOf(x)
  OBVIOUS
<1>2. /\ executions[x].state = "running" /\ origin' = [origin EXCEPT ![h] = x]
      /\ UNCHANGED << engine, workflows, executions, registry, results, excused >>
  BY DEF CallMock, n8nvars, Mocks!CountAttempt, Mocks!RefuseUnknownRun
<1>3. o \in Engine
  <2>1. executions[x].wf \in DOMAIN workflows
    BY DEF Orderly, Awaited
  <2>2. workflows[executions[x].wf] \in Workflow
    BY <2>1 DEF IInv, Tables
  <2> QED
    BY <1>1, <2>2 DEF PathOf, Workflow
<1>4. engine[o].pc = "wait" /\ executions[x].run = engine[o].run
  <2>1. Awaits(engine[o], x)
    BY <1>1, <1>2 DEF Orderly, Awaited, Live
  <2> QED
    BY <1>2, <2>1 DEF Awaits, Running
<1>5. registry[o] \in {0, executions[x].run}
  BY <1>3, <1>4 DEF Orderly, Obedient
<1>6. PICK t : /\ handler' = [handler EXCEPT ![h] = t]
               /\ t = [pc |-> t.pc, run |-> t.run, node |-> t.node,
                       occurrence |-> t.occurrence, response |-> t.response]
               /\ t.pc = "responding" => t.run = executions[x].run
  <2>1. CASE Mocks!CountAttempt(h, o, n)
    <3>1. PICK k, response : handler' = [handler EXCEPT ![h] =
                 [pc |-> "responding", run |-> registry[o], node |-> n, occurrence |-> k,
                  response |-> response]]
      BY <2>1 DEF Mocks!CountAttempt
    <3>2. registry[o] # 0
      BY <2>1 DEF Mocks!CountAttempt
    <3>3. PICK t : t = [pc |-> "responding", run |-> registry[o], node |-> n, occurrence |-> k,
                        response |-> response]
      OBVIOUS
    <3>4. /\ t = [pc |-> t.pc, run |-> t.run, node |-> t.node, occurrence |-> t.occurrence,
                  response |-> t.response]
          /\ t.run = registry[o]
      BY <3>3
    <3>5. handler' = [handler EXCEPT ![h] = t]
      BY <3>1, <3>3
    <3> QED
      BY <1>5, <3>2, <3>4, <3>5
  <2>2. CASE Mocks!RefuseUnknownRun(h, o)
    <3>1. handler' = [handler EXCEPT ![h] = [Mocks!Idle EXCEPT !.pc = "answering"]]
      BY <2>2 DEF Mocks!RefuseUnknownRun
    <3>2. PICK t : t = [Mocks!Idle EXCEPT !.pc = "answering"]
      OBVIOUS
    <3>3. /\ t = [pc |-> t.pc, run |-> t.run, node |-> t.node, occurrence |-> t.occurrence,
                  response |-> t.response]
          /\ t.pc = "answering"
      BY <3>2 DEF Mocks!Idle
    <3> QED
      BY <3>1, <3>2, <3>3
  <2> QED
    BY <1>1, <2>1, <2>2 DEF CallMock, PathOf
<1>7. /\ handler'[h] = t /\ origin'[h] = x
      /\ \A g \in Handler : g # h => handler'[g] = handler[g] /\ origin'[g] = origin[g]
      /\ handler' = [g \in Handler |-> handler'[g]] /\ origin' = [g \in Handler |-> origin'[g]]
  BY <1>2, <1>6 DEF Orderly, Threads
<1>8. Threads'
  <2>1. ASSUME NEW g \in Handler PROVE handler'[g] = Thread(g)'
    BY <1>6, <1>7 DEF Orderly, Threads, Thread
  <2> QED
    BY <1>7, <2>1 DEF Threads
<1>9. CallsMatch'
  <2> SUFFICES ASSUME NEW g \in Handler, handler'[g].pc = "responding"
               PROVE  /\ origin'[g] \in DOMAIN executions
                      /\ executions[origin'[g]].run = handler'[g].run
    BY <1>2 DEF CallsMatch
  <2>1. CASE g = h
    BY <1>6, <1>7, <2>1
  <2>2. CASE g # h
    BY <1>7, <2>2 DEF Orderly, CallsMatch
  <2> QED
    BY <2>1, <2>2
<1> QED
  BY <1>2, <1>8, <1>9, ThreadsStep

\* A call is logged and answered, and time passes.
LEMMA CalmAnswerStep ==
    ASSUME IInv, Orderly, NEW h \in Handler, LogCall(h) \/ Answer(h)
    PROVE  Orderly'
<1>1. UNCHANGED << engine, workflows, executions, registry, results, excused >>
  BY DEF LogCall, Answer, Mocks!LogCall, Mocks!Answer, n8nvars
<1>2. PICK t : /\ handler' = [handler EXCEPT ![h] = t]
               /\ t = [pc |-> t.pc, run |-> t.run, node |-> t.node,
                       occurrence |-> t.occurrence, response |-> t.response]
               /\ t.pc # "responding"
  <2>1. CASE LogCall(h)
    <3>1. PICK t : t = [handler[h] EXCEPT !.pc = "answering"]
      OBVIOUS
    <3>2. handler' = [handler EXCEPT ![h] = t]
      BY <2>1, <3>1 DEF LogCall, Mocks!LogCall
    <3>3. /\ t = [pc |-> t.pc, run |-> t.run, node |-> t.node, occurrence |-> t.occurrence,
                  response |-> t.response]
          /\ t.pc = "answering"
      <4>1. handler[h] = Thread(h)
        BY DEF Orderly, Threads
      <4> QED
        BY <3>1, <4>1 DEF Thread
    <3> QED
      BY <3>2, <3>3
  <2>2. CASE Answer(h)
    <3>1. handler' = [handler EXCEPT ![h] = Mocks!Idle]
      BY <2>2 DEF Answer, Mocks!Answer
    <3>2. PICK t : t = Mocks!Idle
      OBVIOUS
    <3>3. /\ t = [pc |-> t.pc, run |-> t.run, node |-> t.node, occurrence |-> t.occurrence,
                  response |-> t.response]
          /\ t.pc = "idle"
      BY <3>2 DEF Mocks!Idle
    <3> QED
      BY <3>1, <3>2, <3>3
  <2> QED
    BY <2>1, <2>2
<1>3. /\ handler'[h] = t
      /\ \A g \in Handler : g # h => handler'[g] = handler[g] /\ origin'[g] = origin[g]
      /\ handler' = [g \in Handler |-> handler'[g]] /\ origin' = [g \in Handler |-> origin'[g]]
  BY <1>2 DEF Orderly, Threads, LogCall, Answer
<1>4. Threads'
  <2>1. ASSUME NEW g \in Handler PROVE handler'[g] = Thread(g)'
    BY <1>2, <1>3 DEF Orderly, Threads, Thread
  <2> QED
    BY <1>3, <2>1 DEF Threads
<1>5. CallsMatch'
  <2> SUFFICES ASSUME NEW g \in Handler, handler'[g].pc = "responding"
               PROVE  /\ origin'[g] \in DOMAIN executions
                      /\ executions[origin'[g]].run = handler'[g].run
    BY <1>1 DEF CallsMatch
  <2>1. g # h
    BY <1>2, <1>3
  <2> QED
    BY <1>3, <2>1 DEF Orderly, CallsMatch
<1> QED
  BY <1>1, <1>4, <1>5, ThreadsStep

\* In calm surroundings no request fails, nobody sweeps and nothing crashes.
LEMMA NoFaults ==
    ASSUME Calm, NEW e \in Engine
    PROVE  ~ NetworkFault(e) /\ ~ Sweep(e) /\ ~ Crash
BY DEF Calm, NetworkFault, CreateFails, TriggerFails, PollFails, Sweep, Crash

LEMMA OrderlyStep ==
    ASSUME IInv, Calm, Orderly, Next
    PROVE  Orderly'
<1>1. ASSUME NEW e \in Engine, Progress(e) \/ NetworkFault(e) \/ Caller(e) PROVE Orderly'
  <2>1. \/ Build(e) \/ Finish(e) \/ PublishFails(e) \/ Release(e)
        \/ \E v \in env.versions, test \in Test : Simulate(e, v, test)
        \/ CreateWorkflow(e)
        \/ Publish(e) \/ Discard(e) \/ Unpublish(e) \/ DeleteWorkflow(e)
        \/ OpenMocks(e) \/ Trigger(e) \/ Poll(e) \/ CloseMocks(e) \/ MapAndDelete(e)
    BY <1>1, NoFaults DEF Progress, Caller
  <2> QED
    BY <2>1, CalmCallerStep, CalmCreateStep, CalmFlagStep, CalmOpenStep, CalmTriggerStep,
       CalmPollStep, CalmCloseStep, CalmMapStep
<1>2. ASSUME N8n PROVE Orderly'
  BY <1>2, CalmN8nStep, CalmCallStep DEF N8n
<1>3. ASSUME NEW h \in Handler, LogCall(h) \/ Answer(h) PROVE Orderly'
  BY <1>3, CalmAnswerStep
<1>4. ASSUME Tick PROVE Orderly'
  <2>1. UNCHANGED << engine, workflows, executions, registry, results, excused, handler, origin >>
    BY <1>4 DEF Tick, Mocks!Tick, n8nvars
  <2>2. Threads' /\ CallsMatch'
    BY <2>1 DEF Orderly, Threads, Thread, CallsMatch
  <2> QED
    BY <2>1, <2>2, ThreadsStep
<1>5. ~ Crash
  BY DEF Calm, Crash
<1> QED
  BY <1>1, <1>2, <1>3, <1>4, <1>5 DEF Next

\* With one version to simulate, no publication is ever refused and every result is measured.
Unopposed ==
    /\ \A w \in DOMAIN workflows : workflows[w].version \in env.versions
    /\ \A e \in Engine : /\ engine[e].pc \in {"create", "publish"} =>
                                engine[e].version \in env.versions
                         /\ engine[e].pc # "discard"
    /\ \A i \in DOMAIN results : results[i].kind = "measured"

\* An engine about to publish has nothing of the version in its cache, so whatever claims
\* its path would have been forgotten: there is nothing.
LEMMA NeverRefused ==
    ASSUME IInv, Calm, OneVersion, Orderly, Unopposed, NEW e \in Engine
    PROVE  ~ PublishFails(e)
<1> SUFFICES ASSUME PublishFails(e) PROVE FALSE
  OBVIOUS
<1>1. PICK w, v : w = engine[e].wf /\ v = engine[e].version
  OBVIOUS
<1>2. engine[e].pc = "publish" /\ Sound(e, engine[e]) /\ Obedient(e, engine[e])
  BY DEF PublishFails, IInv, Engines, Orderly
<1>3. /\ w \in DOMAIN workflows /\ workflows[w].path = e /\ published[e][v] = 0
      /\ v \in env.versions /\ workflows[w].exists /\ ~ workflows[w].active
  BY <1>1, <1>2 DEF Sound, Keeping, Owned, Obedient, Unopposed
<1>4. Active(e) # {}
  BY <1>1, <1>3 DEF PublishFails, Calm, Publishable, Exists
<1>5. PICK u \in DOMAIN workflows : workflows[u].exists /\ workflows[u].active
                                    /\ workflows[u].path = e
  BY <1>4 DEF Active, Exists
<1>6. workflows[u].version = v
  BY <1>3 DEF OneVersion, Unopposed
<1>7. published[e][v] = u \/ engine[e].wf = u
  BY <1>5, <1>6 DEF IInv, OrphansAreExcused, Exists, Orderly
<1>8. u # 0
  BY DEF IInv, Tables
<1> QED
  BY <1>1, <1>3, <1>5, <1>7, <1>8

\* Where an engine is after a step that neither creates nor discards a workflow.
LEMMA WhereNext ==
    ASSUME IInv, NEW e \in Engine,
           \/ Build(e) \/ Finish(e) \/ Publish(e) \/ OpenMocks(e) \/ Trigger(e) \/ Poll(e)
           \/ (CloseMocks(e) /\ UNCHANGED results) \/ MapAndDelete(e) \/ Unpublish(e)
           \/ DeleteWorkflow(e) \/ Release(e)
    PROVE  \E q : /\ engine' = [engine EXCEPT ![e] = q]
                  /\ q.pc \notin {"create", "publish", "discard"}
<1>1. engine \in [Engine -> EngineState] /\ engine[e] \in EngineState
  BY DEF IInv, Engines
<1>2. ASSUME NEW pc \in {"idle", "release", "gone", "open", "wait", "map", "delete", "close",
                         "released"},
             engine' = [engine EXCEPT ![e].pc = pc]
      PROVE  \E q : /\ engine' = [engine EXCEPT ![e] = q]
                    /\ q.pc \notin {"create", "publish", "discard"}
  <2>1. PICK q : q = [engine[e] EXCEPT !.pc = pc]
    OBVIOUS
  <2>2. engine' = [engine EXCEPT ![e] = q] /\ q.pc = pc
    BY <1>1, <1>2, <2>1 DEF EngineState
  <2> QED
    BY <2>2
<1>3. CASE OpenMocks(e)
  <2>1. PICK q : q = [engine[e] EXCEPT !.pc = "trigger", !.run = Len(runs')]
    OBVIOUS
  <2>2. engine' = [engine EXCEPT ![e] = q] /\ q.pc = "trigger"
    BY <1>1, <1>3, <2>1 DEF OpenMocks, EngineState
  <2> QED
    BY <2>2
<1>4. CASE Poll(e)
  <2>1. PICK q : q = [engine[e] EXCEPT !.pc = "close", !.exec = LatestExecution(engine[e].wf)]
    OBVIOUS
  <2>2. engine' = [engine EXCEPT ![e] = q] /\ q.pc = "close"
    BY <1>1, <1>4, <2>1 DEF Poll, EngineState
  <2> QED
    BY <2>2
<1>5. CASE CloseMocks(e) /\ UNCHANGED results
  <2>1. engine' = [engine EXCEPT ![e].pc = "map"]
    <3>1. \A r : results # Append(results, r)
      <4> TAKE r
      <4>1. IsList(results)
        BY DEF IInv, Lists
      <4>2. PICK t : t = Append(results, r)
        OBVIOUS
      <4>3. Len(t) = Len(results) + 1 /\ Len(results) \in Nat
        BY <4>1, <4>2, GrownList
      <4> QED
        BY <4>2, <4>3
    <3> QED
      BY <1>5, <3>1 DEF CloseMocks, Raise, Goto
  <2> QED
    BY <1>2, <2>1
<1>6. CASE Release(e)
  <2>1. CASE Goto(e, "released")
    BY <1>2, <2>1 DEF Goto
  <2>2. ASSUME NEW v, NEW w,
               engine' = [engine EXCEPT ![e].pc = "unpublish", ![e].version = v, ![e].wf = w]
        PROVE  \E q : /\ engine' = [engine EXCEPT ![e] = q]
                      /\ q.pc \notin {"create", "publish", "discard"}
    <3>1. PICK q : q = [engine[e] EXCEPT !.pc = "unpublish", !.version = v, !.wf = w]
      OBVIOUS
    <3>2. engine' = [engine EXCEPT ![e] = q] /\ q.pc = "unpublish"
      BY <1>1, <2>2, <3>1 DEF EngineState
    <3> QED
      BY <3>2
  <2> QED
    BY <1>6, <2>1, <2>2 DEF Release
<1>7. CASE \/ Build(e) \/ Finish(e) \/ Publish(e) \/ Trigger(e) \/ MapAndDelete(e)
           \/ Unpublish(e) \/ DeleteWorkflow(e)
  <2>1. \E pc \in {"idle", "release", "gone", "open", "wait", "map", "delete", "close",
                   "released"} : engine' = [engine EXCEPT ![e].pc = pc]
    BY <1>7 DEF Build, Finish, Publish, Trigger, MapAndDelete, Unpublish, DeleteWorkflow, Goto
  <2> QED
    BY <1>2, <2>1
<1> QED
  BY <1>3, <1>4, <1>5, <1>6, <1>7

\* What an engine does without opposition.
LEMMA UnopposedStep ==
    ASSUME IInv, Calm, OneVersion, Orderly, Unopposed, Next
    PROVE  Unopposed'
<1>1. UNCHANGED env
  BY DEF Next
<1>2. ASSUME NEW e \in Engine, NEW q, engine' = [engine EXCEPT ![e] = q],
             q.pc \in {"create", "publish"} => q.version \in env.versions, q.pc # "discard",
             \A w \in DOMAIN workflows' : workflows'[w].version \in env.versions,
             \A i \in DOMAIN results' : results'[i].kind = "measured"
      PROVE  Unopposed'
  <2>1. engine \in [Engine -> EngineState]
    BY DEF IInv, Engines
  <2>2. ASSUME NEW o \in Engine
        PROVE  /\ engine'[o].pc \in {"create", "publish"} => engine'[o].version \in env.versions
               /\ engine'[o].pc # "discard"
    <3>1. CASE o = e
      <4>1. engine'[o] = q
        BY <1>2, <2>1, <3>1
      <4> QED
        BY <1>2, <4>1
    <3>2. CASE o # e
      <4>1. engine'[o] = engine[o]
        BY <1>2, <2>1, <3>2
      <4> QED
        BY <4>1 DEF Unopposed
    <3> QED
      BY <3>1, <3>2
  <2> QED
    BY <1>1, <1>2, <2>2 DEF Unopposed
<1>3. ASSUME NEW e \in Engine,
             \/ Build(e) \/ Finish(e) \/ OpenMocks(e) \/ Trigger(e) \/ Poll(e) \/ CloseMocks(e)
             \/ Publish(e) \/ Unpublish(e) \/ DeleteWorkflow(e) \/ Release(e)
      PROVE  Unopposed'
  <2>1. UNCHANGED results
    BY <1>3, CalmCloseStep DEF Build, Finish, OpenMocks, Trigger, Poll, Publish, Unpublish,
                               DeleteWorkflow, Release
  <2>2. PICK q : /\ engine' = [engine EXCEPT ![e] = q]
                 /\ q.pc \notin {"create", "publish", "discard"}
    BY <1>3, <2>1, WhereNext
  <2>3. \A w \in DOMAIN workflows' : workflows'[w].version \in env.versions
    <3>1. CASE UNCHANGED workflows
      BY <3>1 DEF Unopposed
    <3>2. CASE Publish(e) \/ Unpublish(e) \/ DeleteWorkflow(e)
      <4>1. PICK w : w = engine[e].wf
        OBVIOUS
      <4>2. w \in DOMAIN workflows
        BY <3>2, <4>1 DEF Publish, Unpublish, DeleteWorkflow, IInv, Engines, Sound, Keeping,
                          Owned
      <4>3. \/ \E b \in BOOLEAN : workflows' = SetActive(w, b)
            \/ workflows' = Removed(w)
        BY <3>2, <4>1 DEF Calm, Publish, Unpublish, DeleteWorkflow, TolerantDelete
      <4>4. Touched(w)
        BY <4>2, <4>3, FlagsTouched DEF IInv
      <4> QED
        BY <4>2, <4>4 DEF Touched, Unopposed
    <3> QED
      BY <1>3, <3>1, <3>2 DEF Build, Finish, OpenMocks, Trigger, Poll, CloseMocks, Release,
                              n8nvars
  <2>4. \A i \in DOMAIN results' : results'[i].kind = "measured"
    BY <2>1 DEF Unopposed
  <2> QED
    BY <1>2, <2>2, <2>3, <2>4
<1>4. ASSUME NEW e \in Engine, MapAndDelete(e) PROVE Unopposed'
  <2>1. PICK q : /\ engine' = [engine EXCEPT ![e] = q]
                 /\ q.pc \notin {"create", "publish", "discard"}
    BY <1>4, WhereNext
  <2>2. \A i \in DOMAIN results' : results'[i].kind = "measured"
    <3>1. PICK r : /\ results' = Append(results, r)
                   /\ r = [engine |-> e, run |-> engine[e].run, exec |-> engine[e].exec,
                           kind |-> "measured"]
      BY <1>4 DEF MapAndDelete
    <3>2. r.kind = "measured" /\ IsList(results)
      BY <3>1 DEF IInv, Lists
    <3>3. /\ Len(results) \in Nat /\ DOMAIN results = 1..Len(results)
          /\ DOMAIN results' = 1..(Len(results) + 1)
          /\ \A i \in DOMAIN results : results'[i] = results[i]
          /\ results'[Len(results) + 1] = r
      BY <3>1, <3>2, GrownList
    <3> QED
      <4> SUFFICES ASSUME NEW i \in DOMAIN results' PROVE results'[i].kind = "measured"
        OBVIOUS
      <4>1. i \in DOMAIN results \/ i = Len(results) + 1
        BY <3>3
      <4> QED
        BY <3>2, <3>3, <4>1 DEF Unopposed
  <2>3. \A w \in DOMAIN workflows' : workflows'[w].version \in env.versions
    BY <1>4 DEF MapAndDelete, Unopposed
  <2> QED
    BY <1>2, <2>1, <2>2, <2>3
<1>5. ASSUME NEW e \in Engine, CreateWorkflow(e) PROVE Unopposed'
  <2>1. /\ engine[e] \in EngineState /\ engine[e].version \in env.versions
        /\ engine[e].version \in Version /\ workflows \in Seq(Workflow)
    BY <1>5 DEF IInv, Engines, Tables, Unopposed, CreateWorkflow, EngineState
  <2>2. PICK q : q = [engine[e] EXCEPT !.pc = "publish", !.wf = Len(workflows')]
    OBVIOUS
  <2>3. /\ engine' = [engine EXCEPT ![e] = q] /\ q.pc = "publish"
        /\ q.version = engine[e].version
    BY <1>5, <2>1, <2>2 DEF CreateWorkflow, EngineState
  <2>4. \A w \in DOMAIN workflows' : workflows'[w].version \in env.versions
    <3>1. workflows' = Append(workflows, [path |-> Path(e), version |-> engine[e].version,
                                          exists |-> TRUE, active |-> FALSE])
      BY <1>5 DEF CreateWorkflow, Created
    <3>2. /\ Len(workflows) \in Nat /\ DOMAIN workflows = 1..Len(workflows)
          /\ DOMAIN workflows' = 1..(Len(workflows) + 1)
          /\ \A w \in DOMAIN workflows : workflows'[w] = workflows[w]
          /\ workflows'[Len(workflows) + 1] = [path |-> e, version |-> engine[e].version,
                                               exists |-> TRUE, active |-> FALSE]
      BY <2>1, <3>1, CreatedRows
    <3> QED
      BY <2>1, <3>2 DEF Unopposed
  <2>5. \A i \in DOMAIN results' : results'[i].kind = "measured"
    BY <1>5 DEF CreateWorkflow, Unopposed
  <2> QED
    BY <1>2, <2>1, <2>3, <2>4, <2>5
<1>6. ASSUME NEW e \in Engine, NEW v \in env.versions, NEW test \in Test, Simulate(e, v, test)
      PROVE  Unopposed'
  <2>1. PICK pc \in {"open", "create"} :
            engine' = [engine EXCEPT ![e] = [Fresh EXCEPT !.pc = pc, !.version = v, !.test = test,
                                                          !.wf = published[e][v]]]
    BY <1>6 DEF Simulate
  <2>2. PICK q : q = [Fresh EXCEPT !.pc = pc, !.version = v, !.test = test,
                                   !.wf = published[e][v]]
    OBVIOUS
  <2>3. engine' = [engine EXCEPT ![e] = q] /\ q.pc = pc /\ q.version = v
    BY <2>1, <2>2 DEF Fresh
  <2>4. \A w \in DOMAIN workflows' : workflows'[w].version \in env.versions
    BY <1>6 DEF Simulate, n8nvars, Unopposed
  <2>5. \A i \in DOMAIN results' : results'[i].kind = "measured"
    BY <1>6 DEF Simulate, Unopposed
  <2> QED
    BY <1>2, <2>3, <2>4, <2>5
<1>7. ASSUME NEW e \in Engine, Progress(e) \/ NetworkFault(e) \/ Caller(e) PROVE Unopposed'
  <2>1. ~ PublishFails(e) /\ ~ Discard(e)
    BY NeverRefused DEF Unopposed, Discard
  <2> QED
    BY <1>3, <1>4, <1>5, <1>6, <1>7, <2>1, NoFaults DEF Progress, Caller
<1>8. ASSUME N8n \/ (\E h \in Handler : LogCall(h) \/ Answer(h)) \/ Tick PROVE Unopposed'
  <2>1. UNCHANGED << workflows, engine, results >>
    BY <1>8 DEF N8n, Start, End, CallMock, LogCall, Answer, Tick, n8nvars
  <2> QED
    BY <1>1, <2>1 DEF Unopposed
<1>9. ~ Crash
  BY DEF Calm, Crash
<1> QED
  BY <1>7, <1>8, <1>9 DEF Next

\* All that holds in calm surroundings.
CalmInv == IInv /\ (Calm => Orderly) /\ (Calm /\ OneVersion => Unopposed)

LEMMA CalmInitially == Init => CalmInv
<1> SUFFICES ASSUME Init PROVE CalmInv
  OBVIOUS
<1>1. Registered /\ Threads /\ OnePublished /\ excused = {}
  <2>1. PICK idle : idle = Mocks!Idle
    OBVIOUS
  <2>2. idle = [pc |-> idle.pc, run |-> idle.run, node |-> idle.node,
                occurrence |-> idle.occurrence, response |-> idle.response]
    BY <2>1 DEF Mocks!Idle
  <2>3. handler = [h \in Handler |-> idle]
    BY <2>1 DEF Init, Mocks!Init
  <2>4. Threads
    BY <2>2, <2>3 DEF Init, Threads, Thread
  <2>5. registry = [e \in Engine |-> 0] /\ workflows = << >> /\ excused = {}
    BY DEF Init, Mocks!Init
  <2> QED
    BY <2>4, <2>5 DEF Registered, OnePublished
<1>2. Awaited /\ AloneOnPath /\ MeasuredOwn /\ CallsMatch
  BY DEF Init, Mocks!Init, Awaited, AloneOnPath, MeasuredOwn, CallsMatch, Mocks!Idle
<1>3. \A e \in Engine : Obedient(e, engine[e]) /\ engine[e].pc = "new"
  BY FreshState DEF Init, Obedient
<1>4. Unopposed
  BY <1>3 DEF Unopposed, Init
<1> QED
  BY <1>1, <1>2, <1>3, <1>4, Initially DEF CalmInv, Orderly

LEMMA CalmInductive == CalmInv /\ [Next]_vars => CalmInv'
<1> SUFFICES ASSUME CalmInv, [Next]_vars PROVE CalmInv'
  OBVIOUS
<1>1. IInv'
  BY Inductive DEF CalmInv
<1>2. UNCHANGED env
  BY DEF Next, vars
<1>3. ASSUME Calm PROVE Orderly'
  <2>1. CASE Next
    BY <1>3, <2>1, OrderlyStep DEF CalmInv
  <2>2. CASE UNCHANGED vars
    <3>1. Orderly
      BY <1>3 DEF CalmInv
    <3>2. Threads' /\ CallsMatch'
      BY <2>2, <3>1 DEF vars, Orderly, Threads, Thread, CallsMatch
    <3> QED
      BY <2>2, <3>1, <3>2, ThreadsStep DEF vars, CalmInv
  <2> QED
    BY <2>1, <2>2
<1>4. ASSUME Calm, OneVersion PROVE Unopposed'
  <2>1. CASE Next
    BY <1>4, <2>1, UnopposedStep DEF CalmInv
  <2>2. CASE UNCHANGED vars
    BY <1>4, <2>2 DEF vars, CalmInv, Unopposed
  <2> QED
    BY <2>1, <2>2
<1> QED
  BY <1>1, <1>2, <1>3, <1>4 DEF CalmInv, Calm, Faults, OneVersion

LEMMA CalmInvariantHolds == Spec => []CalmInv
  BY CalmInitially, CalmInductive, PTL DEF Spec

\* Unless runs outlast their deadline or workflows are swept away, a mock endpoint counts a
\* call only for the run whose trigger started the execution that makes it (engine.py 88-97,
\* mocks.py 103-119).
THEOREM CallsCountForTheirRun == Spec => []CallsStayInTheirRun
<1>1. CalmInv => CallsStayInTheirRun
  BY DEF CalmInv, Orderly, CallsMatch, CallsStayInTheirRun
<1> QED
  BY <1>1, CalmInvariantHolds, PTL

\* In an n8n that does what it is asked every run of a sole version is measured, and what
\* is measured is the call's own execution whatever competes for the path (engine.py 70-120).
THEOREM SimulationsMeasure == Spec => []HealthyRunsAreMeasured
<1>1. CalmInv => HealthyRunsAreMeasured
  BY DEF CalmInv, Orderly, MeasuredOwn, Unopposed, HealthyRunsAreMeasured, MeasuresOwnRun
<1> QED
  BY <1>1, CalmInvariantHolds, PTL
==============================================================================
