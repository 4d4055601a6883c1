--------------------------- MODULE PathSearchProofs ---------------------------
(***************************************************************************)
(* Proofs about PathSearch, for every workflow and every order of its nodes    *)
(* and edges.                                                               *)
(*                                                                         *)
(* The argument is that of every worklist: what was seen is reachable, and      *)
(* what was seen and is not waiting has all its successors seen, but for those   *)
(* behind the edges still to look at.  When nothing is left to do, what was      *)
(* seen is closed, and so contains everything that is reachable.               *)
(***************************************************************************)
EXTENDS PathSearch, FiniteSetTheorems, FunctionTheorems, WellFoundedInduction, TLAPS

Item(w) == [node : GraphNodes(w), trail : Seq(w.edges)]

Starts == start_node_ids(wf)

Reachable == Reach(wf, Starts)

\* What the variables hold.
Shape ==
    /\ wf \in Workflow /\ target \in NodeIds(wf)
    /\ pc \in {"begin", "search", "found", "none", "steered", "unsteered"}
    /\ queue \in Seq(Item(wf)) /\ current \in Item(wf)
    /\ seen \subseteq GraphNodes(wf)
    /\ todo \subseteq wf.edges

\* What waits in the queue, or is being expanded, has a path to it.
TrailsLeadThere ==
    /\ \A i \in 1..Len(queue) : IsPath(wf, queue[i].trail, queue[i].node)
    /\ \A e \in todo : e.source = current.node /\ IsPath(wf, current.trail, current.node)

PathLeadsThere == Found => IsPath(wf, path, target)

\* What was seen is reachable, and so is what was found.
SearchIsSound ==
    /\ seen \subseteq Reachable
    /\ \A e \in todo : e.source \in seen
    /\ \A i \in 1..Len(queue) : queue[i].node \in seen
    /\ Found => target \in Reachable

\* What was seen and is not waiting is expanded, but for the edges to look at.
SearchIsComplete ==
    pc \notin {"begin", "found", "steered"} =>
        /\ Starts \subseteq seen /\ target \notin seen
        /\ \A n \in seen : \/ \E i \in 1..Len(queue) : queue[i].node = n
                           \/ \A e \in wf.edges : e.source = n => (e.target \in seen \/ e \in todo)

Progress ==
    /\ pc = "begin" => queue = << >> /\ todo = {} /\ seen = {} /\ path = << >>
    /\ NotFound => queue = << >> /\ todo = {}

ReportIsAboutTheWorkflow ==
    report.made => /\ report.findings = Findings(wf)
                   /\ report.score = structural_quality_score(wf)

IInv == /\ Shape /\ TrailsLeadThere /\ PathLeadsThere
        /\ SearchIsSound /\ SearchIsComplete /\ Progress /\ ReportIsAboutTheWorkflow
-----------------------------------------------------------------------------
\* The reachable nodes contain the roots and are closed, and every closed set around
\* the roots contains them.
LEMMA ReachIsLeastClosed ==
    ASSUME NEW w, NEW roots \in SUBSET GraphNodes(w)
    PROVE  /\ roots \subseteq Reach(w, roots)
           /\ Reach(w, roots) \subseteq GraphNodes(w)
           /\ Closed(w.edges, Reach(w, roots))
           /\ \A C \in SUBSET GraphNodes(w) :
                  (roots \subseteq C /\ Closed(w.edges, C)) => Reach(w, roots) \subseteq C
<1>1. \A e \in w.edges : e.target \in GraphNodes(w)
  BY DEF GraphNodes, Targets
<1>2. QED
  BY <1>1 DEF Reach, Closed

LEMMA StartsAreNodes ==
    ASSUME NEW w
    PROVE  start_node_ids(w) \subseteq GraphNodes(w) /\ NodeIds(w) \subseteq GraphNodes(w)
BY DEF start_node_ids, OfType, NodeIds, GraphNodes

LEMMA EdgeEndsAreNodes ==
    ASSUME NEW w, NEW e \in w.edges
    PROVE  e.source \in GraphNodes(w) /\ e.target \in GraphNodes(w)
BY DEF GraphNodes, Sources, Targets

\* The start nodes of a workflow are finitely many, so the queue can hold them all.
LEMMA StartsFinite ==
    ASSUME NEW w \in Workflow
    PROVE  IsFiniteSet(start_node_ids(w))
<1>1. IsFiniteSet(w.nodes)
  BY WorkflowAssumption
<1>2. IsFiniteSet(NodeIds(w))
  <2> DEFINE f == [n \in w.nodes |-> n.id]
  <2>1. f \in Surjection(w.nodes, NodeIds(w))
    BY DEF Surjection, NodeIds
  <2>2. QED
    BY <1>1, <2>1, FS_Surjection
<1>3. start_node_ids(w) \subseteq NodeIds(w)
  BY DEF start_node_ids, OfType, NodeIds
<1>4. QED
  BY <1>2, <1>3, FS_Subset

\* An order of a finite set lists all of it and nothing else.
LEMMA OrderCovers ==
    ASSUME NEW S, IsFiniteSet(S), NEW order \in SetToSeqs(S)
    PROVE  order \in Seq(S) /\ \A x \in S : \E i \in 1..Len(order) : order[i] = x
<1> DEFINE D == 1..Cardinality(S)
<1>1. Cardinality(S) \in Nat
  BY FS_CardinalityType
<1>2. order \in [D -> S] /\ \A i, j \in D : i # j => order[i] # order[j]
  BY DEF SetToSeqs
<1>3. order \in Seq(S) /\ Len(order) = Cardinality(S)
  BY <1>1, <1>2
<1>4. order \in Injection(D, S)
  BY <1>2 DEF Injection, IsInjective
<1>5. IsFiniteSet(D) /\ Cardinality(D) = Cardinality(S)
  BY <1>1, FS_Interval
<1>6. order \in Surjection(D, S)
  BY <1>4, <1>5, FS_Injection
<1>7. \A x \in S : \E i \in D : order[i] = x
  BY <1>6 DEF Surjection
<1>8. QED
  BY <1>3, <1>7

\* A path that is extended by an edge from its last node is a path.
LEMMA PathExtends ==
    ASSUME NEW w, NEW p, NEW n, NEW e \in w.edges, IsPath(w, p, n), e.source = n
    PROVE  IsPath(w, Append(p, e), e.target)
<1> DEFINE q == Append(p, e)
<1>1. p \in Seq(w.edges) /\ q \in Seq(w.edges) /\ q # << >> /\ Len(q) = Len(p) + 1
  BY DEF IsPath
<1>2. q[Len(q)] = e /\ \A i \in 1..Len(p) : q[i] = p[i]
  BY <1>1
<1>3. CASE p = << >>
  BY <1>1, <1>2, <1>3 DEF IsPath
<1>4. CASE p # << >>
  <2>1. Len(p) \in Nat \ {0}
    BY <1>1, <1>4
  <2>2. q[1].source \in start_node_ids(w)
    BY <1>2, <1>4, <2>1 DEF IsPath
  <2>3. \A i \in 1..(Len(q) - 1) : q[i].target = q[i + 1].source
    <3> SUFFICES ASSUME NEW i \in 1..(Len(q) - 1)
                 PROVE  q[i].target = q[i + 1].source
      OBVIOUS
    <3>1. CASE i = Len(p)
      BY <1>1, <1>2, <1>4, <2>1, <3>1 DEF IsPath
    <3>2. CASE i # Len(p)
      <4>1. i \in 1..(Len(p) - 1) /\ i + 1 \in 1..Len(p)
        BY <1>1, <2>1, <3>2
      <4>2. q[i] = p[i] /\ q[i + 1] = p[i + 1]
        BY <1>2, <4>1, <2>1
      <4>3. QED
        BY <4>1, <4>2, <1>4 DEF IsPath
    <3>3. QED
      BY <3>1, <3>2
  <2>4. QED
    BY <1>1, <1>2, <2>2, <2>3 DEF IsPath
<1>5. QED
  BY <1>3, <1>4
-----------------------------------------------------------------------------
LEMMA InitEstablishes == Init => IInv
<1> SUFFICES ASSUME Init PROVE IInv
  OBVIOUS
<1>1. target \in GraphNodes(wf)
  BY StartsAreNodes DEF Init
<1>2. Shape
  BY <1>1 DEF Init, Shape, Item, Entry
<1>3. QED
  BY <1>2 DEF Init, IInv, TrailsLeadThere, PathLeadsThere, SearchIsSound, SearchIsComplete,
              Progress, ReportIsAboutTheWorkflow, Found, NotFound, Unvalidated

\* A step that leaves the question, the search and the answer alone.
LEMMA SearchUntouched ==
    IInv /\ UNCHANGED << question, search, path >> =>
        ((Found' <=> Found) /\ (NotFound' <=> NotFound) /\ (pc' = "begin" <=> pc = "begin")
            /\ (pc' = pc \/ pc' \in {"steered", "unsteered"})
            => Shape' /\ TrailsLeadThere' /\ PathLeadsThere' /\ SearchIsSound'
                 /\ SearchIsComplete' /\ Progress')
<1> SUFFICES ASSUME IInv, UNCHANGED << question, search, path >>,
                    Found' <=> Found, NotFound' <=> NotFound, pc' = "begin" <=> pc = "begin",
                    pc' = pc \/ pc' \in {"steered", "unsteered"}
             PROVE  Shape' /\ TrailsLeadThere' /\ PathLeadsThere' /\ SearchIsSound'
                        /\ SearchIsComplete' /\ Progress'
  OBVIOUS
<1> USE DEF IInv, question, search
<1>1. Shape'
  BY DEF Shape
<1>2. TrailsLeadThere'
  BY DEF TrailsLeadThere
<1>3. PathLeadsThere'
  BY DEF PathLeadsThere
<1>4. SearchIsSound'
  BY DEF SearchIsSound, Reachable, Starts
<1>5. pc' \notin {"begin", "found", "steered"} => pc \notin {"begin", "found", "steered"}
  BY DEF Found, NotFound, Shape
<1>6. SearchIsComplete'
  BY <1>5 DEF SearchIsComplete, Starts
<1>7. Progress'
  BY DEF Progress
<1>8. QED
  BY <1>1, <1>2, <1>3, <1>4, <1>6, <1>7

LEMMA BeginPreserves == IInv /\ Begin => IInv'
<1> SUFFICES ASSUME IInv, Begin PROVE IInv'
  OBVIOUS
<1> USE DEF IInv, Begin
<1>1. /\ UNCHANGED << wf, target, current, todo, path, report >>
      /\ queue = << >> /\ todo = {} /\ seen = {} /\ path = << >>
      /\ wf \in Workflow /\ Starts \subseteq GraphNodes(wf) /\ Starts \subseteq Reachable
  BY StartsAreNodes, ReachIsLeastClosed DEF question, Progress, Shape, Starts, Reachable
<1>2. CASE target \in Starts
  <2>1. pc' = "found" /\ UNCHANGED << queue, seen >>
    BY <1>2 DEF Starts
  <2>2. Shape'
    BY <1>1, <2>1 DEF Shape
  <2>3. TrailsLeadThere'
    BY <1>1, <2>1 DEF TrailsLeadThere
  <2>4. PathLeadsThere'
    BY <1>1, <1>2, <2>1 DEF PathLeadsThere, IsPath, Starts
  <2>5. SearchIsSound'
    BY <1>1, <1>2, <2>1 DEF SearchIsSound, Reachable, Starts
  <2>6. SearchIsComplete' /\ Progress' /\ ReportIsAboutTheWorkflow'
    BY <1>1, <2>1 DEF SearchIsComplete, Progress, ReportIsAboutTheWorkflow, NotFound
  <2>7. QED
    BY <2>2, <2>3, <2>4, <2>5, <2>6
<1>3. CASE target \notin Starts
  <2>1. pc' = "search" /\ seen' = Starts
    BY <1>3 DEF Starts
  <2>2. PICK starts \in SetToSeqs(Starts) :
            queue' = [i \in DOMAIN starts |-> Entry(starts[i], << >>)]
    BY <1>3 DEF Starts
  <2>3. starts \in Seq(Starts) /\ \A n \in Starts : \E i \in 1..Len(starts) : starts[i] = n
    BY <1>1, <2>2, StartsFinite, OrderCovers DEF Starts
  <2>4. /\ queue' \in Seq(Item(wf)) /\ Len(queue') = Len(starts)
        /\ \A i \in 1..Len(starts) : queue'[i].node = starts[i] /\ queue'[i].trail = << >>
    <3>1. DOMAIN starts = 1..Len(starts) /\ Len(starts) \in Nat
      BY <2>3
    <3>2. << >> \in Seq(wf.edges)
      OBVIOUS
    <3>3. \A i \in 1..Len(starts) : Entry(starts[i], << >>) \in Item(wf)
      BY <1>1, <2>3, <3>2 DEF Item, Entry
    <3>4. queue' = [i \in 1..Len(starts) |-> Entry(starts[i], << >>)]
      BY <2>2, <3>1
    <3>5. queue' \in [1..Len(starts) -> Item(wf)]
      BY <3>3, <3>4
    <3>6. queue' \in Seq(Item(wf)) /\ Len(queue') = Len(starts)
      BY <3>1, <3>5
    <3>7. QED
      BY <3>4, <3>6 DEF Entry
  <2>5. Shape'
    BY <1>1, <2>1, <2>4 DEF Shape
  <2>6. TrailsLeadThere'
    <3>1. \A i \in 1..Len(starts) : starts[i] \in Starts
      BY <2>3
    <3>2. \A n \in Starts : IsPath(wf, << >>, n)
      BY DEF IsPath, Starts
    <3>3. \A i \in 1..Len(queue') : IsPath(wf, queue'[i].trail, queue'[i].node)
      BY <2>4, <3>1, <3>2
    <3>4. QED
      BY <1>1, <3>3 DEF TrailsLeadThere
  <2>7. SearchIsSound'
    BY <1>1, <2>1, <2>3, <2>4 DEF SearchIsSound, Reachable, Starts, Found
  <2>8. SearchIsComplete'
    BY <1>1, <1>3, <2>1, <2>3, <2>4 DEF SearchIsComplete, Starts
  <2>9. PathLeadsThere' /\ Progress' /\ ReportIsAboutTheWorkflow'
    BY <1>1, <2>1 DEF PathLeadsThere, Progress, ReportIsAboutTheWorkflow, Found, NotFound
  <2>10. QED
    BY <2>5, <2>6, <2>7, <2>8, <2>9
<1>4. QED
  BY <1>2, <1>3

LEMMA DequeuePreserves == IInv /\ Dequeue => IInv'
<1> SUFFICES ASSUME IInv, Dequeue PROVE IInv'
  OBVIOUS
<1> USE DEF IInv, Dequeue
<1>1. /\ pc = "search" /\ pc' = "search" /\ todo = {} /\ UNCHANGED << wf, target, seen, path, report >>
      /\ queue \in Seq(Item(wf)) /\ queue # << >>
      /\ current' = queue[1] /\ queue' = Tail(queue)
  BY DEF question, Shape
<1>2. /\ Len(queue) \in Nat \ {0} /\ queue' \in Seq(Item(wf)) /\ current' \in Item(wf)
      /\ Len(queue') = Len(queue) - 1 /\ \A i \in 1..Len(queue') : queue'[i] = queue[i + 1]
  BY <1>1
<1>3. todo' = {e \in wf.edges : e.source = current'.node}
  BY DEF outgoing
<1>4. 1 \in 1..Len(queue) /\ current'.node \in seen
  BY <1>1, <1>2 DEF SearchIsSound
<1>5. Shape'
  BY <1>1, <1>2, <1>3 DEF Shape
<1>6. TrailsLeadThere'
  <2>1. IsPath(wf, current'.trail, current'.node)
    BY <1>1, <1>4 DEF TrailsLeadThere
  <2>2. \A i \in 1..Len(queue') : i + 1 \in 1..Len(queue)
    BY <1>2
  <2>3. \A i \in 1..Len(queue') : IsPath(wf, queue'[i].trail, queue'[i].node)
    BY <1>2, <2>2 DEF TrailsLeadThere
  <2>4. QED
    BY <1>1, <1>3, <2>1, <2>3 DEF TrailsLeadThere
<1>7. SearchIsSound'
  <2>1. \A i \in 1..Len(queue') : queue'[i].node \in seen
    BY <1>2 DEF SearchIsSound
  <2>2. QED
    BY <1>1, <1>3, <1>4, <2>1 DEF SearchIsSound, Reachable, Starts, Found
<1>8. SearchIsComplete'
  <2>1. Starts \subseteq seen /\ target \notin seen
    BY <1>1 DEF SearchIsComplete
  <2>2. ASSUME NEW n \in seen
        PROVE  \/ \E i \in 1..Len(queue') : queue'[i].node = n
               \/ \A e \in wf.edges : e.source = n => (e.target \in seen \/ e \in todo')
    <3>1. CASE \A e \in wf.edges : e.source = n => (e.target \in seen \/ e \in todo)
      BY <1>1, <3>1
    <3>2. CASE \E i \in 1..Len(queue) : queue[i].node = n
      <4>1. PICK i \in 1..Len(queue) : queue[i].node = n
        BY <3>2
      <4>2. CASE i = 1
        BY <1>1, <1>3, <4>1, <4>2
      <4>3. CASE i # 1
        <5>1. i - 1 \in 1..Len(queue') /\ queue'[i - 1] = queue[i]
          BY <1>2, <4>3
        <5>2. QED
          BY <4>1, <5>1
      <4>4. QED
        BY <4>2, <4>3
    <3>3. QED
      BY <1>1, <3>1, <3>2 DEF SearchIsComplete
  <2>3. QED
    BY <1>1, <2>1, <2>2 DEF SearchIsComplete, Starts
<1>9. PathLeadsThere' /\ Progress' /\ ReportIsAboutTheWorkflow'
  BY <1>1 DEF PathLeadsThere, Progress, ReportIsAboutTheWorkflow, Found, NotFound
<1>10. QED
  BY <1>5, <1>6, <1>7, <1>8, <1>9

LEMMA ExaminePreserves == ASSUME NEW e \in todo, IInv, Examine(e) PROVE IInv'
<1> USE DEF IInv
<1>1. /\ pc = "search" /\ todo' = todo \ {e} /\ UNCHANGED << wf, target, current, report >>
      /\ e \in wf.edges /\ e.source = current.node /\ e.source \in seen
      /\ queue \in Seq(Item(wf)) /\ current \in Item(wf) /\ wf \in Workflow
      /\ Starts \subseteq seen /\ target \notin seen
  BY DEF Examine, question, Shape, TrailsLeadThere, SearchIsSound, SearchIsComplete
<1>2. /\ e.target \in GraphNodes(wf) /\ e.target \in Reachable
      /\ Extended(e) \in Seq(wf.edges) /\ IsPath(wf, Extended(e), e.target)
  <2>1. Starts \subseteq GraphNodes(wf) /\ Closed(wf.edges, Reachable)
    BY StartsAreNodes, ReachIsLeastClosed DEF Starts, Reachable
  <2>2. e.target \in GraphNodes(wf) /\ e.target \in Reachable
    BY <1>1, <2>1, EdgeEndsAreNodes DEF Closed, SearchIsSound
  <2>3. IsPath(wf, Extended(e), e.target)
    BY <1>1, PathExtends DEF TrailsLeadThere, Extended
  <2>4. QED
    BY <2>2, <2>3 DEF IsPath
<1>3. CASE Seen(e)
  <2>1. UNCHANGED << pc, queue, seen, path >> /\ e.target \in seen
    BY <1>1, <1>3 DEF Examine, Seen
  <2>2. Shape' /\ TrailsLeadThere' /\ PathLeadsThere' /\ Progress' /\ ReportIsAboutTheWorkflow'
    BY <1>1, <2>1 DEF Shape, TrailsLeadThere, PathLeadsThere, Progress,
                      ReportIsAboutTheWorkflow, Found, NotFound
  <2>3. SearchIsSound'
    BY <1>1, <2>1 DEF SearchIsSound, Reachable, Starts, Found
  <2>4. SearchIsComplete'
    BY <1>1, <2>1 DEF SearchIsComplete, Starts
  <2>5. QED
    BY <2>2, <2>3, <2>4
<1>4. CASE ~ Seen(e) /\ e.target = target
  <2>1. pc' = "found" /\ path' = Extended(e) /\ UNCHANGED << queue, seen >>
    BY <1>1, <1>4 DEF Examine, Seen
  <2>2. Shape' /\ TrailsLeadThere' /\ PathLeadsThere' /\ Progress' /\ ReportIsAboutTheWorkflow'
    BY <1>1, <1>2, <1>4, <2>1 DEF Shape, TrailsLeadThere, PathLeadsThere, Progress,
                                  ReportIsAboutTheWorkflow, Found, NotFound
  <2>3. SearchIsSound'
    BY <1>1, <1>2, <1>4, <2>1 DEF SearchIsSound, Reachable, Starts
  <2>4. SearchIsComplete'
    BY <2>1 DEF SearchIsComplete
  <2>5. QED
    BY <2>2, <2>3, <2>4
<1>5. CASE ~ Seen(e) /\ e.target # target
  <2> DEFINE new == Entry(e.target, Extended(e))
  <2>1. pc' = pc /\ path' = path /\ seen' = seen \cup {e.target} /\ queue' = Append(queue, new)
    BY <1>1, <1>5 DEF Examine, Seen, Enqueue
  <2>2. new \in Item(wf) /\ new.node = e.target /\ IsPath(wf, new.trail, new.node)
    BY <1>2 DEF Item, Entry
  <2>3. /\ queue' \in Seq(Item(wf)) /\ Len(queue') = Len(queue) + 1 /\ Len(queue) \in Nat
        /\ queue'[Len(queue')] = new /\ \A i \in 1..Len(queue) : queue'[i] = queue[i]
    BY <1>1, <2>1, <2>2
  <2>4. Shape'
    BY <1>1, <1>2, <2>1, <2>3 DEF Shape
  <2>5. TrailsLeadThere'
    <3>1. ASSUME NEW i \in 1..Len(queue')
          PROVE  IsPath(wf, queue'[i].trail, queue'[i].node)
      <4>1. CASE i = Len(queue')
        BY <2>2, <2>3, <4>1
      <4>2. CASE i # Len(queue')
        BY <2>3, <4>2 DEF TrailsLeadThere
      <4>3. QED
        BY <4>1, <4>2
    <3>2. QED
      BY <1>1, <3>1 DEF TrailsLeadThere
  <2>6. SearchIsSound'
    <3>1. ASSUME NEW i \in 1..Len(queue')
          PROVE  queue'[i].node \in seen'
      <4>1. CASE i = Len(queue')
        BY <2>1, <2>2, <2>3, <4>1
      <4>2. CASE i # Len(queue')
        BY <2>1, <2>3, <4>2 DEF SearchIsSound
      <4>3. QED
        BY <4>1, <4>2
    <3>2. QED
      BY <1>1, <1>2, <2>1, <3>1 DEF SearchIsSound, Reachable, Starts, Found
  <2>7. SearchIsComplete'
    <3>1. Starts \subseteq seen' /\ target \notin seen'
      BY <1>1, <1>5, <2>1
    <3>2. ASSUME NEW n \in seen'
          PROVE  \/ \E i \in 1..Len(queue') : queue'[i].node = n
                 \/ \A d \in wf.edges : d.source = n => (d.target \in seen' \/ d \in todo')
      <4>1. CASE n = e.target
        BY <2>2, <2>3, <4>1
      <4>2. CASE \E i \in 1..Len(queue) : queue[i].node = n
        BY <2>3, <4>2
      <4>3. CASE \A d \in wf.edges : d.source = n => (d.target \in seen \/ d \in todo)
        BY <1>1, <2>1, <4>3
      <4>4. QED
        BY <1>1, <2>1, <4>1, <4>2, <4>3 DEF SearchIsComplete
    <3>3. QED
      BY <1>1, <3>1, <3>2 DEF SearchIsComplete, Starts
  <2>8. PathLeadsThere' /\ Progress' /\ ReportIsAboutTheWorkflow'
    BY <1>1, <2>1 DEF PathLeadsThere, Progress, ReportIsAboutTheWorkflow, Found, NotFound
  <2>9. QED
    BY <2>4, <2>5, <2>6, <2>7, <2>8
<1>6. QED
  BY <1>3, <1>4, <1>5

LEMMA GiveUpPreserves == IInv /\ GiveUp => IInv'
<1> SUFFICES ASSUME IInv, GiveUp PROVE IInv'
  OBVIOUS
<1> USE DEF IInv, GiveUp, question, search
<1>1. Shape' /\ TrailsLeadThere' /\ PathLeadsThere' /\ Progress' /\ ReportIsAboutTheWorkflow'
  BY DEF Shape, TrailsLeadThere, PathLeadsThere, Progress, ReportIsAboutTheWorkflow, Found, NotFound
<1>2. SearchIsSound'
  BY DEF SearchIsSound, Reachable, Starts, Found
<1>3. SearchIsComplete'
  BY DEF SearchIsComplete, Starts
<1>4. QED
  BY <1>1, <1>2, <1>3

LEMMA NextPreserves == IInv /\ [Next]_vars => IInv'
<1> SUFFICES ASSUME IInv, [Next]_vars PROVE IInv'
  OBVIOUS
<1>1. CASE Steer
  <2>1. /\ UNCHANGED << question, search, path, report >>
        /\ (Found' <=> Found) /\ (NotFound' <=> NotFound)
        /\ (pc' = "begin" <=> pc = "begin") /\ pc' \in {"steered", "unsteered"}
    BY <1>1 DEF Steer, Found, NotFound
  <2>2. ReportIsAboutTheWorkflow'
    BY <2>1 DEF IInv, ReportIsAboutTheWorkflow, question
  <2>3. QED
    BY <2>1, <2>2, SearchUntouched DEF IInv
<1>2. CASE Validate
  <2>1. /\ UNCHANGED << question, search, path, pc >> /\ wf' = wf
        /\ report'.findings = Findings(wf) /\ report'.score = structural_quality_score(wf)
    BY <1>2 DEF Validate, question
  <2>2. ReportIsAboutTheWorkflow'
    BY <2>1 DEF ReportIsAboutTheWorkflow
  <2>3. QED
    BY <2>1, <2>2, SearchUntouched DEF IInv, Found, NotFound
<1>3. CASE UNCHANGED vars
  <2>1. UNCHANGED << question, search, path, pc, report >> /\ wf' = wf
    BY <1>3 DEF vars, question
  <2>2. ReportIsAboutTheWorkflow'
    BY <2>1 DEF IInv, ReportIsAboutTheWorkflow
  <2>3. QED
    BY <2>1, <2>2, SearchUntouched DEF IInv, Found, NotFound
<1>4. QED
  BY <1>1, <1>2, <1>3, BeginPreserves, DequeuePreserves, ExaminePreserves, GiveUpPreserves DEF Next

\* When the search has given up, what it saw is closed, so the target is out of reach.
LEMMA GivingUpIsRight == IInv /\ NotFound => target \notin Reachable
<1> SUFFICES ASSUME IInv, NotFound PROVE target \notin Reachable
  OBVIOUS
<1>1. queue = << >> /\ todo = {} /\ pc \notin {"begin", "found", "steered"}
  BY DEF IInv, Progress, NotFound
<1>2. Closed(wf.edges, seen) /\ Starts \subseteq seen /\ target \notin seen
  BY <1>1 DEF IInv, SearchIsComplete, Closed
<1>3. seen \in SUBSET GraphNodes(wf) /\ Starts \in SUBSET GraphNodes(wf)
  BY StartsAreNodes DEF IInv, Shape, Starts
<1>4. QED
  BY <1>2, <1>3, ReachIsLeastClosed DEF Reachable

\* The unreachable nodes among the findings are those out of reach.
LEMMA FlaggedIsUnreachable ==
    ASSUME NEW w, NEW n, start_node_ids(w) # {}
    PROVE  << "unreachable", n >> \in Findings(w)
               <=> n \in w.nodes /\ n.id \notin Reach(w, start_node_ids(w))
<1>1. << "unreachable", n >> \in Findings(w) <=> << "unreachable", n >> \in Reachability(w)
  BY DEF Findings, Criticals, Errors, Warnings, Finding, EmptyWorkflow, DuplicateNodeId,
         InvalidEdgeReference, MissingStart, OrphanNode, DisconnectedComponents,
         MissingTerminal, DeadEnd, SuspiciousCycle, MissingConfiguration, InvalidCondition
<1>2. QED
  BY <1>1 DEF Reachability, Finding

LEMMA InvImpliesAgreement == IInv => AnalysesAgree
<1> SUFFICES ASSUME IInv, report.made, start_node_ids(wf) # {}
             PROVE  LET flagged == \E n \in wf.nodes :
                            n.id = target /\ << "unreachable", n >> \in report.findings
                    IN  (Found => ~ flagged) /\ (NotFound => flagged)
  BY DEF AnalysesAgree
<1>1. \A n \in wf.nodes :
          << "unreachable", n >> \in report.findings <=> n.id \notin Reachable
  BY FlaggedIsUnreachable DEF IInv, ReportIsAboutTheWorkflow, Reachable, Starts
<1>2. \E n \in wf.nodes : n.id = target
  BY DEF IInv, Shape, NodeIds
<1>3. Found => target \in Reachable
  BY DEF IInv, SearchIsSound
<1>4. NotFound => target \notin Reachable
  BY GivingUpIsRight
<1>5. QED
  BY <1>1, <1>2, <1>3, <1>4
-----------------------------------------------------------------------------
\* For every workflow: a node is reported as unreachable exactly when the search finds
\* no path to it, though the two are coded apart (rules.py 132-151, reachability.py
\* 50-74).
THEOREM SearchAgreesWithValidation == Spec => []AnalysesAgree
<1>1. Init => IInv
  BY InitEstablishes
<1>2. IInv /\ [Next]_vars => IInv'
  BY NextPreserves
<1>3. IInv => AnalysesAgree
  BY InvImpliesAgreement
<1>4. QED
  BY <1>1, <1>2, <1>3, PTL DEF Spec

\* For every workflow: what the search answers is a path of its edges from a start node
\* to the target, and it answers nothing only if the target is out of reach.
THEOREM AnswersAreRight == Spec => [](PathLeadsThere /\ (NotFound => target \notin Reachable))
<1>1. Init => IInv
  BY InitEstablishes
<1>2. IInv /\ [Next]_vars => IInv'
  BY NextPreserves
<1>3. IInv => PathLeadsThere /\ (NotFound => target \notin Reachable)
  BY GivingUpIsRight DEF IInv
<1>4. QED
  BY <1>1, <1>2, <1>3, PTL DEF Spec
-----------------------------------------------------------------------------
(***************************************************************************)
(* No path is shorter.  The search goes by levels: the queue holds nodes of at *)
(* most two of them, in order, and what is no further than the node being       *)
(* expanded was seen.                                                         *)
(***************************************************************************)

Shortest(w, p, n) == \A q \in Seq(w.edges) : IsPath(w, q, n) => Len(p) <= Len(q)

Depth == Len(current.trail)

\* All that is reached over at most k edges was seen.
Swept(k) == \A p \in Seq(wf.edges) : \A n : IsPath(wf, p, n) /\ Len(p) <= k => n \in seen

InOrder ==
    \A i \in 1..Len(queue) :
        /\ Len(queue[i].trail) \in Depth .. Depth + 1
        /\ \A j \in 1..Len(queue) : i <= j => Len(queue[i].trail) <= Len(queue[j].trail)

Levels ==
    /\ pc = "begin" => current.trail = << >>
    /\ pc = "search" => /\ InOrder /\ Swept(Depth)
                        /\ \A i \in 1..Len(queue) : Shortest(wf, queue[i].trail, queue[i].node)
    /\ Found => Shortest(wf, path, target)

\* Without its last edge, a path is a path to where that edge begins.
LEMMA PathSplits ==
    ASSUME NEW w, NEW n, NEW p \in Seq(w.edges), IsPath(w, p, n), p # << >>
    PROVE  \E q \in Seq(w.edges), e \in w.edges :
               Len(q) = Len(p) - 1 /\ e.target = n /\ IsPath(w, q, e.source)
<1> DEFINE m == Len(p) - 1
           q == [i \in 1..m |-> p[i]]
           e == p[Len(p)]
<1>1. Len(p) \in Nat \ {0}
  OBVIOUS
<1>2. q \in Seq(w.edges) /\ Len(q) = m /\ \A i \in 1..m : q[i] = p[i]
  BY <1>1
<1>3. e \in w.edges /\ e.target = n
  BY <1>1 DEF IsPath
<1> HIDE DEF q
<1>4. CASE m = 0
  <2>1. Len(p) = 1 /\ e.source \in start_node_ids(w)
    <3>1. p[1].source \in start_node_ids(w)
      BY DEF IsPath
    <3>2. Len(p) = 1
      BY <1>1, <1>4
    <3> QED
      BY <3>1, <3>2
  <2>2. q = << >>
    BY <1>2, <1>4
  <2> QED
    BY <1>2, <1>3, <2>1, <2>2 DEF IsPath
<1>5. CASE m # 0
  <2>1. m \in 1..(Len(p) - 1) /\ m \in Nat \ {0} /\ q # << >> /\ 1 \in 1..m
    <3>1. m \in Nat \ {0} /\ m \in 1..(Len(p) - 1) /\ 1 \in 1..m
      <4>1. \A k \in Nat \ {0} : k - 1 # 0 =>
                k - 1 \in Nat \ {0} /\ k - 1 \in 1..(k - 1) /\ 1 \in 1..(k - 1)
        OBVIOUS
      <4> QED
        BY <1>1, <1>5, <4>1
    <3>2. q # << >>
      <4> HIDE DEF q
      <4> QED
        BY <1>2, <3>1
    <3> QED
      BY <3>1, <3>2
  <2>2. q[1].source \in start_node_ids(w)
    BY <1>2, <2>1 DEF IsPath
  <2>3. q[m].target = e.source
    <3>1. p[m].target = p[m + 1].source /\ m + 1 = Len(p)
      BY <1>1, <2>1 DEF IsPath
    <3> QED
      BY <1>2, <2>1, <3>1
  <2>4. ASSUME NEW i \in 1..(m - 1) PROVE q[i].target = q[i + 1].source
    <3>1. i \in 1..(Len(p) - 1) /\ i \in 1..m /\ i + 1 \in 1..m
      BY <1>1, <2>1
    <3> QED
      BY <1>2, <3>1 DEF IsPath
  <2>5. IsPath(w, q, e.source)
    BY <1>2, <2>1, <2>2, <2>3, <2>4 DEF IsPath
  <2> QED
    BY <1>2, <1>3, <2>5
<1> QED
  BY <1>4, <1>5

\* The next level was seen once all nodes of this one are expanded, which they are when no
\* edge is left to look at and what waits is further away.
LEMMA NextLevel ==
    ASSUME IInv, Levels, pc = "search", todo = {}, NEW k \in Nat, k \in Depth .. Depth + 1,
           \A i \in 1..Len(queue) : Len(queue[i].trail) >= k
    PROVE  Swept(k)
<1> SUFFICES ASSUME NEW p \in Seq(wf.edges), NEW n, IsPath(wf, p, n), Len(p) <= k
             PROVE  n \in seen
  BY DEF Swept
<1>1. Swept(Depth) /\ Len(p) \in Nat /\ Depth \in Nat
  BY DEF Levels, Depth, IInv, Shape, Item
<1>2. CASE Len(p) <= Depth
  BY <1>1, <1>2 DEF Swept
<1>3. CASE ~ (Len(p) <= Depth)
  <2>1. p # << >> /\ Len(p) = Depth + 1 /\ k = Depth + 1
    BY <1>1, <1>3
  <2>2. PICK q \in Seq(wf.edges), e \in wf.edges :
            Len(q) = Len(p) - 1 /\ e.target = n /\ IsPath(wf, q, e.source)
    BY <2>1, PathSplits
  <2>3. Len(q) = Depth /\ e.source \in seen
    BY <1>1, <2>1, <2>2 DEF Swept
  <2>4. ~ \E i \in 1..Len(queue) : queue[i].node = e.source
    <3> SUFFICES ASSUME NEW i \in 1..Len(queue), queue[i].node = e.source PROVE FALSE
      OBVIOUS
    <3>1. Shortest(wf, queue[i].trail, e.source)
      BY DEF Levels
    <3>2. Len(queue[i].trail) <= Depth /\ Len(queue[i].trail) \in Nat
      BY <2>2, <2>3, <3>1 DEF Shortest, IInv, Shape, Item
    <3> QED
      BY <1>1, <2>1, <3>2
  <2> QED
    BY <2>2, <2>3, <2>4 DEF IInv, SearchIsComplete
<1> QED
  BY <1>2, <1>3

\* The start nodes are the first level.
LEMMA LevelsBegin == IInv /\ Levels /\ Begin => Levels'
<1> SUFFICES ASSUME IInv, Levels, Begin PROVE Levels'
  OBVIOUS
<1>1. /\ pc = "begin" /\ UNCHANGED << wf, target, current, path >> /\ current.trail = << >>
      /\ path = << >> /\ Depth' = 0
  BY DEF Begin, question, Levels, IInv, Progress, Depth
<1>2. CASE target \in Starts
  <2>1. pc' = "found"
    BY <1>2 DEF Begin, Starts
  <2> QED
    BY <1>1, <2>1 DEF Levels, Shortest
<1>3. CASE target \notin Starts
  <2>1. pc' = "search" /\ seen' = Starts
    BY <1>3 DEF Begin, Starts
  <2>2. PICK starts \in SetToSeqs(Starts) :
            queue' = [i \in DOMAIN starts |-> Entry(starts[i], << >>)]
    BY <1>3 DEF Begin, Starts
  <2>3. starts \in Seq(Starts)
    BY <2>2, StartsFinite, OrderCovers DEF Starts, IInv, Shape
  <2>4. DOMAIN starts = 1..Len(starts) /\ Len(starts) \in Nat
    BY <2>3
  <2>5. Len(queue') = Len(starts)
    BY <2>2, <2>4
  <2>6. \A i \in 1..Len(queue') : queue'[i].trail = << >>
    BY <2>2, <2>4, <2>5 DEF Entry
  <2>7. \A i \in 1..Len(queue') : Len(queue'[i].trail) = 0
    BY <2>6
  <2>8. InOrder'
    BY <1>1, <2>7 DEF InOrder
  <2>9. Swept(0)'
    <3> SUFFICES ASSUME NEW p \in Seq(wf.edges), NEW n, IsPath(wf, p, n), Len(p) <= 0
                 PROVE  n \in seen'
      BY <1>1 DEF Swept
    <3>1. p = << >>
      OBVIOUS
    <3> QED
      BY <2>1, <3>1 DEF IsPath, Starts
  <2>10. \A i \in 1..Len(queue') : Shortest(wf, queue'[i].trail, queue'[i].node)
    BY <2>7 DEF Shortest
  <2> QED
    BY <1>1, <2>1, <2>8, <2>9, <2>10 DEF Levels, Found
<1> QED
  BY <1>2, <1>3

\* The next node is of the level being expanded, or of the next one when that is done.
LEMMA LevelsDequeue == IInv /\ Levels /\ Dequeue => Levels'
<1> SUFFICES ASSUME IInv, Levels, Dequeue PROVE Levels'
  OBVIOUS
<1>1. /\ pc = "search" /\ pc' = "search" /\ todo = {} /\ UNCHANGED << wf, target, seen, path >>
      /\ queue \in Seq(Item(wf)) /\ queue # << >> /\ InOrder
      /\ current' = queue[1] /\ queue' = Tail(queue)
  BY DEF Dequeue, question, IInv, Shape, Levels
<1>2. /\ Len(queue) \in Nat \ {0} /\ 1 \in 1..Len(queue)
      /\ Len(queue') = Len(queue) - 1
      /\ \A i \in 1..Len(queue') : queue'[i] = queue[i + 1] /\ i + 1 \in 1..Len(queue)
  BY <1>1
<1> DEFINE k == Len(queue[1].trail)
<1>3. k \in Nat /\ Depth \in Nat /\ k \in Depth .. Depth + 1 /\ Depth' = k
  BY <1>1, <1>2 DEF InOrder, Depth, IInv, Shape, Item
<1>4. \A i \in 1..Len(queue) : Len(queue[i].trail) >= k /\ Len(queue[i].trail) \in Depth .. Depth + 1
  BY <1>1, <1>2, <1>3 DEF InOrder
<1>5. Swept(k)
  BY <1>1, <1>3, <1>4, NextLevel
<1>6. Swept(Depth)'
  BY <1>1, <1>3, <1>5 DEF Swept
<1>7. InOrder'
  <2> SUFFICES ASSUME NEW i \in 1..Len(queue')
               PROVE  /\ Len(queue'[i].trail) \in k .. k + 1
                      /\ \A j \in 1..Len(queue') : i <= j => Len(queue'[i].trail) <= Len(queue'[j].trail)
    BY <1>3 DEF InOrder
  <2>1. Len(queue'[i].trail) \in k .. k + 1
    BY <1>2, <1>3, <1>4
  <2>2. ASSUME NEW j \in 1..Len(queue'), i <= j
        PROVE  Len(queue'[i].trail) <= Len(queue'[j].trail)
    BY <1>1, <1>2, <2>2 DEF InOrder
  <2> QED
    BY <2>1, <2>2
<1>8. \A i \in 1..Len(queue') : Shortest(wf, queue'[i].trail, queue'[i].node)
  BY <1>1, <1>2 DEF Levels
<1> QED
  BY <1>1, <1>6, <1>7, <1>8 DEF Levels, Found

\* A node that was not seen is one level further, and no path to it is shorter.
LEMMA LevelsExamine == ASSUME NEW e \in todo, IInv, Levels, Examine(e) PROVE Levels'
<1>1. /\ pc = "search" /\ UNCHANGED << wf, target, current >>
      /\ queue \in Seq(Item(wf)) /\ current \in Item(wf) /\ e \in wf.edges
      /\ InOrder /\ Swept(Depth)
  BY DEF Examine, question, IInv, Shape, Levels
<1>2. Depth \in Nat /\ Depth' = Depth /\ Len(Extended(e)) = Depth + 1
  BY <1>1 DEF Depth, Item, Extended
<1>3. ~ Seen(e) => Shortest(wf, Extended(e), e.target)
  <2> SUFFICES ASSUME ~ Seen(e), NEW q \in Seq(wf.edges), IsPath(wf, q, e.target)
               PROVE  Depth + 1 <= Len(q)
    BY <1>2 DEF Shortest
  <2>1. ~ (Len(q) <= Depth)
    BY <1>1 DEF Swept, Seen
  <2> QED
    BY <1>2, <2>1
<1>4. CASE Seen(e)
  <2>1. UNCHANGED << pc, queue, seen, path >>
    BY <1>1, <1>4 DEF Examine, Seen
  <2> QED
    BY <1>1, <1>2, <2>1 DEF Levels, InOrder, Swept, Found
<1>5. CASE ~ Seen(e) /\ e.target = target
  <2>1. pc' = "found" /\ path' = Extended(e)
    BY <1>1, <1>5 DEF Examine, Seen
  <2> QED
    BY <1>1, <1>3, <1>5, <2>1 DEF Levels
<1>6. CASE ~ Seen(e) /\ e.target # target
  <2> DEFINE new == Entry(e.target, Extended(e))
  <2>1. pc' = pc /\ path' = path /\ seen' = seen \cup {e.target} /\ queue' = Append(queue, new)
    BY <1>1, <1>6 DEF Examine, Seen, Enqueue
  <2>2. new.node = e.target /\ new.trail = Extended(e)
    BY DEF Entry
  <2> HIDE DEF new
  <2>3. /\ Len(queue') = Len(queue) + 1 /\ Len(queue) \in Nat
        /\ queue'[Len(queue')] = new /\ \A i \in 1..Len(queue) : queue'[i] = queue[i]
    BY <1>1, <2>1
  <2>4. \A i \in 1..Len(queue) : Len(queue[i].trail) \in Depth .. Depth + 1
    BY <1>1 DEF InOrder
  <2>5. InOrder'
    <3> SUFFICES ASSUME NEW i \in 1..Len(queue')
                 PROVE  /\ Len(queue'[i].trail) \in Depth .. Depth + 1
                        /\ \A j \in 1..Len(queue') : i <= j => Len(queue'[i].trail) <= Len(queue'[j].trail)
      BY <1>2 DEF InOrder
    <3>1. CASE i = Len(queue')
      BY <1>2, <2>2, <2>3, <3>1
    <3>2. CASE i # Len(queue')
      <4>1. i \in 1..Len(queue) /\ queue'[i] = queue[i]
        BY <2>3, <3>2
      <4>2. ASSUME NEW j \in 1..Len(queue'), i <= j
            PROVE  Len(queue[i].trail) <= Len(queue'[j].trail)
        <5>1. CASE j = Len(queue')
          BY <1>2, <2>2, <2>3, <2>4, <4>1, <5>1
        <5>2. CASE j # Len(queue')
          BY <1>1, <2>3, <4>1, <4>2, <5>2 DEF InOrder
        <5> QED
          BY <5>1, <5>2
      <4> QED
        BY <2>4, <4>1, <4>2
    <3> QED
      BY <3>1, <3>2
  <2>6. Swept(Depth)'
    BY <1>1, <1>2, <2>1 DEF Swept
  <2>7. ASSUME NEW i \in 1..Len(queue') PROVE Shortest(wf, queue'[i].trail, queue'[i].node)
    <3>1. CASE i = Len(queue')
      BY <1>3, <1>6, <2>2, <2>3, <3>1
    <3>2. CASE i # Len(queue')
      BY <1>1, <2>3, <3>2 DEF Levels
    <3> QED
      BY <3>1, <3>2
  <2> QED
    BY <1>1, <2>1, <2>5, <2>6, <2>7 DEF Levels, Found
<1> QED
  BY <1>4, <1>5, <1>6

\* The other steps leave the levels alone.
LEMMA LevelsInductive == IInv /\ Levels /\ [Next]_vars => Levels'
<1> SUFFICES ASSUME IInv, Levels, [Next]_vars PROVE Levels'
  OBVIOUS
<1>1. CASE GiveUp \/ Steer \/ Validate \/ UNCHANGED vars
  <2>1. /\ UNCHANGED << wf, target, queue, seen, current, path >>
        /\ Found' => Found
        /\ pc' \in {"begin", "search"} => pc' = pc
    BY <1>1 DEF GiveUp, Steer, Validate, vars, question, search, Found
  <2> QED
    BY <2>1 DEF Levels, InOrder, Swept, Depth
<1> QED
  BY <1>1, LevelsBegin, LevelsDequeue, LevelsExamine DEF Next
-----------------------------------------------------------------------------
(***************************************************************************)
(* What is reached within some number of edges, and the paths that reach it.   *)
(***************************************************************************)

\* The least-number principle.
LEMMA LeastNumber ==
    ASSUME NEW T \in SUBSET Nat, T # {}
    PROVE  \E n \in T : \A m \in T : n <= m
<1>1. PICK n \in T : \A m \in T : ~ (<< m, n >> \in OpToRel(<, Nat))
  BY NatLessThanWellFounded, WFMin
<1>2. \A m \in T : ~ (m < n)
  BY <1>1 DEF OpToRel
<1> QED
  BY <1>2

\* The nodes of N and those one edge further.
Further(w, N) == N \cup {e.target : e \in {d \in w.edges : d.source \in N}}

\* g lists what is reached within 0, 1, ... and n edges.
Spreads(w, g, n) ==
    /\ g = [k \in 0..n |-> g[k]]
    /\ \A k \in 0..n : g[k] = IF k = 0 THEN start_node_ids(w) ELSE Further(w, g[k - 1])

\* There is such a list of every length.
LEMMA SpreadExists ==
    ASSUME NEW w, NEW n \in Nat
    PROVE  \E g : Spreads(w, g, n)
<1> DEFINE Missing == {k \in Nat : ~ \E g : Spreads(w, g, k)}
<1>1. Missing = {}
  <2> SUFFICES ASSUME Missing # {} PROVE FALSE
    OBVIOUS
  <2>1. PICK m \in Missing : \A k \in Missing : m <= k
    <3>1. Missing \in SUBSET Nat
      OBVIOUS
    <3> HIDE DEF Missing
    <3> QED
      BY <3>1, LeastNumber
  <2>2. CASE m = 0
    <3> DEFINE g == [k \in 0..0 |-> start_node_ids(w)]
    <3>1. Spreads(w, g, 0)
      BY DEF Spreads
    <3> QED
      BY <2>2, <3>1
  <2>3. CASE m # 0
    <3>1. m - 1 \in Nat /\ m - 1 \notin Missing
      BY <2>1, <2>3
    <3>2. PICK h : Spreads(w, h, m - 1)
      BY <3>1
    <3> DEFINE g == [k \in 0..m |-> IF k = m THEN Further(w, h[m - 1]) ELSE h[k]]
    <3>3. \A k \in 0..(m - 1) : k \in 0..m /\ g[k] = h[k]
      BY <3>1
    <3>4. m \in 0..m /\ g[m] = Further(w, g[m - 1])
      BY <3>1, <3>3
    <3>5. g = [k \in 0..m |-> g[k]]
      OBVIOUS
    <3> HIDE DEF g
    <3>6. ASSUME NEW k \in 0..m
          PROVE  g[k] = IF k = 0 THEN start_node_ids(w) ELSE Further(w, g[k - 1])
      <4>1. CASE k = m
        BY <2>3, <3>4, <4>1
      <4>2. CASE k # m
        <5>1. k \in 0..(m - 1) /\ (k # 0 => k - 1 \in 0..(m - 1))
          BY <3>1, <4>2
        <5>2. h[k] = IF k = 0 THEN start_node_ids(w) ELSE Further(w, h[k - 1])
          BY <3>2, <5>1 DEF Spreads
        <5> QED
          BY <3>3, <5>1, <5>2
      <4> QED
        BY <4>1, <4>2
    <3>7. Spreads(w, g, m)
      BY <3>5, <3>6 DEF Spreads
    <3> QED
      BY <3>7
  <2> QED
    BY <2>2, <2>3
<1> QED
  BY <1>1

\* Two such lists agree as far as both go.
LEMMA SpreadIsUnique ==
    ASSUME NEW w, NEW n \in Nat, NEW m \in Nat, NEW g, NEW h, Spreads(w, g, n), Spreads(w, h, m),
           NEW k \in Nat, k <= n, k <= m
    PROVE  g[k] = h[k]
<1> DEFINE Differ == {i \in Nat : i <= n /\ i <= m /\ g[i] # h[i]}
<1>1. Differ = {}
  <2> SUFFICES ASSUME Differ # {} PROVE FALSE
    OBVIOUS
  <2>1. PICK i \in Differ : \A j \in Differ : i <= j
    <3>1. Differ \in SUBSET Nat
      OBVIOUS
    <3> HIDE DEF Differ
    <3> QED
      BY <3>1, LeastNumber
  <2>2. i \in 0..n /\ i \in 0..m
    OBVIOUS
  <2>3. /\ g[i] = IF i = 0 THEN start_node_ids(w) ELSE Further(w, g[i - 1])
        /\ h[i] = IF i = 0 THEN start_node_ids(w) ELSE Further(w, h[i - 1])
    BY <2>2 DEF Spreads
  <2>4. i # 0 => i - 1 \in Nat /\ i - 1 \notin Differ
    BY <2>1
  <2>5. i # 0 => g[i - 1] = h[i - 1]
    BY <2>4
  <2> QED
    BY <2>3, <2>5
<1> QED
  BY <1>1

\* So Within is what its definition says.
LEMMA WithinSpreads ==
    /\ Within[0] = start_node_ids(wf)
    /\ \A k \in Nat \ {0} : Within[k] = Further(wf, Within[k - 1])
<1> DEFINE list == [n \in Nat |-> CHOOSE g : Spreads(wf, g, n)]
           f == [k \in Nat |-> list[k][k]]
<1>1. \A n \in Nat : Spreads(wf, list[n], n)
  BY SpreadExists
<1> HIDE DEF list
<1>2. f[0] = start_node_ids(wf)
  <2>1. Spreads(wf, list[0], 0) /\ 0 \in 0..0
    BY <1>1
  <2>2. list[0][0] = start_node_ids(wf)
    BY <2>1 DEF Spreads
  <2> QED
    BY <2>2
<1>3. ASSUME NEW k \in Nat \ {0} PROVE f[k] = Further(wf, f[k - 1])
  <2>1. k - 1 \in Nat /\ k \in 0..k
    OBVIOUS
  <2>2. list[k][k] = Further(wf, list[k][k - 1])
    BY <1>1, <2>1 DEF Spreads
  <2>3. list[k][k - 1] = list[k - 1][k - 1]
    <3>1. /\ Spreads(wf, list[k], k) /\ Spreads(wf, list[k - 1], k - 1)
          /\ k \in Nat /\ k - 1 <= k /\ k - 1 <= k - 1
      BY <1>1, <2>1
    <3>2. ASSUME NEW g, NEW h, Spreads(wf, g, k), Spreads(wf, h, k - 1) PROVE g[k - 1] = h[k - 1]
      <4> DEFINE j == k - 1
      <4>1. j \in Nat /\ k \in Nat /\ j <= k /\ j <= j
        BY <3>1
      <4>2. Spreads(wf, h, j)
        BY <3>2
      <4> HIDE DEF j
      <4>3. g[j] = h[j]
        BY <4>1, <4>2, <3>2, SpreadIsUnique
      <4> QED
        BY <4>3 DEF j
    <3> QED
      BY <3>1, <3>2
  <2> QED
    BY <2>1, <2>2, <2>3
<1>4. f = [k \in Nat |-> IF k = 0 THEN start_node_ids(wf)
                         ELSE f[k - 1] \cup {e.target : e \in {d \in wf.edges : d.source \in f[k - 1]}}]
  <2>1. f = [k \in Nat |-> f[k]]
    OBVIOUS
  <2> HIDE DEF f
  <2>2. \A k \in Nat : f[k] = IF k = 0 THEN start_node_ids(wf)
                         ELSE f[k - 1] \cup {e.target : e \in {d \in wf.edges : d.source \in f[k - 1]}}
    BY <1>2, <1>3 DEF Further
  <2> QED
    BY <2>1, <2>2
<1> HIDE DEF f
<1>5. Within = [k \in Nat |-> IF k = 0 THEN start_node_ids(wf)
                     ELSE Within[k - 1] \cup {e.target : e \in {d \in wf.edges : d.source \in Within[k - 1]}}]
  BY <1>4 DEF Within
<1>6. \A k \in Nat : Within[k] = IF k = 0 THEN start_node_ids(wf)
                     ELSE Within[k - 1] \cup {e.target : e \in {d \in wf.edges : d.source \in Within[k - 1]}}
  BY <1>5
<1> QED
  BY <1>6 DEF Further

\* What is reached within k edges is reached by a path of at most k edges.
LEMMA PathsReachWithin ==
    ASSUME NEW k \in Nat, NEW n \in Within[k]
    PROVE  \E p \in Seq(wf.edges) : IsPath(wf, p, n) /\ Len(p) <= k
<1> DEFINE Short(i, m) == \E p \in Seq(wf.edges) : IsPath(wf, p, m) /\ Len(p) <= i
           Wrong == {i \in Nat : \E m \in Within[i] : ~ Short(i, m)}
<1>1. Wrong = {}
  <2> SUFFICES ASSUME Wrong # {} PROVE FALSE
    OBVIOUS
  <2>1. PICK i \in Wrong : \A j \in Wrong : i <= j
    <3>1. Wrong \in SUBSET Nat
      OBVIOUS
    <3> HIDE DEF Wrong
    <3> QED
      BY <3>1, LeastNumber
  <2>2. PICK m \in Within[i] : ~ Short(i, m)
    OBVIOUS
  <2>3. CASE i = 0
    <3>1. IsPath(wf, << >>, m) /\ << >> \in Seq(wf.edges) /\ Len(<< >>) = 0
      BY <2>2, <2>3, WithinSpreads DEF IsPath
    <3>2. Len(<< >>) <= i
      BY <2>3, <3>1
    <3> QED
      BY <2>2, <3>1, <3>2
  <2>4. CASE i # 0
    <3>1. i - 1 \in Nat /\ i - 1 \notin Wrong
      BY <2>1, <2>4
    <3>2. \A l \in Within[i - 1] : Short(i - 1, l)
      BY <3>1
    <3>3. m \in Further(wf, Within[i - 1])
      BY <2>2, <2>4, WithinSpreads
    <3>4. CASE m \in Within[i - 1]
      <4>1. PICK p \in Seq(wf.edges) : IsPath(wf, p, m) /\ Len(p) <= i - 1
        BY <3>2, <3>4
      <4>2. Len(p) \in Nat /\ Len(p) <= i
        BY <3>1, <4>1
      <4> QED
        BY <2>2, <4>1, <4>2
    <3>5. CASE m \notin Within[i - 1]
      <4>1. PICK e \in wf.edges : e.source \in Within[i - 1] /\ e.target = m
        BY <3>3, <3>5 DEF Further
      <4>2. PICK p \in Seq(wf.edges) : IsPath(wf, p, e.source) /\ Len(p) <= i - 1
        BY <3>2, <4>1
      <4>3. IsPath(wf, Append(p, e), m) /\ Append(p, e) \in Seq(wf.edges)
        BY <4>1, <4>2, PathExtends
      <4>4. Len(Append(p, e)) = Len(p) + 1 /\ Len(p) \in Nat
        OBVIOUS
      <4>5. Len(Append(p, e)) <= i
        BY <3>1, <4>2, <4>4
      <4> QED
        BY <2>2, <4>3, <4>5
    <3> QED
      BY <3>4, <3>5
  <2> QED
    BY <2>3, <2>4
<1> QED
  BY <1>1

\* The path that the search answers with is a shortest one (reachability.py 53-74).
THEOREM AnswersAreShortest == Spec => []PathIsShortest
<1>1. Init => Levels
  BY DEF Init, Levels, Entry, Found
<1>2. ASSUME IInv, Levels PROVE PathIsShortest
  <2> SUFFICES ASSUME Found PROVE /\ IsPath(wf, path, target)
                                  /\ path # << >> => target \notin Within[Len(path) - 1]
    BY DEF PathIsShortest
  <2>1. IsPath(wf, path, target) /\ Shortest(wf, path, target)
    BY <1>2 DEF IInv, PathLeadsThere, Levels
  <2>2. ASSUME path # << >>, target \in Within[Len(path) - 1] PROVE FALSE
    <3>1. path \in Seq(wf.edges) /\ Len(path) \in Nat
      BY <2>1 DEF IsPath
    <3>2. Len(path) - 1 \in Nat
      BY <2>2, <3>1
    <3>3. PICK p \in Seq(wf.edges) : IsPath(wf, p, target) /\ Len(p) <= Len(path) - 1
      BY <2>2, <3>2, PathsReachWithin
    <3>4. Len(path) <= Len(p) /\ Len(p) \in Nat
      BY <2>1, <3>3 DEF Shortest
    <3> QED
      BY <3>1, <3>3, <3>4
  <2> QED
    BY <2>1, <2>2
<1> QED
  BY <1>1, <1>2, InitEstablishes, NextPreserves, LevelsInductive, PTL DEF Spec
-----------------------------------------------------------------------------
(***************************************************************************)
(* The score.  Findings are finitely many, so a set of them that counts for    *)
(* nothing is empty.                                                         *)
(***************************************************************************)

\* A finite set has finitely many images.
LEMMA FiniteImage ==
    ASSUME NEW S, IsFiniteSet(S), NEW f
    PROVE  IsFiniteSet({f[x] : x \in S})
<1> DEFINE g == [x \in S |-> f[x]]
<1>1. g \in Surjection(S, {f[x] : x \in S})
  BY DEF Surjection
<1> QED
  BY <1>1, FS_Surjection

\* A rule that looks at finitely many things finds finitely much.
LEMMA FindingsFinite ==
    ASSUME NEW rule, NEW S, IsFiniteSet(S)
    PROVE  IsFiniteSet(Finding(rule, S))
<1> DEFINE f == [x \in S |-> << rule, x >>]
<1>1. Finding(rule, S) = {f[x] : x \in S}
  BY DEF Finding
<1> HIDE DEF f
<1> QED
  BY <1>1, FiniteImage

\* The graph of a workflow is finite.
LEMMA GraphIsFinite ==
    ASSUME NEW w \in Workflow
    PROVE  IsFiniteSet(NodeIds(w)) /\ IsFiniteSet(GraphNodes(w))
<1>1. IsFiniteSet(w.nodes) /\ IsFiniteSet(w.edges)
  BY WorkflowAssumption
<1> DEFINE id == [n \in w.nodes |-> n.id]
           target_of == [e \in w.edges |-> e.target]
           source_of == [e \in w.edges |-> e.source]
<1>2. NodeIds(w) = {id[n] : n \in w.nodes} /\ Targets(w) = {target_of[e] : e \in w.edges}
      /\ Sources(w) = {source_of[e] : e \in w.edges}
  BY DEF NodeIds, Targets, Sources
<1> HIDE DEF id, target_of, source_of
<1>3. IsFiniteSet(NodeIds(w)) /\ IsFiniteSet(Targets(w)) /\ IsFiniteSet(Sources(w))
  BY <1>1, <1>2, FiniteImage
<1>4. IsFiniteSet(NodeIds(w) \cup Targets(w))
  BY <1>3, FS_Union
<1> QED
  BY <1>3, <1>4, FS_Union DEF GraphNodes

\* A cycle is determined by the pairs of a node and the next.
LEMMA CyclesAreFinite ==
    ASSUME NEW w \in Workflow
    PROVE  IsFiniteSet(SimpleCycles(w))
<1> DEFINE G == GraphNodes(w)
           C == SimpleCycles(w)
           pairs == [f \in C |-> {<< n, f[n] >> : n \in DOMAIN f}]
<1>1. \A f \in C : \E S \in SUBSET G : f \in [S -> S]
  BY DEF SimpleCycles
<1>2. IsFiniteSet(G)
  BY GraphIsFinite
<1> HIDE DEF C, G
<1>3. IsFiniteSet(SUBSET (G \X G))
  BY <1>2, FS_Product, FS_SUBSET
<1>4. ASSUME NEW f \in C PROVE {<< n, f[n] >> : n \in DOMAIN f} \in SUBSET (G \X G)
  <2>1. PICK S \in SUBSET G : f \in [S -> S]
    BY <1>1
  <2>2. \A n \in DOMAIN f : n \in G /\ f[n] \in G
    BY <2>1
  <2> QED
    BY <2>2
<1>5. pairs \in [C -> SUBSET (G \X G)]
  BY <1>4
<1>6. ASSUME NEW f \in C, NEW g \in C, pairs[f] = pairs[g] PROVE f = g
  <2>1. PICK S \in SUBSET G : f \in [S -> S]
    BY <1>1
  <2>2. PICK T \in SUBSET G : g \in [T -> T]
    BY <1>1
  <2>3. {<< n, f[n] >> : n \in S} = {<< n, g[n] >> : n \in T}
    BY <1>6, <2>1, <2>2
  <2>4. ASSUME NEW n \in S PROVE n \in T /\ g[n] = f[n]
    <3>1. << n, f[n] >> \in {<< m, g[m] >> : m \in T}
      BY <2>3
    <3> QED
      BY <3>1
  <2>5. ASSUME NEW n \in T PROVE n \in S
    <3>1. << n, g[n] >> \in {<< m, f[m] >> : m \in S}
      BY <2>3
    <3> QED
      BY <3>1
  <2>6. S = T
    BY <2>4, <2>5
  <2> QED
    BY <2>1, <2>2, <2>4, <2>6
<1> HIDE DEF pairs
<1>7. pairs \in Injection(C, SUBSET (G \X G))
  BY <1>5, <1>6, Fun_IsInj
<1>8. IsFiniteSet(C)
  BY <1>3, <1>7, FS_Injection
<1> QED
  BY <1>8 DEF C

\* So are the findings of each severity.
LEMMA FindingsOfWorkflowFinite ==
    ASSUME NEW w \in Workflow
    PROVE  IsFiniteSet(Criticals(w)) /\ IsFiniteSet(Errors(w)) /\ IsFiniteSet(Warnings(w))
<1>1. /\ \A S \in SUBSET w.nodes : IsFiniteSet(S)
      /\ \A S \in SUBSET w.edges : IsFiniteSet(S)
      /\ \A S \in SUBSET NodeIds(w) : IsFiniteSet(S)
  BY WorkflowAssumption, GraphIsFinite, FS_Subset
<1>2. \A A, B : IsFiniteSet(A) /\ IsFiniteSet(B) => IsFiniteSet(A \cup B)
  BY FS_Union
<1>3. \A P \in BOOLEAN : IsFiniteSet(IF P THEN {"workflow"} ELSE {})
  BY FS_EmptySet, FS_Singleton
<1>4. IsFiniteSet(Criticals(w))
  <2>1. IsFiniteSet(EmptyWorkflow(w))
    BY <1>3, FindingsFinite DEF EmptyWorkflow
  <2>2. {n.id : n \in {m \in w.nodes : \E k \in w.nodes \ {m} : k.id = m.id}} \in SUBSET NodeIds(w)
    BY DEF NodeIds
  <2>3. IsFiniteSet(DuplicateNodeId(w))
    BY <1>1, <2>2, FindingsFinite DEF DuplicateNodeId
  <2> QED
    BY <1>2, <2>1, <2>3 DEF Criticals
<1>5. IsFiniteSet(Errors(w))
  <2>1. IsFiniteSet(MissingStart(w)) /\ IsFiniteSet(DisconnectedComponents(w))
    BY <1>3, FindingsFinite DEF MissingStart, DisconnectedComponents
  <2>2. IsFiniteSet(InvalidEdgeReference(w))
    BY <1>1, <1>2, FindingsFinite DEF InvalidEdgeReference
  <2>3. IsFiniteSet(Reachability(w))
    BY <1>1, FindingsFinite DEF Reachability
  <2>4. IsFiniteSet(OrphanNode(w))
    BY <1>1, FindingsFinite DEF OrphanNode
  <2>5. IsFiniteSet(InvalidEdgeReference(w) \cup MissingStart(w) \cup Reachability(w))
    BY <1>2, <2>1, <2>2, <2>3
  <2> QED
    BY <1>2, <2>1, <2>4, <2>5 DEF Errors
<1>6. IsFiniteSet(Warnings(w))
  <2>1. IsFiniteSet(MissingTerminal(w))
    BY <1>3, FindingsFinite DEF MissingTerminal
  <2>2. IsFiniteSet(DeadEnd(w))
    BY <1>1, FindingsFinite DEF DeadEnd
  <2>3. IsFiniteSet(SuspiciousCycle(w))
    BY CyclesAreFinite, FindingsFinite DEF SuspiciousCycle
  <2>4. {n \in Executable(w) : ~ n.configured} \in SUBSET w.nodes
    BY DEF Executable
  <2>5. IsFiniteSet(MissingConfiguration(w))
    BY <1>1, <2>4, FindingsFinite DEF MissingConfiguration
  <2>6. IsFiniteSet(InvalidCondition(w))
    BY <1>1, FindingsFinite DEF InvalidCondition
  <2>7. IsFiniteSet(MissingTerminal(w) \cup DeadEnd(w) \cup SuspiciousCycle(w))
    BY <1>2, <2>1, <2>2, <2>3
  <2> QED
    BY <1>2, <2>5, <2>6, <2>7 DEF Warnings
<1> QED
  BY <1>4, <1>5, <1>6

\* A share of five points is rounded to five at most.
LEMMA RoundedShare ==
    ASSUME NEW d \in Nat \ {0}, NEW c \in Nat, c <= d
    PROVE  Round(5 * c, d) \in 0 .. 5
<1> DEFINE floor == (5 * c) \div d
           rest == (5 * c) % d
<1>1. 5 * c \in Nat /\ 5 * c <= 5 * d
  OBVIOUS
<1>2. 5 * c = d * floor + rest /\ floor \in Nat /\ rest \in 0 .. d - 1
  BY <1>1
<1>3. Round(5 * c, d) = IF 2 * rest > d \/ (2 * rest = d /\ floor % 2 = 1) THEN floor + 1 ELSE floor
  BY DEF Round
<1> HIDE DEF floor, rest
<1>4. floor <= 5
  <2> SUFFICES ASSUME floor >= 6 PROVE FALSE
    BY <1>2
  <2>1. d * floor >= d * 6
    BY <1>2
  <2> QED
    BY <1>1, <1>2, <2>1
<1>5. floor = 5 => rest = 0
  BY <1>1, <1>2
<1>6. CASE floor = 5
  <2>1. rest = 0
    BY <1>5, <1>6
  <2> QED
    BY <1>2, <1>3, <1>6, <2>1
<1>7. CASE floor # 5
  BY <1>2, <1>3, <1>4, <1>7
<1> QED
  BY <1>6, <1>7

\* So the bonus is at most five points (scoring.py, completeness).
LEMMA BonusIsSmall ==
    ASSUME NEW w \in Workflow
    PROVE  CompletenessBonus(w) \in 0 .. 5
<1> DEFINE E == Executable(w)
           C == {n \in E : n.configured}
<1>1. IsFiniteSet(E)
  BY WorkflowAssumption, FS_Subset DEF Executable
<1>2. C \subseteq E
  OBVIOUS
<1>3. CompletenessBonus(w) = IF E = {} THEN 0 ELSE Round(5 * Cardinality(C), Cardinality(E))
  BY DEF CompletenessBonus
<1> HIDE DEF E, C
<1>4. Cardinality(C) \in Nat /\ Cardinality(C) <= Cardinality(E) /\ Cardinality(E) \in Nat
  BY <1>1, <1>2, FS_Subset, FS_CardinalityType
<1>5. E # {} => Cardinality(E) # 0
  BY <1>1, FS_EmptySet
<1> QED
  BY <1>3, <1>4, <1>5, RoundedShare

\* No bonus makes up for a finding.
LEMMA PerfectIsClean ==
    ASSUME NEW w \in Workflow
    PROVE  structural_quality_score(w) = 100 <=> Findings(w) = {}
<1> DEFINE c == Cardinality(Criticals(w))
           e == Cardinality(Errors(w))
           k == Cardinality(Warnings(w))
           bonus == CompletenessBonus(w)
<1>1. c \in Nat /\ e \in Nat /\ k \in Nat
  BY FindingsOfWorkflowFinite, FS_CardinalityType
<1>2. Findings(w) = {} <=> c = 0 /\ e = 0 /\ k = 0
  BY FindingsOfWorkflowFinite, FS_EmptySet DEF Findings
<1>3. bonus \in 0 .. 5
  BY BonusIsSmall
<1>4. w.nodes = {} => Findings(w) # {}
  BY DEF Findings, Criticals, EmptyWorkflow, Finding
<1>5. structural_quality_score(w) =
          LET score == 100 - (35 * c + 15 * e + 6 * k) + bonus
          IN  IF w.nodes = {} \/ score < 0 THEN 0 ELSE IF score > 100 THEN 100 ELSE score
  BY DEF structural_quality_score, Penalty
<1> HIDE DEF c, e, k, bonus
<1> QED
  BY <1>1, <1>2, <1>3, <1>4, <1>5

\* A workflow scores 100 exactly when no rule finds anything (scoring.py 17-34).
THEOREM PerfectIsWithoutFindings == Spec => []PerfectMeansClean
<1>1. IInv => PerfectMeansClean
  BY PerfectIsClean DEF IInv, Shape, ReportIsAboutTheWorkflow, PerfectMeansClean
<1> QED
  BY <1>1, InitEstablishes, NextPreserves, PTL DEF Spec
-----------------------------------------------------------------------------
(* The input.  A clause the solver can read is true of the value solved for its *)
(* field, and that value is still there after all updates if no other clause    *)
(* solved on the way tests the field.                                         *)

\* A field that one update alone gives has the value of that update.
LEMMA UpdatedAt ==
    ASSUME NEW state, NEW updates, DOMAIN updates \subseteq Int,
           NEW i \in DOMAIN updates, NEW f \in DOMAIN updates[i],
           \A j \in DOMAIN updates : f \in DOMAIN updates[j] => j = i
    PROVE  /\ f \in DOMAIN Updated(state, updates)
           /\ Updated(state, updates)[f] = updates[i][f]
<1> DEFINE giving(field) == {j \in DOMAIN updates : field \in DOMAIN updates[j]}
           fields == DOMAIN state \cup UNION {DOMAIN updates[j] : j \in DOMAIN updates}
           after == [field \in fields |-> IF giving(field) = {} THEN state[field]
                                          ELSE updates[Max(giving(field))][field]]
<1>1. Updated(state, updates) = after
  BY DEF Updated
<1>2. giving(f) = {i}
  OBVIOUS
<1>3. Max({i}) = i
  BY DEF Max
<1>4. f \in fields
  OBVIOUS
<1> HIDE DEF giving, fields
<1>5. f \in DOMAIN after /\ after[f] = updates[i][f]
  BY <1>2, <1>3, <1>4
<1>6. QED
  BY <1>1, <1>5

\* Updates of the empty state give the fields they give.
LEMMA UpdatedFields ==
    ASSUME NEW updates, NEW f \in DOMAIN Updated(<< >>, updates)
    PROVE  \E i \in DOMAIN updates : f \in DOMAIN updates[i]
<1>1. DOMAIN << >> = {}
  OBVIOUS
<1>2. f \in DOMAIN << >> \cup UNION {DOMAIN updates[i] : i \in DOMAIN updates}
  BY DEF Updated
<1>3. QED
  BY <1>1, <1>2

\* What a clause is solved for, if it is.
Solution(c) == _value_for(IF c.flipped THEN _mirror(c.op) ELSE c.op, c.value)

\* A clause the solver can read.
Readable(c) ==
    /\ c.form = "comparison"
    /\ c.value.kind = "text" => c.op \in {"==", "!="}
    /\ c.value.kind = "bool" => c.op \notin {"<", ">"}

LEMMA ClauseSolution ==
    ASSUME NEW c, NEW f
    PROVE  /\ f \in DOMAIN _solve_clause(c) => f = c.field
           /\ (c.form = "comparison" /\ Solution(c) # Unsolved) =>
                  c.field \in DOMAIN _solve_clause(c) /\ _solve_clause(c)[c.field] = Solution(c)
<1>1. DOMAIN << >> = {}
  OBVIOUS
<1>2. _solve_clause(c) = IF c.form # "comparison" \/ Solution(c) = Unsolved THEN << >>
                         ELSE [g \in {c.field} |-> Solution(c)]
  BY DEF _solve_clause, Solution
<1>3. QED
  BY <1>1, <1>2

\* The value solved for an operator and a literal satisfies the comparison with it.
LEMMA ValueSolves ==
    ASSUME NEW x \in Value, NEW op \in Operators,
           x.kind = "text" => op \in {"==", "!="},
           x.kind = "bool" => op \notin {"<", ">"}
    PROVE  /\ _value_for(op, x) \in Value
           /\ Compare(op, _value_for(op, x), x)
<1>1. CASE x.kind = "bool"
  <2>1. x.v \in {0, 1} /\ x = [kind |-> "bool", v |-> x.v]
    BY <1>1 DEF Value
  <2>2. CASE op = "!="
    BY <1>1, <2>1, <2>2 DEF Value, _value_for, Compare, Bool, IsNumber
  <2>3. CASE op \in {"==", ">=", "<="}
    BY <1>1, <2>1, <2>3 DEF Value, _value_for, Compare, IsNumber
  <2>4. QED
    BY <1>1, <2>2, <2>3 DEF Operators
<1>2. CASE x.kind = "num"
  <2>1. x.v \in Int /\ x \in Value
    BY <1>2 DEF Value
  <2>2. CASE op \in {"!=", ">"}
    BY <1>2, <2>1, <2>2 DEF Value, _value_for, Compare, Num, IsNumber
  <2>3. CASE op = "<"
    BY <1>2, <2>1, <2>3 DEF Value, _value_for, Compare, Num, IsNumber
  <2>4. CASE op \in {"==", ">=", "<="}
    BY <1>2, <2>1, <2>4 DEF Value, _value_for, Compare, IsNumber
  <2>5. QED
    BY <2>2, <2>3, <2>4 DEF Operators
<1>3. CASE x.kind = "text"
  <2>1. x.v \in Int /\ x \in Value
    BY <1>3 DEF Value
  <2>2. CASE op = "=="
    BY <1>3, <2>1, <2>2 DEF _value_for, Compare, IsNumber
  <2>3. CASE op = "!="
    BY <1>3, <2>1, <2>3
    DEF Value, _value_for, Compare, Text, IsNumber, DifferentText, OtherText
  <2>4. QED
    BY <1>3, <2>2, <2>3
<1>4. QED
  BY <1>1, <1>2, <1>3 DEF Value

\* A comparison written backwards is the mirrored one.
LEMMA MirrorTurns ==
    ASSUME NEW x \in Value, NEW y \in Value, NEW op \in Operators
    PROVE  /\ _mirror(op) \in Operators
           /\ Compare(_mirror(op), x, y) <=> Compare(op, y, x)
<1>1. x.v \in Int /\ y.v \in Int
  BY DEF Value
<1>2. /\ op = ">" => _mirror(op) = "<"
      /\ op = "<" => _mirror(op) = ">"
      /\ op = ">=" => _mirror(op) = "<="
      /\ op = "<=" => _mirror(op) = ">="
      /\ op = "==" => _mirror(op) = "=="
      /\ op = "!=" => _mirror(op) = "!="
  BY DEF _mirror
<1>3. QED
  BY <1>1, <1>2 DEF Operators, Compare

LEMMA ClauseSolved ==
    ASSUME NEW c \in Clause, Readable(c)
    PROVE  /\ c.field \in DOMAIN _solve_clause(c)
           /\ \A state : (/\ c.field \in DOMAIN state
                          /\ state[c.field] = _solve_clause(c)[c.field]) => ClauseHolds(c, state)
<1> DEFINE op == IF c.flipped THEN _mirror(c.op) ELSE c.op
<1>1. c.op \in Operators /\ c.value \in Value /\ c.flipped \in BOOLEAN
  BY DEF Clause
<1>2. /\ op \in Operators
      /\ c.value.kind = "text" => op \in {"==", "!="}
      /\ c.value.kind = "bool" => op \notin {"<", ">"}
  BY <1>1 DEF Operators, _mirror, Readable
<1>3. Solution(c) = _value_for(op, c.value)
  BY DEF Solution
<1> HIDE DEF op
<1>4. Solution(c) \in Value /\ Compare(op, Solution(c), c.value)
  BY ONLY <1>1, <1>2, <1>3, ValueSolves
<1>5. Solution(c) # Unsolved
  BY <1>4 DEF Value, Unsolved
<1>6. IF c.flipped THEN Compare(c.op, c.value, Solution(c)) ELSE Compare(c.op, Solution(c), c.value)
  BY <1>1, <1>4, MirrorTurns DEF op
<1>7. c.form = "comparison"
  BY DEF Readable
<1>8. c.field \in DOMAIN _solve_clause(c) /\ _solve_clause(c)[c.field] = Solution(c)
  BY ONLY <1>5, <1>7, ClauseSolution
<1>9. ASSUME NEW state, c.field \in DOMAIN state, state[c.field] = _solve_clause(c)[c.field]
      PROVE  ClauseHolds(c, state)
  <2>1. resolve_token(c.field, state) = Solution(c)
    BY <1>8, <1>9 DEF resolve_token
  <2>2. QED
    BY <1>6, <1>7, <2>1 DEF ClauseHolds
<1>10. QED
  BY <1>8, <1>9

\* The clauses of a condition are clauses, and it has some.
LEMMA ClausesWritten ==
    ASSUME NEW cond, IsWritten(cond), IsCondition(cond)
    PROVE  /\ cond.parts \in Seq(Seq(Clause)) /\ cond.parts # << >>
           /\ ClausesSolved(cond) \in Seq(Clause)
           /\ 1 \in DOMAIN ClausesSolved(cond) /\ ClausesSolved(cond)[1] = cond.parts[1][1]
<1>1. cond \notin {Absent, Blank}
  BY DEF IsCondition, Absent, Blank
<1>2. /\ cond.parts \in Seq(Seq(Clause)) /\ cond.parts # << >>
      /\ \A i \in DOMAIN cond.parts : cond.parts[i] # << >>
  BY <1>1 DEF IsWritten
<1>3. 1 \in DOMAIN cond.parts /\ cond.parts[1] \in Seq(Clause) /\ cond.parts[1] # << >>
  BY <1>2
<1>4. 1 \in DOMAIN cond.parts[1] /\ cond.parts[1][1] \in Clause
  BY <1>3
<1>5. CASE Len(cond.parts) > 1
  BY <1>2, <1>4, <1>5 DEF ClausesSolved
<1>6. CASE ~ (Len(cond.parts) > 1)
  BY <1>2, <1>3, <1>4, <1>6 DEF ClausesSolved
<1>7. QED
  BY <1>5, <1>6

\* What is solved for a condition is about fields its clauses test.
LEMMA SolvedFields ==
    ASSUME NEW cond, IsWritten(cond), NEW f \in DOMAIN satisfying_state(cond)
    PROVE  IsCondition(cond) /\ \E k \in DOMAIN ClausesSolved(cond) : ClausesSolved(cond)[k].field = f
<1> DEFINE clauses == ClausesSolved(cond)
           updates == [k \in DOMAIN clauses |-> _solve_clause(clauses[k])]
<1>1. IsCondition(cond)
  <2>1. DOMAIN << >> = {}
    OBVIOUS
  <2>2. QED
    BY <2>1 DEF satisfying_state
<1>2. /\ clauses \in Seq(Clause) /\ 1 \in DOMAIN clauses
      /\ clauses[1] = cond.parts[1][1]
  BY <1>1, ClausesWritten
<1>3. CASE cond.spelling = "words"
  <2> DEFINE c == cond.parts[1][1]
             read == [c EXCEPT !.value = Text(OtherText + 1)]
  <2>1. f \in DOMAIN _solve_words(cond)
    BY <1>1, <1>3 DEF satisfying_state
  <2>2. f \in DOMAIN _solve_clause(read)
    <3>1. DOMAIN << >> = {}
      OBVIOUS
    <3>2. QED
      BY <2>1, <3>1 DEF _solve_words
  <2>3. c \in Clause
    BY <1>2
  <2>4. read.field = c.field
    BY <2>3 DEF Clause
  <2> HIDE DEF c, read
  <2>5. f = c.field
    BY ONLY <2>2, <2>4, ClauseSolution
  <2>6. QED
    BY <1>1, <1>2, <2>5 DEF c
<1>4. CASE cond.spelling # "words"
  <2>1. satisfying_state(cond) = Updated(<< >>, updates)
    BY <1>1, <1>4 DEF satisfying_state
  <2> HIDE DEF updates
  <2>2. f \in DOMAIN Updated(<< >>, updates)
    BY <2>1
  <2>3. PICK k \in DOMAIN updates : f \in DOMAIN updates[k]
    BY ONLY <2>2, UpdatedFields
  <2>4. k \in DOMAIN clauses /\ f \in DOMAIN _solve_clause(clauses[k])
    BY <2>3 DEF updates
  <2>5. f = clauses[k].field
    BY ONLY <2>4, ClauseSolution
  <2>6. QED
    BY <1>1, <2>4, <2>5
<1>5. QED
  BY <1>3, <1>4

\* A condition the solver can read holds where its clauses' fields have what they were
\* solved for.
LEMMA ConditionSolved ==
    ASSUME NEW cond, IsWritten(cond), Solvable(cond), NEW state,
           \A k \in DOMAIN ClausesSolved(cond) :
               LET c == ClausesSolved(cond)[k]
               IN  c.field \in DOMAIN state /\ state[c.field] = _solve_clause(c)[c.field]
    PROVE  evaluate_condition(cond, state)
<1> DEFINE clauses == ClausesSolved(cond)
<1>1. IsCondition(cond)
  BY DEF Solvable, IsCondition
<1>2. /\ cond.parts \in Seq(Seq(Clause)) /\ cond.parts # << >>
      /\ clauses \in Seq(Clause) /\ 1 \in DOMAIN clauses /\ clauses[1] = cond.parts[1][1]
  BY <1>1, ClausesWritten
<1>3. \A k \in DOMAIN clauses : clauses[k] \in Clause /\ Readable(clauses[k])
  BY <1>2 DEF Solvable, Readable
<1>4. \A k \in DOMAIN clauses : ClauseHolds(clauses[k], state)
  <2> SUFFICES ASSUME NEW k \in DOMAIN clauses PROVE ClauseHolds(clauses[k], state)
    OBVIOUS
  <2> DEFINE c == clauses[k]
  <2>1. c \in Clause /\ Readable(c)
    BY <1>3
  <2>2. c.field \in DOMAIN state /\ state[c.field] = _solve_clause(c)[c.field]
    OBVIOUS
  <2> HIDE DEF c
  <2>3. ClauseHolds(c, state)
    BY ONLY <2>1, <2>2, ClauseSolved
  <2>4. QED
    BY <2>3 DEF c
<1>5. 1 \in DOMAIN cond.parts
  BY <1>2
<1>6. \A j \in DOMAIN cond.parts[1] : ClauseHolds(cond.parts[1][j], state)
  <2>1. CASE Len(cond.parts) > 1
    <3>1. Len(cond.parts[1]) = 1 /\ cond.parts[1] \in Seq(Clause)
      BY <1>2, <1>5, <2>1 DEF Solvable
    <3>2. DOMAIN cond.parts[1] = {1}
      BY <3>1
    <3>3. QED
      BY <1>2, <1>4, <3>2
  <2>2. CASE ~ (Len(cond.parts) > 1)
    BY <1>4, <2>2 DEF ClausesSolved
  <2>3. QED
    BY <2>1, <2>2
<1>7. QED
  BY <1>5, <1>6 DEF evaluate_condition

\* No two clauses on the path test a field of an undisturbed condition.
LEMMA UndisturbedAlone ==
    ASSUME NEW i \in DOMAIN path, Undisturbed(i), IsCondition(path[i].condition),
           NEW k \in DOMAIN ClausesSolved(path[i].condition),
           NEW j \in DOMAIN path, IsCondition(path[j].condition),
           NEW m \in DOMAIN ClausesSolved(path[j].condition),
           ClausesSolved(path[j].condition)[m].field = ClausesSolved(path[i].condition)[k].field
    PROVE  j = i /\ m = k
<1> DEFINE tests == [n \in DOMAIN path |-> IF IsCondition(path[n].condition)
                                           THEN ClausesSolved(path[n].condition) ELSE << >>]
<1>1. \A a \in DOMAIN tests[i], n \in DOMAIN path : \A b \in DOMAIN tests[n] :
          tests[n][b].field = tests[i][a].field => << n, b >> = << i, a >>
  BY DEF Undisturbed
<1>2. tests[i] = ClausesSolved(path[i].condition) /\ tests[j] = ClausesSolved(path[j].condition)
  OBVIOUS
<1> HIDE DEF tests
<1>3. << j, m >> = << i, k >>
  BY <1>1, <1>2
<1>4. QED
  BY <1>3

\* What the path was solved for is in the input, whatever the base was.
LEMMA SolutionSurvives ==
    ASSUME path \in Seq(wf.edges), wf \in Workflow,
           NEW i \in DOMAIN path, Undisturbed(i), Solvable(path[i].condition),
           NEW k \in DOMAIN ClausesSolved(path[i].condition),
           NEW c, c = ClausesSolved(path[i].condition)[k]
    PROVE  c.field \in DOMAIN reaching_input /\ reaching_input[c.field] = _solve_clause(c)[c.field]
<1> DEFINE cond == path[i].condition
           clauses == ClausesSolved(cond)
           own == [n \in DOMAIN clauses |-> _solve_clause(clauses[n])]
           all == [j \in DOMAIN path |-> satisfying_state(path[j].condition)]
<1>1. \A j \in DOMAIN path : IsWritten(path[j].condition)
  BY WorkflowAssumption
<1>2. IsCondition(cond)
  BY DEF Solvable, IsCondition
<1>3. clauses \in Seq(Clause)
  BY <1>1, <1>2, ClausesWritten
<1>4. c.field \in DOMAIN _solve_clause(c)
  <2>1. c \in Clause
    BY <1>3
  <2>2. Readable(c)
    BY DEF Solvable, Readable
  <2>3. QED
    BY ONLY <2>1, <2>2, ClauseSolved
<1>5. c.field \in DOMAIN satisfying_state(cond) /\ satisfying_state(cond)[c.field] = _solve_clause(c)[c.field]
  <2>1. satisfying_state(cond) = Updated(<< >>, own)
    BY <1>2 DEF satisfying_state, Solvable
  <2>2. DOMAIN own = DOMAIN clauses /\ DOMAIN own \subseteq Int
    BY <1>3
  <2>3. k \in DOMAIN own /\ own[k] = _solve_clause(c)
    OBVIOUS
  <2>4. ASSUME NEW n \in DOMAIN own, c.field \in DOMAIN own[n] PROVE n = k
    <3>1. n \in DOMAIN clauses /\ c.field \in DOMAIN _solve_clause(clauses[n])
      BY <2>4
    <3>2. clauses[n].field = c.field
      BY ONLY <3>1, ClauseSolution
    <3>3. QED
      BY <1>2, <3>1, <3>2, UndisturbedAlone
  <2> HIDE DEF own
  <2>5. /\ c.field \in DOMAIN Updated(<< >>, own)
        /\ Updated(<< >>, own)[c.field] = own[k][c.field]
    <3>1. \A n \in DOMAIN own : c.field \in DOMAIN own[n] => n = k
      BY <2>4
    <3>2. c.field \in DOMAIN own[k]
      BY <1>4, <2>3
    <3>3. QED
      BY ONLY <2>2, <2>3, <3>1, <3>2, UpdatedAt
  <2>6. QED
    BY <2>1, <2>3, <2>5
<1>6. reaching_input = Updated(base, all)
  BY DEF reaching_input
<1>7. DOMAIN all \subseteq Int /\ i \in DOMAIN all /\ all[i] = satisfying_state(cond)
  OBVIOUS
<1>8. ASSUME NEW j \in DOMAIN all, c.field \in DOMAIN all[j] PROVE j = i
  <2>1. j \in DOMAIN path /\ c.field \in DOMAIN satisfying_state(path[j].condition)
    BY <1>8
  <2>2. IsWritten(path[j].condition)
    BY <1>1, <2>1
  <2>3. PICK m \in DOMAIN ClausesSolved(path[j].condition) :
            ClausesSolved(path[j].condition)[m].field = c.field
    BY ONLY <2>1, <2>2, SolvedFields
  <2>4. IsCondition(path[j].condition)
    BY ONLY <2>1, <2>2, SolvedFields
  <2>5. QED
    BY <1>2, <2>1, <2>3, <2>4, UndisturbedAlone
<1> HIDE DEF all
<1>9. c.field \in DOMAIN Updated(base, all) /\ Updated(base, all)[c.field] = all[i][c.field]
  <2>1. \A j \in DOMAIN all : c.field \in DOMAIN all[j] => j = i
    BY <1>8
  <2>2. c.field \in DOMAIN all[i]
    BY <1>5, <1>7
  <2>3. QED
    BY ONLY <1>7, <2>1, <2>2, UpdatedAt
<1>10. QED
  BY <1>5, <1>6, <1>7, <1>9

\* The input is the one solved along the path, for nothing changes the path after it.
InputIsSolved == pc \in {"steered", "unsteered"} => input = reaching_input

LEMMA InputStaysSolved == InputIsSolved /\ [Next]_vars => InputIsSolved'
<1> SUFFICES ASSUME InputIsSolved, [Next]_vars PROVE InputIsSolved'
  OBVIOUS
<1> USE DEF InputIsSolved
<1>1. CASE UNCHANGED vars
  BY <1>1 DEF vars, question, search, reaching_input
<1>2. CASE Begin
  BY <1>2 DEF Begin
<1>3. CASE Dequeue
  BY <1>3 DEF Dequeue
<1>4. CASE \E e \in todo : Examine(e)
  BY <1>4 DEF Examine
<1>5. CASE GiveUp
  BY <1>5 DEF GiveUp
<1>6. CASE Steer
  BY <1>6 DEF Steer, question, search, reaching_input
<1>7. CASE Validate
  BY <1>7 DEF Validate, question, search, reaching_input
<1>8. QED
  BY <1>1, <1>2, <1>3, <1>4, <1>5, <1>6, <1>7 DEF Next

LEMMA InvImpliesOpening == IInv /\ InputIsSolved => SteeredInputOpensThePath
<1> SUFFICES ASSUME IInv, InputIsSolved, pc = "steered", NEW i \in DOMAIN path,
                    Solvable(path[i].condition), Undisturbed(i)
             PROVE  evaluate_condition(path[i].condition, input)
  BY DEF SteeredInputOpensThePath
<1>1. path \in Seq(wf.edges) /\ wf \in Workflow
  BY DEF IInv, Shape, PathLeadsThere, Found, IsPath
<1>2. input = reaching_input
  BY DEF InputIsSolved
<1>3. IsWritten(path[i].condition)
  BY <1>1, WorkflowAssumption
<1>4. \A k \in DOMAIN ClausesSolved(path[i].condition) :
          LET c == ClausesSolved(path[i].condition)[k]
          IN  c.field \in DOMAIN input /\ input[c.field] = _solve_clause(c)[c.field]
  BY <1>1, <1>2, SolutionSurvives
<1>5. QED
  BY ONLY <1>3, <1>4, Solvable(path[i].condition), ConditionSolved

\* The input solved along the path that was found opens every branch on it whose
\* condition the solver can read and nothing else on the path disturbs: solver and
\* evaluator "have to agree on where a value lands" (reachability.py 156-158).
THEOREM SteeringOpensThePath == Spec => []SteeredInputOpensThePath
<1>1. Init => IInv /\ InputIsSolved
  BY InitEstablishes DEF Init, InputIsSolved
<1>2. (IInv /\ InputIsSolved) /\ [Next]_vars => (IInv /\ InputIsSolved)'
  BY NextPreserves, InputStaysSolved
<1>3. IInv /\ InputIsSolved => SteeredInputOpensThePath
  BY InvImpliesOpening
<1>4. QED
  BY <1>1, <1>2, <1>3, PTL DEF Spec
=============================================================================
