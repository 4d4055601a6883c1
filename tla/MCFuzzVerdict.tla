---------------------------- MODULE MCFuzzVerdict ----------------------------
(* Bounded instances of FuzzVerdict and CompiledRun: all workflows over a pool of *)
(* edges, which has fan-out, fallbacks, a loop, failure edges of every kind and    *)
(* an edge to nowhere.                                                          *)
EXTENDS FuzzVerdict, TLC

Nodes == {"start", "a", "b", "c"}

Edge(id, source, target, cond, fails, reads) ==
    [id |-> id, source |-> source, target |-> target, cond |-> cond,
     fails |-> fails, reads |-> reads]

Pool == << Edge("plain",   "a", "b", FALSE, FALSE, {}),
           Edge("branch",  "a", "b", TRUE,  FALSE, {}),
           Edge("else",    "a", "c", FALSE, FALSE, {}),
           Edge("denied",  "a", "c", TRUE,  TRUE,  {"a"}),
           Edge("next",    "b", "c", FALSE, FALSE, {}),
           Edge("onError", "b", "c", FALSE, TRUE,  {}),
           Edge("again",   "b", "a", TRUE,  FALSE, {}),
           Edge("lost",    "b", "d", FALSE, FALSE, {}) >>

Entry == Edge("entry", "start", "a", FALSE, FALSE, {})

Select(S) == << Entry >> \o SelectSeq(Pool, LAMBDA e : e.id \in S)

\* What the first two nodes after the trigger are: calls, or one of them a gateway.
Kinds == { << "DATABASE", "EXTERNAL_API" >>, << "CONDITION", "EXTERNAL_API" >>,
           << "DATABASE", "CONDITION" >> }

Workflows ==
    {[nodes |-> Nodes, edges |-> Select(S),
      type |-> ("start" :> "TRIGGER" @@ "a" :> kind[1] @@ "b" :> kind[2] @@ "c" :> last)] :
        S \in SUBSET {Pool[i].id : i \in DOMAIN Pool}, kind \in Kinds, last \in {"EMAIL", "END"}}
=============================================================================
