-------------------------------- MODULE Costing --------------------------------
(***************************************************************************)
(* Cost estimates and the pricing table they are made from                 *)
(* (services/costs.py over costing/pricing.py, engine.py, optimization.py).*)
(*                                                                         *)
(* The table is seeded by whoever first finds it empty: a count, then the  *)
(* insertions, then a commit, in the middle of whatever the request was    *)
(* about.  Costs are integers and not rounded, savings are in per cent of  *)
(* the month.  Operators named Bug... are plausible mistakes, not the code.*)
(***************************************************************************)
EXTENDS Integers, FiniteSets, Sequences, FiniteSetsExt, SequencesExt

CONSTANTS Request,      \* API requests in flight at once
          Node,         \* the nodes of the workflow
          Default,      \* DEFAULT_PRICING_CATALOG, a sequence of entries
          Addition,     \* entries that POST /pricing may bring
          Scenario,     \* scenarios of an estimate
          LastDate,     \* the last date there is (datetime.max)
          MaxRequests,  \* bound: requests ever served
          MaxAdditions  \* bound: entries ever added

ASSUME CostingAssumption ==
    /\ Default \in Seq(Range(Default)) /\ Default # << >>
    /\ LastDate \in Nat /\ \A entry \in Range(Default) \cup Addition : entry.date \in 0 .. LastDate
    /\ MaxRequests \in Nat /\ MaxAdditions \in Nat
    /\ \A n \in Node : n.calls \in Nat \ {0}

VARIABLES pricing,    \* pricing_catalog rows
          scenarios,  \* cost_scenarios rows: whose they are
          estimates,  \* cost_estimates rows, in commit order
          served,     \* requests begun
          request     \* what each request is doing

vars == << pricing, scenarios, estimates, served, request >>

None == << >>

\* A request: where it is, the scenario of an estimate, and the prices it has read, with the
\* number of rows it read them from.  As history: whether it began with an empty table.
Idle == [pc |-> "idle", op |-> "none", scenario |-> None, id |-> 0, early |-> FALSE,
         quote |-> None, rows |-> 0]

Init ==
    /\ pricing = << >> /\ scenarios = {} /\ estimates = << >>
    /\ served = 0
    /\ request = [r \in Request |-> Idle]
-----------------------------------------------------------------------------
(* Prices.                                                                      *)

\* PricingCatalog.find: entries of the category, for the provider or for any ("generic"),
\* and for the model where both name one.
Candidates(table, n) ==
    {entry \in table :
        /\ entry.category = n.category
        /\ entry.provider \in {n.provider, "generic"}
        /\ n.model = None \/ entry.model = None \/ entry.model = n.model}

BugBetter(n, entry, other) == entry.date > other.date

Better(n, entry, other) ==
    IF (entry.provider = n.provider) # (other.provider = n.provider) THEN entry.provider = n.provider
    ELSE entry.date > other.date

\* The entries that come first: the provider's own before the generic ones, then the latest.
\* Of several, the query returns them in any order.
Best(table, n) ==
    {entry \in Candidates(table, n) : \A other \in Candidates(table, n) : ~ Better(n, other, entry)}

\* The price of every node, << >> where there is none.
Quotes(table) ==
    LET best == [n \in Node |-> Best(table, n)]
        priced == {n \in Node : best[n] # {}}
    IN  {[n \in Node |-> IF n \in priced THEN << choice[n] >> ELSE None] :
            choice \in {f \in [priced -> UNION Range(best)] : \A n \in priced : f[n] \in best[n]}}

\* _node_cost, in the units of the entries; tokens come by the thousand.
NodeCost(n, price, scenario) ==
    IF price = None THEN 0
    ELSE IF n.category = "llm"
    THEN n.calls * (scenario.input * price[1].input + scenario.output * price[1].output)
    ELSE n.calls * price[1].call

\* CostEstimator.estimate; the rate of retries is in per cent.
PerRun(quote, scenario) ==
    (100 + scenario.retries) * MapThenSumSet(LAMBDA n : NodeCost(n, quote[n], scenario), Node)

Monthly(quote, scenario) == scenario.monthly * PerRun(quote, scenario)

\* CostOptimizationEngine.analyze: what each kind of advice could save, in per cent of the
\* monthly cost, which several kinds together may exceed.
Advice ==
    LET llms == {n \in Node : n.category = "llm"}
        calls == {n \in Node : n.category = "external_api" /\ n.destination # None}
    IN  {[rule |-> "WG-COST-OPT-001", about |-> None, percent |-> 15] : n \in {n \in llms : llms # {n}}}
        \cup {[rule |-> "WG-COST-OPT-002", about |-> n.id, percent |-> 20] : n \in {n \in llms : n.overkill}}
        \cup {[rule |-> "WG-COST-OPT-003", about |-> n.destination, percent |-> 10] :
                 n \in {n \in calls : \E m \in calls \ {n} : m.destination = n.destination}}
        \cup {[rule |-> "WG-COST-OPT-004", about |-> n.id, percent |-> 5] : n \in {n \in Node : n.retries > 3}}
        \cup {[rule |-> "WG-COST-OPT-005", about |-> n.id, percent |-> 12] : n \in {n \in llms : n.largeContext}}
-----------------------------------------------------------------------------
(* Requests.                                                                    *)

\* A request takes the next identity.
Begin(r, op, scenario) ==
    /\ request[r] = Idle
    /\ served < MaxRequests                                                 \* bound
    /\ served' = served + 1
    /\ request' = [request EXCEPT ![r] =
                      [Idle EXCEPT !.pc = "count", !.op = op, !.scenario = scenario,
                                   !.id = served + 1, !.early = (pricing = << >>)]]
    /\ UNCHANGED << pricing, scenarios, estimates >>

\* GET /pricing, and the comparison of two versions, which prices both.
ListPricing(r) == Begin(r, "list", None)

\* estimate: the workflow is loaded and the scenario inserted, but not committed.
Estimate(r) == \E s \in Scenario : Begin(r, "estimate", << s >>)

\* latest_estimate for GET /cost and for a report: without an estimate it makes one.
LatestCost(r) ==
    /\ estimates = << >>
    /\ Estimate(r)

\* add_pricing does not seed.
AddPricing ==
    /\ Cardinality({i \in DOMAIN pricing : pricing[i].added}) < MaxAdditions   \* bound
    /\ \E entry \in Addition : pricing' = Append(pricing, [entry |-> entry, added |-> TRUE])
    /\ UNCHANGED << scenarios, estimates, served, request >>

BugMustSeed == Len(pricing) <= Len(Default)

\* _seed_pricing counts first.
MustSeed == pricing = << >>

CountPricing(r) ==
    /\ request[r].pc = "count"
    /\ request' = [request EXCEPT ![r].pc = IF MustSeed THEN "seed" ELSE "read"]
    /\ UNCHANGED << pricing, scenarios, estimates, served >>

Scenarios(r) ==
    scenarios \cup (IF request[r].op = "estimate"
                    THEN {[id |-> request[r].id, early |-> request[r].early]} ELSE {})

\* Then it inserts and commits, and with it the scenario of the estimate.
SeedPricing(r) ==
    /\ request[r].pc = "seed"
    /\ pricing' = pricing \o [i \in DOMAIN Default |-> [entry |-> Default[i], added |-> FALSE]]
    /\ scenarios' = Scenarios(r)
    /\ request' = [request EXCEPT ![r].pc = "read"]
    /\ UNCHANGED << estimates, served >>

Table == {pricing[i].entry : i \in DOMAIN pricing}

\* An empty list of entries stands for the default catalogue.
Catalogue == IF pricing = << >> THEN Range(Default) ELSE Table

\* The prices are read and the nodes priced.
ReadPricing(r) ==
    /\ request[r].pc = "read"
    /\ IF request[r].op = "list" THEN request' = [request EXCEPT ![r] = Idle]
       ELSE \E quote \in Quotes(Catalogue) :
                request' = [request EXCEPT ![r].pc = "store", ![r].quote = quote,
                                           ![r].rows = Len(pricing)]
    /\ UNCHANGED << pricing, scenarios, estimates, served >>

\* The estimate and the advice are committed, with the scenario if it was not before.
StoreEstimate(r) ==
    LET q == request[r]
    IN  /\ q.pc = "store"
        /\ scenarios' = Scenarios(r)
        /\ estimates' = Append(estimates,
               [scenario |-> q.id, perRun |-> PerRun(q.quote, q.scenario[1]),
                monthly |-> Monthly(q.quote, q.scenario[1]), advice |-> Advice,
                quote |-> q.quote, rows |-> q.rows])
        /\ request' = [request EXCEPT ![r] = Idle]
        /\ UNCHANGED << pricing, served >>

\* A node configured with something that is no number raises when it is priced, and the
\* process may die; the session rolls back what it did not commit.
Fail(r) ==
    /\ request[r] # Idle
    /\ request' = [request EXCEPT ![r] = Idle]
    /\ UNCHANGED << pricing, scenarios, estimates, served >>

Next ==
    \/ AddPricing
    \/ \E r \in Request :
           \/ ListPricing(r) \/ Estimate(r) \/ LatestCost(r)
           \/ CountPricing(r) \/ SeedPricing(r) \/ ReadPricing(r) \/ StoreEstimate(r)
           \/ Fail(r)

Spec == Init /\ [][Next]_vars
-----------------------------------------------------------------------------
(* Safety.                                                                      *)

\* A request that fails leaves a scenario without an estimate only when the pricing table was
\* still empty at its beginning: then seeding may commit the scenario early
\* (services/costs.py estimate, flush before _pricing_catalog; _seed_pricing, commit).
OnlySeedingLeavesScenarios ==
    \A s \in scenarios :
        \/ s.early
        \/ \E i \in DOMAIN estimates : estimates[i].scenario = s.id

Outranks(n, entry, other) ==
    LET own(e) == e.provider = n.provider
    IN  \/ own(entry) /\ ~ own(other)
        \/ own(entry) = own(other) /\ entry.date > other.date

\* However often the table was seeded and whatever was added meanwhile, a node that has a price
\* keeps one, and an estimate that read more rows never takes a price that ranks lower: a generic
\* one for the provider's own, or an older one; and the default prices are missing only if the
\* first row was added by hand, after which nobody seeds (services/costs.py add_pricing,
\* _seed_pricing; costing/pricing.py find).
PricesOnlyImprove ==
    /\ \A i, j \in DOMAIN estimates : estimates[i].rows <= estimates[j].rows =>
           \A n \in Node : estimates[i].quote[n] # None =>
               /\ estimates[j].quote[n] # None
               /\ ~ Outranks(n, estimates[i].quote[n][1], estimates[j].quote[n][1])
    /\ \A i \in DOMAIN estimates :
           \/ \A d \in DOMAIN Default : \E k \in 1..estimates[i].rows : pricing[k].entry = Default[d]
           \/ pricing[1].added
=============================================================================
