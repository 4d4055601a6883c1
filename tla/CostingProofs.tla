----------------------------- MODULE CostingProofs -----------------------------
(***************************************************************************)
(* Proofs about Costing, for any number of requests, nodes and prices.     *)
(*                                                                         *)
(* The table only grows, and no request reads it while it is empty; so a   *)
(* quote stays what it was read to be, the best of the first so many rows. *)
(***************************************************************************)
EXTENDS Costing, WellFoundedInduction, TLAPS

Entries == Range(Default) \cup Addition

Row == [entry : Entries, added : BOOLEAN]

\* The prices in the first so many rows.
FirstRows(rows) == {pricing[k].entry : k \in 1..rows}

\* A quote gives each node one of the best prices there are for it, if there is one.
Chosen(quote, table) ==
    \A n \in Node : IF Best(table, n) = {} THEN quote[n] = None
                    ELSE \E entry \in Best(table, n) : quote[n] = << entry >>

\* Rows that were read: the default prices are among them, unless the first was added by hand.
DefaultsWithin(rows) ==
    \/ pricing[1].added
    \/ \A d \in DOMAIN Default : \E k \in 1..rows : pricing[k].entry = Default[d]

ReadFrom(quote, rows) ==
    rows \in 1..Len(pricing) /\ DefaultsWithin(rows) /\ Chosen(quote, FirstRows(rows))

\* What the variables hold.
Shape ==
    /\ pricing \in Seq(Row)
    /\ \E S : estimates \in Seq(S)
    /\ DOMAIN request = Request

TableIsSeeded == pricing # << >> => DefaultsWithin(Len(pricing))

Fields(q) ==
    q = [pc |-> q.pc, op |-> q.op, scenario |-> q.scenario, id |-> q.id, early |-> q.early,
         quote |-> q.quote, rows |-> q.rows]

\* What a request knows at each of its steps.
Knows(q) ==
    /\ Fields(q)
    /\ q.pc = "count" /\ pricing = << >> => q.early = TRUE
    /\ q.pc = "seed" => q.early = TRUE
    /\ q.pc \in {"read", "store"} => pricing # << >>
    /\ q.pc = "store" => ReadFrom(q.quote, q.rows)

RequestsKnow == \A r \in Request : Knows(request[r])

EstimatesWereRead == \A i \in DOMAIN estimates : ReadFrom(estimates[i].quote, estimates[i].rows)

IInv == /\ Shape /\ TableIsSeeded /\ RequestsKnow /\ EstimatesWereRead
        /\ OnlySeedingLeavesScenarios
-----------------------------------------------------------------------------
\* Of finitely many dates one is the latest.
LEMMA LatestDate ==
    ASSUME NEW top \in Nat, NEW D \in SUBSET (0..top), D # {}
    PROVE  \E d \in D : \A c \in D : c <= d
<1> DEFINE Left == {top - d : d \in D}
           R == OpToRel(<, Nat)
<1>1. Left \subseteq Nat /\ Left # {}
  <2>1. \A d \in D : top - d \in Nat
    OBVIOUS
  <2>2. PICK d \in D : TRUE
    OBVIOUS
  <2>3. top - d \in Left
    OBVIOUS
  <2> QED BY <2>1, <2>3
<1>2. PICK x \in Left : \A y \in Left : << y, x >> \notin R
  <2>1. IsWellFoundedOn(R, Nat)
    BY NatLessThanWellFounded
  <2> HIDE DEF Left, R
  <2> QED BY <2>1, <1>1, WFMin
<1>3. \A y \in Left : ~ (y < x)
  BY <1>1, <1>2 DEF OpToRel
<1>4. PICK d \in D : x = top - d
  OBVIOUS
<1>5. \A c \in D : c <= d
  <2> TAKE c \in D
  <2>1. top - c \in Left
    OBVIOUS
  <2>2. ~ (top - c < top - d)
    BY <2>1, <1>3, <1>4
  <2> HIDE DEF Left
  <2> QED BY <2>2
<1> QED BY <1>5

\* Where there is a price there is a best one.
LEMMA BestExists ==
    ASSUME NEW table \in SUBSET Entries, NEW n, Candidates(table, n) # {}
    PROVE  Best(table, n) # {}
<1> DEFINE C == Candidates(table, n)
           Own == {entry \in C : entry.provider = n.provider}
           First == IF Own # {} THEN Own ELSE C
           Dates == {entry.date : entry \in First}
<1>1. C \subseteq Entries /\ First \subseteq C /\ First # {}
  BY DEF Candidates
<1>2. Dates \subseteq 0..LastDate /\ Dates # {}
  <2>1. \A entry \in First : entry.date \in 0..LastDate
    BY <1>1, CostingAssumption DEF Entries
  <2> HIDE DEF First
  <2>2. PICK entry \in First : TRUE
    BY <1>1
  <2> QED BY <2>1, <2>2
<1>3. PICK d \in Dates : \A c \in Dates : c <= d
  <2> HIDE DEF Dates
  <2> QED BY <1>2, LatestDate, CostingAssumption
<1>4. PICK best \in First : best.date = d
  OBVIOUS
<1>5. ASSUME NEW other \in C
      PROVE  ~ Better(n, other, best)
  <2>1. CASE other \in First
    <3>1. other.date \in Dates /\ best.date \in Dates
      BY <2>1
    <3>2. other.date <= best.date
      BY <3>1, <1>3, <1>4
    <3>3. (other.provider = n.provider) <=> (best.provider = n.provider)
      BY <2>1
    <3>4. other.date \in Int /\ best.date \in Int
      <4>1. other \in Entries /\ best \in Entries
        BY <1>1
      <4>2. \A entry \in Entries : entry.date \in Int
        BY CostingAssumption DEF Entries
      <4> QED BY <4>1, <4>2
    <3> QED BY <3>2, <3>3, <3>4 DEF Better
  <2>2. CASE other \notin First
    <3>1. best.provider = n.provider /\ other.provider # n.provider
      BY <2>2, <1>5
    <3> QED BY <3>1 DEF Better
  <2> QED BY <2>1, <2>2
<1>6. best \in Best(table, n)
  <2>1. best \in C
    BY <1>1
  <2> HIDE DEF First
  <2> QED BY <2>1, <1>5 DEF Best
<1> QED BY <1>6

\* From a larger table, no node gets a price that ranks lower.
LEMMA LargerTableServesBetter ==
    ASSUME NEW small, NEW large \in SUBSET Entries, small \subseteq large,
           NEW q1, Chosen(q1, small), NEW q2, Chosen(q2, large),
           NEW n \in Node, q1[n] # None
    PROVE  q2[n] # None /\ ~ Outranks(n, q1[n][1], q2[n][1])
<1>1. PICK e1 \in Best(small, n) : q1[n] = << e1 >>
  BY DEF Chosen
<1>2. e1 \in Candidates(large, n)
  BY <1>1 DEF Best, Candidates
<1>3. Best(large, n) # {}
  BY <1>2, BestExists
<1>4. PICK e2 \in Best(large, n) : q2[n] = << e2 >>
  BY <1>3 DEF Chosen
<1>5. ~ Better(n, e1, e2)
  BY <1>2, <1>4 DEF Best
<1>6. ~ Outranks(n, e1, e2)
  BY <1>5 DEF Better, Outranks
<1>7. q2[n] # None
  BY <1>4 DEF None
<1>8. q1[n][1] = e1 /\ q2[n][1] = e2
  BY <1>1, <1>4
<1> QED BY <1>6, <1>7, <1>8

\* What Quotes enumerates are quotes.
LEMMA QuotesAreChosen ==
    ASSUME NEW table, NEW quote \in Quotes(table)
    PROVE  Chosen(quote, table)
<1> DEFINE best == [n \in Node |-> Best(table, n)]
           priced == {n \in Node : best[n] # {}}
<1>1. PICK choice \in {f \in [priced -> UNION Range(best)] : \A n \in priced : f[n] \in best[n]} :
          quote = [n \in Node |-> IF n \in priced THEN << choice[n] >> ELSE None]
  BY DEF Quotes
<1>2. ASSUME NEW n \in Node, Best(table, n) = {}
      PROVE  quote[n] = None
  BY <1>1, <1>2
<1>3. ASSUME NEW n \in Node, Best(table, n) # {}
      PROVE  \E entry \in Best(table, n) : quote[n] = << entry >>
  BY <1>1, <1>3
<1> QED BY <1>2, <1>3 DEF Chosen
-----------------------------------------------------------------------------
LEMMA DefaultsAreRows ==
    /\ [i \in DOMAIN Default |-> [entry |-> Default[i], added |-> FALSE]] \in Seq(Row)
    /\ Len([i \in DOMAIN Default |-> [entry |-> Default[i], added |-> FALSE]]) = Len(Default)
    /\ Len(Default) \in Nat \ {0} /\ DOMAIN Default = 1..Len(Default)
<1>1. Default \in Seq(Range(Default)) /\ Default # << >>
  BY CostingAssumption
<1>2. \A i \in DOMAIN Default : Default[i] \in Entries
  BY DEF Entries, Range
<1>3. Len(Default) \in Nat \ {0} /\ DOMAIN Default = 1..Len(Default)
  BY <1>1
<1>4. [i \in DOMAIN Default |-> [entry |-> Default[i], added |-> FALSE]]
          \in [1..Len(Default) -> Row]
  BY <1>2, <1>3 DEF Row
<1> QED BY <1>3, <1>4

\* What a step does to the table: it stays, or it grows at its end.
TableGrows ==
    /\ pricing' \in Seq(Row)
    /\ Len(pricing) <= Len(pricing')
    /\ \A k \in 1..Len(pricing) : pricing'[k] = pricing[k]

\* What was read stays read when the table grows.
LEMMA ReadingsKeep ==
    ASSUME Shape, TableGrows, NEW quote, NEW rows, ReadFrom(quote, rows)
    PROVE  ReadFrom(quote, rows)'
<1>1. rows \in 1..Len(pricing) /\ 1 \in 1..Len(pricing) /\ Len(pricing) \in Nat /\ Len(pricing') \in Nat
  BY DEF ReadFrom, Shape, TableGrows
<1>2. \A k \in 1..rows : k \in 1..Len(pricing) /\ pricing'[k] = pricing[k]
  BY <1>1 DEF TableGrows
<1>3. FirstRows(rows)' = FirstRows(rows)
  BY <1>2 DEF FirstRows
<1>4. rows \in 1..Len(pricing')
  BY <1>1 DEF TableGrows
<1>5. DefaultsWithin(rows)'
  BY <1>1, <1>2 DEF ReadFrom, DefaultsWithin, TableGrows
<1>6. Chosen(quote, FirstRows(rows))'
  BY <1>3 DEF ReadFrom, Chosen
<1> QED BY <1>4, <1>5, <1>6 DEF ReadFrom

\* A table that was seeded, or begun by hand, stays so.
LEMMA SeededStays ==
    ASSUME Shape, TableGrows, TableIsSeeded, pricing # << >>
    PROVE  TableIsSeeded'
<1>1. Len(pricing) \in Nat \ {0} /\ Len(pricing') \in Nat /\ Len(pricing) <= Len(pricing')
  BY DEF Shape, TableGrows
<1>2. pricing'[1] = pricing[1]
  BY <1>1 DEF TableGrows
<1>3. DefaultsWithin(Len(pricing))
  BY DEF TableIsSeeded
<1>4. ASSUME NEW d \in DOMAIN Default, NEW k \in 1..Len(pricing), pricing[k].entry = Default[d]
      PROVE  \E j \in 1..Len(pricing') : pricing'[j].entry = Default[d]
  BY <1>1, <1>4 DEF TableGrows
<1> QED BY <1>2, <1>3, <1>4 DEF TableIsSeeded, DefaultsWithin

LEMMA Establish == Init => IInv
<1> SUFFICES ASSUME Init PROVE IInv
  OBVIOUS
<1>1. Shape
  <2>1. estimates \in Seq({})
    BY DEF Init
  <2> QED BY <2>1 DEF Init, Shape
<1>2. TableIsSeeded
  BY DEF Init, TableIsSeeded
<1>3. RequestsKnow
  BY DEF Init, RequestsKnow, Knows, Fields, Idle
<1>4. EstimatesWereRead /\ OnlySeedingLeavesScenarios
  BY DEF Init, EstimatesWereRead, OnlySeedingLeavesScenarios
<1> QED BY <1>1, <1>2, <1>3, <1>4 DEF IInv
-----------------------------------------------------------------------------
\* The rows a step adds, and the steps that add none.
LEMMA Grows == IInv /\ [Next]_vars => TableGrows
<1> SUFFICES ASSUME IInv, [Next]_vars PROVE TableGrows
  OBVIOUS
<1>1. pricing \in Seq(Row) /\ Len(pricing) \in Nat
  BY DEF IInv, Shape
<1>2. CASE pricing' = pricing
  BY <1>1, <1>2 DEF TableGrows
<1>3. CASE AddPricing
  <2>1. PICK entry \in Addition : pricing' = Append(pricing, [entry |-> entry, added |-> TRUE])
    BY <1>3 DEF AddPricing
  <2>2. [entry |-> entry, added |-> TRUE] \in Row
    BY DEF Row, Entries
  <2> QED BY <1>1, <2>1, <2>2 DEF TableGrows
<1>4. CASE \E r \in Request : SeedPricing(r)
  <2> DEFINE new == [i \in DOMAIN Default |-> [entry |-> Default[i], added |-> FALSE]]
  <2>1. pricing' = pricing \o new
    BY <1>4 DEF SeedPricing
  <2>2. new \in Seq(Row) /\ Len(new) \in Nat
    BY DefaultsAreRows
  <2> HIDE DEF new
  <2> QED BY <1>1, <2>1, <2>2 DEF TableGrows
<1> QED
  BY <1>2, <1>3, <1>4
     DEF Next, vars, ListPricing, Estimate, LatestCost, Begin, CountPricing, ReadPricing,
         StoreEstimate, Fail

\* Whatever a step does to one request, the others know what they knew.
LEMMA OthersKnow ==
    ASSUME Shape, TableGrows, NEW q, Knows(q)
    PROVE  Knows(q)'
<1>1. pricing' = << >> => pricing = << >>
  BY DEF Shape, TableGrows
<1>2. q.pc = "store" => ReadFrom(q.quote, q.rows)'
  BY ReadingsKeep DEF Knows
<1> QED BY <1>1, <1>2 DEF Knows, Fields

LEMMA OneKnows ==
    ASSUME IInv, TableGrows, NEW r \in Request, NEW q, request' = [request EXCEPT ![r] = q],
           Knows(q)'
    PROVE  RequestsKnow' /\ DOMAIN request' = Request
<1>1. \A s \in Request \ {r} : request'[s] = request[s] /\ Knows(request[s])
  BY DEF IInv, RequestsKnow, Shape
<1>2. ASSUME NEW s \in Request
      PROVE  Knows(request[s])'
  <2>1. CASE s = r
    <3>1. request'[s] = q
      BY <2>1 DEF IInv, Shape
    <3> QED BY <3>1 DEF Knows
  <2>2. CASE s # r
    <3>1. PICK p : p = request[s]
      OBVIOUS
    <3>2. Knows(p)'
      BY <1>1, <2>2, <3>1, OthersKnow DEF IInv
    <3>3. request'[s] = p
      BY <1>1, <2>2, <3>1
    <3> QED BY <3>2, <3>3 DEF Knows
  <2> QED BY <2>1, <2>2
<1> QED BY <1>2 DEF RequestsKnow, IInv, Shape

\* A request that is in none of the steps that rest on something knows enough.
LEMMA IdleKnows == Knows(Idle)'
BY DEF Knows, Fields, Idle

\* What was stored, when nothing is stored.
LEMMA EstimatesStay ==
    ASSUME IInv, TableGrows, estimates' = estimates
    PROVE  (\E S : estimates' \in Seq(S)) /\ EstimatesWereRead'
<1>1. \E S : estimates' \in Seq(S)
  BY DEF IInv, Shape
<1>2. EstimatesWereRead'
  <2> SUFFICES ASSUME NEW i \in DOMAIN estimates
               PROVE  ReadFrom(estimates[i].quote, estimates[i].rows)'
    BY DEF EstimatesWereRead
  <2>1. PICK quote, rows : quote = estimates[i].quote /\ rows = estimates[i].rows
    OBVIOUS
  <2>2. ReadFrom(quote, rows)'
    BY <2>1, ReadingsKeep DEF IInv, EstimatesWereRead
  <2>3. estimates'[i].quote = quote /\ estimates'[i].rows = rows
    BY <2>1
  <2> QED BY <2>2, <2>3 DEF ReadFrom, Chosen
<1> QED BY <1>1, <1>2

LEMMA QuietStep ==
    ASSUME IInv, TableGrows, UNCHANGED << scenarios, estimates >>
    PROVE  /\ \E S : estimates' \in Seq(S)
           /\ EstimatesWereRead' /\ OnlySeedingLeavesScenarios'
BY EstimatesStay DEF IInv, OnlySeedingLeavesScenarios

LEMMA NoneMoves ==
    ASSUME IInv, TableGrows, request' = request
    PROVE  RequestsKnow' /\ DOMAIN request' = Request
<1>1. ASSUME NEW r \in Request
      PROVE  Knows(request[r])'
  <2>1. PICK p : p = request[r]
    OBVIOUS
  <2>2. Knows(p)'
    BY <2>1, OthersKnow DEF IInv, RequestsKnow
  <2>3. request'[r] = p
    BY <2>1
  <2> QED BY <2>2, <2>3 DEF Knows
<1> QED BY <1>1 DEF RequestsKnow, IInv, Shape

LEMMA Adding == IInv /\ AddPricing => IInv'
<1> SUFFICES ASSUME IInv, AddPricing PROVE IInv'
  OBVIOUS
<1>1. TableGrows /\ pricing' \in Seq(Row)
  BY Grows DEF Next, TableGrows
<1>2. TableIsSeeded'
  <2>1. CASE pricing = << >>
    <3>1. PICK entry \in Addition : pricing' = Append(pricing, [entry |-> entry, added |-> TRUE])
      BY DEF AddPricing
    <3>2. pricing'[1].added
      BY <2>1, <3>1
    <3> QED BY <3>2 DEF TableIsSeeded, DefaultsWithin
  <2>2. CASE pricing # << >>
    BY <1>1, <2>2, SeededStays DEF IInv
  <2> QED BY <2>1, <2>2
<1>3. UNCHANGED << scenarios, estimates, request >>
  BY DEF AddPricing
<1> QED BY <1>1, <1>2, <1>3, NoneMoves, QuietStep DEF IInv, Shape

\* The steps of a request that change no table.
LEMMA Reading ==
    ASSUME IInv, NEW r \in Request,
           \/ ListPricing(r) \/ Estimate(r) \/ LatestCost(r)
           \/ CountPricing(r) \/ ReadPricing(r) \/ Fail(r)
    PROVE  IInv'
<1>1. TableGrows /\ pricing' \in Seq(Row)
  <2>1. Next
    BY DEF Next
  <2> QED BY <2>1, Grows DEF TableGrows
<1>2. UNCHANGED << pricing, scenarios, estimates >>
  BY DEF ListPricing, Estimate, LatestCost, Begin, CountPricing, ReadPricing, Fail
<1>3. TableIsSeeded'
  BY <1>2 DEF IInv, TableIsSeeded, DefaultsWithin
<1>4. RequestsKnow' /\ DOMAIN request' = Request
  <2>1. CASE ListPricing(r) \/ Estimate(r) \/ LatestCost(r)
    <3>1. PICK op, scenario : Begin(r, op, scenario)
      BY <2>1 DEF ListPricing, Estimate, LatestCost
    <3> DEFINE q == [Idle EXCEPT !.pc = "count", !.op = op, !.scenario = scenario,
                                 !.id = served + 1, !.early = (pricing = << >>)]
    <3>2. request' = [request EXCEPT ![r] = q]
      BY <3>1 DEF Begin
    <3>3. PICK p : p = q
      OBVIOUS
    <3>4. Fields(p) /\ p.pc = "count" /\ p.early = (pricing = << >>)
      BY <3>3 DEF Fields, Idle
    <3>5. Knows(p)'
      BY <3>4, <1>2 DEF Knows
    <3> HIDE DEF q
    <3> QED BY <3>2, <3>3, <3>5, <1>1, OneKnows
  <2>2. CASE CountPricing(r)
    <3>1. PICK p : p = [request[r] EXCEPT !.pc = IF MustSeed THEN "seed" ELSE "read"]
      OBVIOUS
    <3>2. Knows(request[r]) /\ request[r].pc = "count"
      BY <2>2 DEF CountPricing, IInv, RequestsKnow
    <3>3. Fields(p) /\ p.early = request[r].early /\ p.pc = IF MustSeed THEN "seed" ELSE "read"
      BY <3>1, <3>2 DEF Knows, Fields
    <3>4. Knows(p)'
      BY <3>2, <3>3, <1>2 DEF Knows, Fields, MustSeed
    <3>5. request' = [request EXCEPT ![r] = p]
      BY <3>1, <2>2 DEF CountPricing
    <3> QED BY <3>4, <3>5, <1>1, OneKnows
  <2>3. CASE (ReadPricing(r) /\ request[r].op = "list") \/ Fail(r)
    <3>1. request' = [request EXCEPT ![r] = Idle]
      BY <2>3 DEF ReadPricing, Fail
    <3> QED BY <3>1, <1>1, IdleKnows, OneKnows
  <2>4. CASE ReadPricing(r) /\ request[r].op # "list"
    <3>1. PICK quote \in Quotes(Catalogue) :
              request' = [request EXCEPT ![r].pc = "store", ![r].quote = quote,
                                         ![r].rows = Len(pricing)]
      BY <2>4 DEF ReadPricing
    <3>2. PICK p : p = [request[r] EXCEPT !.pc = "store", !.quote = quote, !.rows = Len(pricing)]
      OBVIOUS
    <3>3. request' = [request EXCEPT ![r] = p]
      BY <3>1, <3>2
    <3>4. pricing # << >> /\ Fields(request[r])
      BY <2>4 DEF ReadPricing, IInv, RequestsKnow, Knows
    <3>5. Fields(p) /\ p.pc = "store" /\ p.quote = quote /\ p.rows = Len(pricing)
      BY <3>2, <3>4 DEF Fields
    <3>6. ReadFrom(quote, Len(pricing))
      <4>1. Len(pricing) \in 1..Len(pricing) /\ DOMAIN pricing = 1..Len(pricing)
        BY <3>4 DEF IInv, Shape
      <4>2. DefaultsWithin(Len(pricing))
        BY <3>4 DEF IInv, TableIsSeeded
      <4>3. Catalogue = FirstRows(Len(pricing))
        BY <3>4, <4>1 DEF Catalogue, Table, FirstRows
      <4> QED BY <4>1, <4>2, <4>3, QuotesAreChosen DEF ReadFrom
    <3>7. Knows(p)'
      <4>1. PICK rows : rows = Len(pricing)
        OBVIOUS
      <4>2. ReadFrom(quote, rows)'
        BY <4>1, <3>6, <1>1, ReadingsKeep DEF IInv
      <4> QED BY <3>5, <4>1, <4>2, <3>4, <1>2 DEF Knows, Fields
    <3> QED BY <3>3, <3>7, <1>1, OneKnows
  <2> QED BY <2>1, <2>2, <2>3, <2>4
<1> QED BY <1>1, <1>2, <1>3, <1>4, QuietStep DEF IInv, Shape

\* A seeding may leave a scenario behind, and only a request that began early gets there.
LEMMA Seeding ==
    ASSUME IInv, NEW r \in Request, SeedPricing(r)
    PROVE  IInv'
<1> DEFINE new == [i \in DOMAIN Default |-> [entry |-> Default[i], added |-> FALSE]]
<1>1. TableGrows /\ pricing' \in Seq(Row)
  <2>1. Next
    BY DEF Next
  <2> QED BY <2>1, Grows DEF TableGrows
<1>2. pricing' = pricing \o new /\ estimates' = estimates /\ scenarios' = Scenarios(r)
  BY DEF SeedPricing
<1>3. new \in Seq(Row) /\ Len(new) = Len(Default) /\ Len(Default) \in Nat \ {0}
      /\ DOMAIN Default = 1..Len(Default)
  BY DefaultsAreRows
<1>4. pricing' # << >>
  <2> HIDE DEF new
  <2> QED BY <1>2, <1>3 DEF IInv, Shape
<1>5. TableIsSeeded'
  <2>1. CASE pricing = << >>
    <3>1. pricing' = new /\ Len(pricing') = Len(Default)
      <4> HIDE DEF new
      <4> QED BY <2>1, <1>2, <1>3
    <3>2. \A d \in DOMAIN Default : d \in 1..Len(pricing') /\ pricing'[d].entry = Default[d]
      BY <3>1, <1>3
    <3> QED BY <3>2 DEF TableIsSeeded, DefaultsWithin
  <2>2. CASE pricing # << >>
    BY <1>1, <2>2, SeededStays DEF IInv
  <2> QED BY <2>1, <2>2
<1>6. Knows(request[r]) /\ request[r].pc = "seed"
  BY DEF SeedPricing, IInv, RequestsKnow
<1>7. RequestsKnow' /\ DOMAIN request' = Request
  <2>1. PICK p : p = [request[r] EXCEPT !.pc = "read"]
    OBVIOUS
  <2>2. Fields(p) /\ p.pc = "read"
    BY <2>1, <1>6 DEF Knows, Fields
  <2>3. Knows(p)'
    BY <2>2, <1>4 DEF Knows, Fields
  <2>4. request' = [request EXCEPT ![r] = p]
    BY <2>1 DEF SeedPricing
  <2> QED BY <2>3, <2>4, <1>1, OneKnows
<1>8. OnlySeedingLeavesScenarios'
  <2>1. \A s \in scenarios' \ scenarios : s.early
    BY <1>2, <1>6 DEF Scenarios, Knows
  <2> QED BY <2>1, <1>2 DEF IInv, OnlySeedingLeavesScenarios
<1> QED BY <1>1, <1>2, <1>5, <1>7, <1>8, EstimatesStay DEF IInv, Shape

\* The estimate is stored with its scenario.
LEMMA Storing ==
    ASSUME IInv, NEW r \in Request, StoreEstimate(r)
    PROVE  IInv'
<1>1. TableGrows /\ pricing' \in Seq(Row)
  <2>1. Next
    BY DEF Next
  <2> QED BY <2>1, Grows DEF TableGrows
<1>2. PICK e : /\ estimates' = Append(estimates, e)
               /\ e.scenario = request[r].id
               /\ e.quote = request[r].quote /\ e.rows = request[r].rows
  BY DEF StoreEstimate
<1>3. PICK S : estimates \in Seq(S)
  BY DEF IInv, Shape
<1>4. /\ estimates' \in Seq(S \cup {e}) /\ Len(estimates) \in Nat
      /\ DOMAIN estimates = 1..Len(estimates) /\ DOMAIN estimates' = 1..(Len(estimates) + 1)
      /\ \A i \in DOMAIN estimates : estimates'[i] = estimates[i]
      /\ estimates'[Len(estimates) + 1] = e
  <2>1. estimates \in Seq(S \cup {e}) /\ e \in S \cup {e}
    BY <1>3
  <2> QED BY <2>1, <1>2
<1>5. UNCHANGED pricing /\ scenarios' = Scenarios(r) /\ request' = [request EXCEPT ![r] = Idle]
  BY DEF StoreEstimate
<1>6. TableIsSeeded'
  BY <1>5 DEF IInv, TableIsSeeded, DefaultsWithin
<1>7. RequestsKnow' /\ DOMAIN request' = Request
  BY <1>1, <1>5, IdleKnows, OneKnows
<1>8. EstimatesWereRead'
  <2>1. ASSUME NEW i \in DOMAIN estimates'
        PROVE  \E quote, rows : /\ ReadFrom(quote, rows)
                                /\ estimates'[i].quote = quote /\ estimates'[i].rows = rows
    <3>1. CASE i \in DOMAIN estimates
      BY <3>1, <1>4 DEF IInv, EstimatesWereRead
    <3>2. CASE i = Len(estimates) + 1
      <4>1. ReadFrom(request[r].quote, request[r].rows)
        BY DEF StoreEstimate, IInv, RequestsKnow, Knows
      <4> QED BY <3>2, <4>1, <1>2, <1>4
    <3> QED BY <3>1, <3>2, <1>4
  <2>2. ASSUME NEW i \in DOMAIN estimates'
        PROVE  ReadFrom(estimates'[i].quote, estimates'[i].rows)
    BY <2>1
  <2>3. ASSUME NEW quote, NEW rows, ReadFrom(quote, rows)
        PROVE  ReadFrom(quote, rows)'
    BY <2>3, <1>1, ReadingsKeep DEF IInv
  <2> QED BY <2>2, <2>3 DEF EstimatesWereRead
<1>9. OnlySeedingLeavesScenarios'
  <2> SUFFICES ASSUME NEW s \in scenarios', ~ s.early
               PROVE  \E i \in DOMAIN estimates' : estimates'[i].scenario = s.id
    BY DEF OnlySeedingLeavesScenarios
  <2>1. CASE s \in scenarios
    BY <2>1, <1>4 DEF IInv, OnlySeedingLeavesScenarios
  <2>2. CASE s \notin scenarios
    <3>1. s.id = e.scenario
      BY <2>2, <1>2, <1>5 DEF Scenarios
    <3> QED BY <3>1, <1>4
  <2> QED BY <2>1, <2>2
<1> QED BY <1>1, <1>4, <1>6, <1>7, <1>8, <1>9 DEF IInv, Shape

LEMMA Stuttering == IInv /\ UNCHANGED vars => IInv'
<1> SUFFICES ASSUME IInv, UNCHANGED vars PROVE IInv'
  OBVIOUS
<1>1. TableGrows /\ pricing' \in Seq(Row)
  BY Grows DEF TableGrows
<1>2. TableIsSeeded'
  BY DEF IInv, TableIsSeeded, DefaultsWithin, vars
<1>3. UNCHANGED << scenarios, estimates, request >>
  BY DEF vars
<1> QED BY <1>1, <1>2, <1>3, NoneMoves, QuietStep DEF IInv, Shape

LEMMA Preserve == IInv /\ [Next]_vars => IInv'
BY Stuttering, Adding, Reading, Seeding, Storing DEF Next

\* Prices are as good as the rows they were read from.
LEMMA ReadingsImprove == IInv => PricesOnlyImprove
<1> SUFFICES ASSUME IInv PROVE PricesOnlyImprove
  OBVIOUS
<1>1. \A i \in DOMAIN estimates : ReadFrom(estimates[i].quote, estimates[i].rows)
  BY DEF IInv, EstimatesWereRead
<1>2. ASSUME NEW i \in DOMAIN estimates, NEW j \in DOMAIN estimates,
             estimates[i].rows <= estimates[j].rows,
             NEW n \in Node, estimates[i].quote[n] # None
      PROVE  /\ estimates[j].quote[n] # None
             /\ ~ Outranks(n, estimates[i].quote[n][1], estimates[j].quote[n][1])
  <2> DEFINE small == FirstRows(estimates[i].rows)
             large == FirstRows(estimates[j].rows)
  <2>1. Chosen(estimates[i].quote, small) /\ Chosen(estimates[j].quote, large)
    BY <1>1 DEF ReadFrom
  <2>2. small \subseteq large
    <3>1. estimates[i].rows \in Nat /\ estimates[j].rows \in Nat
      BY <1>1 DEF ReadFrom, IInv, Shape
    <3> QED BY <3>1, <1>2 DEF FirstRows
  <2>3. large \in SUBSET Entries
    <3>1. \A k \in 1..estimates[j].rows : pricing[k] \in Row
      BY <1>1 DEF ReadFrom, IInv, Shape
    <3> QED BY <3>1 DEF FirstRows, Row
  <2> HIDE DEF small, large
  <2> QED BY <1>2, <2>1, <2>2, <2>3, LargerTableServesBetter
<1>3. \A i \in DOMAIN estimates :
          \/ \A d \in DOMAIN Default : \E k \in 1..estimates[i].rows : pricing[k].entry = Default[d]
          \/ pricing[1].added
  BY <1>1 DEF ReadFrom, DefaultsWithin
<1> QED BY <1>2, <1>3 DEF PricesOnlyImprove
-----------------------------------------------------------------------------
LEMMA AlwaysIInv == Spec => []IInv
BY Establish, Preserve, PTL DEF Spec

\* For any number of requests: a request that fails leaves a scenario without an estimate only
\* if the table was empty when it began (services/costs.py, estimate and _seed_pricing).
THEOREM FailuresLeaveNothing == Spec => []OnlySeedingLeavesScenarios
<1>1. IInv => OnlySeedingLeavesScenarios
  BY DEF IInv
<1> QED BY <1>1, AlwaysIInv, PTL

\* For any prices and any nodes: what a node costs is the best of the prices there were, so it
\* never gets a worse one from more rows (costing/pricing.py, find; services/costs.py).
THEOREM PricesAreTheBest == Spec => []PricesOnlyImprove
BY ReadingsImprove, AlwaysIInv, PTL
=============================================================================
