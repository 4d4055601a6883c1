--------------------------- MODULE AssessmentProofs ---------------------------
(***************************************************************************)
(* Theorems about Assessment for every set of workflows and requests and     *)
(* every value of the bounds.                                                *)
(*                                                                         *)
(* Penalties and weighted scores are sums over sets, and requirements are     *)
(* gathered into lists by folds, all of which the community modules define by  *)
(* recursive functions.  That such functions exist, and what their values are,  *)
(* is proved here from the least-number principle.                            *)
(***************************************************************************)
EXTENDS Assessment, FiniteSetTheorems, FunctionTheorems, SequenceTheorems,
        WellFoundedInduction, TLAPS

\* The least-number principle.
LEMMA LeastNumber ==
    ASSUME NEW T \in SUBSET Nat, T # {}
    PROVE  \E n \in T : \A m \in T : n <= m
<1>1. PICK n \in T : \A m \in T : ~ (<< m, n >> \in OpToRel(<, Nat))
  BY NatLessThanWellFounded, WFMin
<1>2. \A m \in T : ~ (m < n)
  BY <1>1 DEF OpToRel
<1> QED
  BY <1>2

Picks(S) == {p \in [(SUBSET S) \ {{}} -> S] : \A s \in (SUBSET S) \ {{}} : p[s] \in s}

\* Taking out the element that Pick takes leaves a smaller set.
LEMMA Smaller ==
    ASSUME NEW S, IsFiniteSet(S), NEW Pick \in Picks(S), NEW s \in SUBSET S, s # {}
    PROVE  /\ Pick[s] \in s /\ s \ {Pick[s]} \in SUBSET S
           /\ Cardinality(s) \in Nat /\ Cardinality(s) > 0
           /\ Cardinality(s \ {Pick[s]}) = Cardinality(s) - 1
<1>1. Pick[s] \in s
  BY DEF Picks
<1>2. IsFiniteSet(s)
  BY FS_Subset
<1>3. Cardinality(s) \in Nat /\ Cardinality(s) # 0
  BY <1>2, FS_CardinalityType, FS_EmptySet
<1>4. Cardinality(s \ {Pick[s]}) = Cardinality(s) - 1
  BY <1>1, <1>2, FS_RemoveElement
<1> QED
  BY <1>1, <1>3, <1>4

\* A table over the subsets of S is in T everywhere if it is for the empty set, and for a set
\* whenever it is for this set without the element that Pick takes.
LEMMA TableStays ==
    ASSUME NEW S, IsFiniteSet(S), NEW Pick \in Picks(S), NEW T, NEW table, table[{}] \in T,
           \A s \in SUBSET S : s # {} /\ table[s \ {Pick[s]}] \in T => table[s] \in T
    PROVE  \A s \in SUBSET S : table[s] \in T
<1> DEFINE Wrong == {n \in Nat : \E s \in SUBSET S : Cardinality(s) = n /\ table[s] \notin T}
<1>0. \A s \in SUBSET S : Cardinality(s) \in Nat
  BY FS_Subset, FS_CardinalityType
<1>1. Wrong = {}
  <2>1. SUFFICES ASSUME Wrong # {} PROVE FALSE
    OBVIOUS
  <2>2. PICK n \in Wrong : \A m \in Wrong : n <= m
    <3> HIDE DEF Wrong
    <3>1. Wrong \in SUBSET Nat
      BY DEF Wrong
    <3> QED
      BY <2>1, <3>1, LeastNumber
  <2>3. PICK s \in SUBSET S : Cardinality(s) = n /\ table[s] \notin T
    OBVIOUS
  <2>4. s # {}
    BY <2>3
  <2>5. /\ s \ {Pick[s]} \in SUBSET S
        /\ Cardinality(s \ {Pick[s]}) \in Nat /\ Cardinality(s \ {Pick[s]}) < n
    BY <1>0, <2>3, <2>4, Smaller
  <2>6. table[s \ {Pick[s]}] \in T
    BY <2>2, <2>5
  <2> QED
    BY <2>3, <2>4, <2>6
<1> QED
  BY <1>0, <1>1

Small(S, n) == {s \in SUBSET S : Cardinality(s) <= n}

\* Whether table folds Step over the subsets of S of at most n elements, from base, in the order
\* that Pick takes elements.
FoldsUpTo(n, table, S, T, base, Step, Pick) ==
    /\ table \in [Small(S, n) -> T]
    /\ \A s \in Small(S, n) :
           table[s] = IF s = {} THEN base ELSE Step[<< Pick[s], table[s \ {Pick[s]}] >>]

\* Whether table does so over all the subsets of S.
Tabulates(table, S, T, base, Step, Pick) ==
    /\ table \in [SUBSET S -> T]
    /\ \A s \in SUBSET S :
           table[s] = IF s = {} THEN base ELSE Step[<< Pick[s], table[s \ {Pick[s]}] >>]

\* There is a table of what folding comes to: it is extended from the sets of at most n
\* elements to those of one more.
LEMMA FoldExists ==
    ASSUME NEW S, IsFiniteSet(S), NEW T, NEW base \in T, NEW Step \in [S \X T -> T], NEW Pick \in Picks(S)
    PROVE  \E table : Tabulates(table, S, T, base, Step, Pick)
<1> DEFINE Missing == {n \in Nat : ~ \E table : FoldsUpTo(n, table, S, T, base, Step, Pick)}
<1>0. \A s \in SUBSET S : Cardinality(s) \in Nat
  BY FS_Subset, FS_CardinalityType
<1>1. Missing = {}
  <2>1. SUFFICES ASSUME Missing # {} PROVE FALSE
    OBVIOUS
  <2>2. PICK n \in Missing : \A m \in Missing : n <= m
    <3> HIDE DEF Missing
    <3>1. Missing \in SUBSET Nat
      BY DEF Missing
    <3> QED
      BY <2>1, <3>1, LeastNumber
  <2>3. CASE n = 0
    <3> DEFINE table == [s \in Small(S, 0) |-> base]
    <3>1. \A s \in Small(S, 0) : s = {}
      <4>1. ASSUME NEW s \in Small(S, 0) PROVE s = {}
        <5>1. IsFiniteSet(s) /\ Cardinality(s) = 0
          BY <1>0, FS_Subset DEF Small
        <5> QED
          BY <5>1, FS_EmptySet
      <4> QED
        BY <4>1
    <3>2. FoldsUpTo(0, table, S, T, base, Step, Pick)
      BY <3>1 DEF FoldsUpTo
    <3> QED
      BY <2>3, <3>2
  <2>4. CASE n # 0
    <3>1. n - 1 \in Nat /\ n - 1 \notin Missing
      BY <2>2, <2>4
    <3>2. PICK less : FoldsUpTo(n - 1, less, S, T, base, Step, Pick)
      BY <3>1
    <3> DEFINE table == [s \in Small(S, n) |-> IF s \in Small(S, n - 1) THEN less[s]
                                               ELSE Step[<< Pick[s], less[s \ {Pick[s]}] >>]]
    <3>3. Small(S, n - 1) \subseteq Small(S, n) /\ {} \in Small(S, n - 1)
      BY <1>0, <3>1, FS_EmptySet DEF Small
    <3>4. \A s \in Small(S, n) : s # {} => /\ Pick[s] \in S
                                           /\ s \ {Pick[s]} \in Small(S, n - 1)
      BY <1>0, <3>1, Smaller DEF Small
    <3>5. table \in [Small(S, n) -> T]
      <4>1. ASSUME NEW s \in Small(S, n), s \notin Small(S, n - 1)
            PROVE  Step[<< Pick[s], less[s \ {Pick[s]}] >>] \in T
        <5>1. s # {}
          BY <3>3, <4>1
        <5>2. Pick[s] \in S /\ less[s \ {Pick[s]}] \in T
          BY <3>2, <3>4, <5>1 DEF FoldsUpTo
        <5>3. << Pick[s], less[s \ {Pick[s]}] >> \in S \X T
          BY <5>2
        <5> QED
          BY <5>3
      <4>2. \A s \in Small(S, n - 1) : less[s] \in T
        BY <3>2 DEF FoldsUpTo
      <4> QED
        BY <4>1, <4>2
    <3>6. \A s \in Small(S, n) :
              table[s] = IF s = {} THEN base ELSE Step[<< Pick[s], table[s \ {Pick[s]}] >>]
      BY <3>2, <3>3, <3>4 DEF FoldsUpTo
    <3> HIDE DEF table
    <3>7. FoldsUpTo(n, table, S, T, base, Step, Pick)
      BY <3>5, <3>6 DEF FoldsUpTo
    <3> QED
      BY <3>7
  <2> QED
    BY <2>3, <2>4
<1>2. PICK table : FoldsUpTo(Cardinality(S), table, S, T, base, Step, Pick)
  BY <1>0, <1>1
<1>3. Small(S, Cardinality(S)) = SUBSET S
  BY <1>0, FS_Subset DEF Small
<1>4. Tabulates(table, S, T, base, Step, Pick)
  BY <1>2, <1>3 DEF FoldsUpTo, Tabulates
<1> QED
  BY <1>4

\* Whether sum adds up V over the subsets of S, in the order that Pick takes elements.
AddsUp(sum, S, V, Pick) ==
    sum = [s \in SUBSET S |-> IF s = {} THEN 0 ELSE V[Pick[s]] + sum[s \ {Pick[s]}]]

\* Sums of numbers are numbers.
LEMMA SumsAreNatural ==
    ASSUME NEW S, IsFiniteSet(S), NEW V \in [S -> Nat], NEW Pick \in Picks(S),
           NEW sum, AddsUp(sum, S, V, Pick)
    PROVE  sum[S] \in Nat
<1>1. sum[{}] \in Nat
  BY DEF AddsUp
<1>2. ASSUME NEW s \in SUBSET S, s # {}, sum[s \ {Pick[s]}] \in Nat PROVE sum[s] \in Nat
  <2>1. Pick[s] \in S
    BY <1>2, Smaller
  <2>2. sum[s] = V[Pick[s]] + sum[s \ {Pick[s]}]
    BY <1>2 DEF AddsUp
  <2> QED
    BY <1>2, <2>1, <2>2
<1>3. \A s \in SUBSET S : sum[s] \in Nat
  BY <1>1, <1>2, TableStays
<1> QED
  BY <1>3

\* There is a table of sums.
LEMMA SumExists ==
    ASSUME NEW S, IsFiniteSet(S), NEW V \in [S -> Nat], NEW Pick \in Picks(S)
    PROVE  \E sum : AddsUp(sum, S, V, Pick)
<1> DEFINE I == Nat
           Step == [p \in S \X I |-> V[p[1]] + p[2]]
<1>1. 0 \in I /\ Step \in [S \X I -> I]
  OBVIOUS
<1>2. PICK sum : Tabulates(sum, S, I, 0, Step, Pick)
  <2> HIDE DEF Step, I
  <2> QED
    BY <1>1, FoldExists
<1>3. ASSUME NEW s \in SUBSET S, s # {}
      PROVE  Step[<< Pick[s], sum[s \ {Pick[s]}] >>] = V[Pick[s]] + sum[s \ {Pick[s]}]
  <2>1. Pick[s] \in S /\ sum[s \ {Pick[s]}] \in Nat
    BY <1>2, <1>3, Smaller DEF Tabulates
  <2> QED
    BY <2>1
<1> HIDE DEF Step
<1>4. AddsUp(sum, S, V, Pick)
  BY <1>2, <1>3 DEF AddsUp, Tabulates
<1> QED
  BY <1>4

\* There is one table of sums.
LEMMA SumsAgree ==
    ASSUME NEW S, IsFiniteSet(S), NEW V \in [S -> Nat], NEW Pick \in Picks(S),
           NEW one, AddsUp(one, S, V, Pick), NEW other, AddsUp(other, S, V, Pick)
    PROVE  one[S] = other[S]
<1> DEFINE T == {p \in Nat \X Nat : p[1] = p[2]}
           both == [s \in SUBSET S |-> << one[s], other[s] >>]
<1>1. both[{}] \in T
  <2>1. both[{}] = << 0, 0 >>
    BY DEF AddsUp
  <2> QED
    BY <2>1
<1>2. ASSUME NEW s \in SUBSET S, s # {}, both[s \ {Pick[s]}] \in T PROVE both[s] \in T
  <2> DEFINE d == Pick[s]
             a == one[s \ {d}]
             b == other[s \ {d}]
  <2>1. d \in S /\ s \ {d} \in SUBSET S
    BY <1>2, Smaller
  <2>2. one[s] = V[d] + a /\ other[s] = V[d] + b
    BY <1>2 DEF AddsUp
  <2>3. both[s \ {d}] = << a, b >> /\ both[s] = << V[d] + a, V[d] + b >>
    BY <2>1, <2>2
  <2>4. V[d] \in Nat
    BY <2>1
  <2> HIDE DEF d, a, b
  <2>5. a \in Nat /\ b \in Nat /\ a = b
    BY <1>2, <2>3 DEF d
  <2> QED
    BY <2>3, <2>4, <2>5
<1>3. \A s \in SUBSET S : both[s] \in T
  <2> HIDE DEF both, T
  <2> QED
    BY <1>1, <1>2, TableStays
<1> QED
  BY <1>3

\* What the findings of one rule weigh (scoring.py 161) is a number.
LEMMA RawIsNatural ==
    ASSUME NEW S, IsFiniteSet(S), \A f \in S : RawPenalty(f.severity) \in Nat
    PROVE  MapThenSumSet(LAMBDA f : RawPenalty(f.severity), S) \in Nat
<1> DEFINE Sum(sum) == sum = [s \in SUBSET S |->
               IF s = {} THEN 0
               ELSE RawPenalty((CHOOSE x \in s : TRUE).severity) + sum[s \ {CHOOSE x \in s : TRUE}]]
           V == [x \in S |-> RawPenalty(x.severity)]
           Pick == [s \in (SUBSET S) \ {{}} |-> CHOOSE x \in s : TRUE]
<1>1. Pick \in Picks(S) /\ V \in [S -> Nat]
  BY DEF Picks
<1>2. \A sum : Sum(sum) <=> AddsUp(sum, S, V, Pick)
  BY <1>1 DEF AddsUp
<1>3. PICK sum : AddsUp(sum, S, V, Pick)
  <2> HIDE DEF V, Pick
  <2> QED
    BY <1>1, SumExists
<1>4. Sum(CHOOSE sum0 : Sum(sum0))
  <2>1. \E sum0 : Sum(sum0)
    <3> HIDE DEF Sum, V, Pick
    <3> QED
      BY <1>2, <1>3
  <2> HIDE DEF Sum
  <2> QED
    BY <2>1
<1>5. (CHOOSE sum0 : Sum(sum0))[S] \in Nat
  <2> HIDE DEF Sum, V, Pick
  <2> QED
    BY <1>1, <1>2, <1>4, SumsAreNatural
<1>6. MapThenSumSet(LAMBDA f : RawPenalty(f.severity), S) = (CHOOSE sum0 : Sum(sum0))[S]
  BY DEF MapThenSumSet, MapThenFoldSet
<1> QED
  BY <1>5, <1>6

\* A finite set has finitely many images.
LEMMA FiniteImage ==
    ASSUME NEW S, IsFiniteSet(S), NEW g
    PROVE  IsFiniteSet({g[x] : x \in S})
<1> DEFINE T == {g[x] : x \in S}
           f == [x \in S |-> g[x]]
<1>1. f \in Surjection(S, T)
  BY Fun_IsSurj
<1> QED
  BY <1>1, FS_Surjection

\* A finite set of numbers has a greatest one.
LEMMA GreatestNumber ==
    ASSUME NEW T \in SUBSET Nat, IsFiniteSet(T), T # {}
    PROVE  \E n \in T : \A m \in T : m <= n
<1> DEFINE Above(i) == {j \in T : i < j}
           Sizes == {Cardinality(Above(i)) : i \in T}
<1>1. \A i \in T : IsFiniteSet(Above(i)) /\ Cardinality(Above(i)) \in Nat
  <2>1. \A i \in T : Above(i) \in SUBSET T
    OBVIOUS
  <2> HIDE DEF Above
  <2> QED
    BY <2>1, FS_Subset, FS_CardinalityType
<1>2. PICK i \in T : \A j \in T : Cardinality(Above(i)) <= Cardinality(Above(j))
  <2>1. Sizes \in SUBSET Nat /\ Sizes # {}
    BY <1>1
  <2>2. PICK n \in Sizes : \A m \in Sizes : n <= m
    <3> HIDE DEF Sizes
    <3> QED
      BY <2>1, LeastNumber
  <2> HIDE DEF Above
  <2> QED
    BY <2>2
<1>3. Above(i) = {}
  <2>1. SUFFICES ASSUME NEW j \in Above(i) PROVE FALSE
    OBVIOUS
  <2>2. Above(j) \in SUBSET Above(i) /\ j \in T
    <3>1. i \in Nat /\ j \in T /\ j \in Nat /\ i < j
      OBVIOUS
    <3>2. \A k \in T : k \in Nat /\ (j < k => i < k)
      BY <3>1
    <3> QED
      BY <3>1, <3>2
  <2>3. j \in Above(i) /\ j \notin Above(j)
    OBVIOUS
  <2>4. /\ Cardinality(Above(j)) <= Cardinality(Above(i))
        /\ Cardinality(Above(j)) # Cardinality(Above(i))
    <3> HIDE DEF Above
    <3> QED
      BY <1>1, <2>2, <2>3, FS_Subset
  <2> HIDE DEF Above
  <2> QED
    BY <1>1, <1>2, <2>2, <2>4
<1> QED
  BY <1>3
-----------------------------------------------------------------------------
(***************************************************************************)
(* Scores.                                                                  *)
(***************************************************************************)

Severities == {"CRITICAL", "ERROR", "WARNING", "INFO"}

\* What an analyzer returns: finitely many findings, each with a severity and a population.
WellFormed(F) ==
    /\ IsFiniteSet(F)
    /\ \A f \in F : f.severity \in Severities /\ f.population \in Nat

\* Two lists of findings make one.
LEMMA WellFormedUnion ==
    ASSUME NEW F, NEW G, WellFormed(F), WellFormed(G)
    PROVE  WellFormed(F \cup G)
BY FS_Union DEF WellFormed

\* What one rule takes (scoring.py 159-171) is a number.
LEMMA ContributionIsNatural ==
    ASSUME NEW rule, NEW F, WellFormed(F), F # {}
    PROVE  Contribution(rule, F) \in Nat
<1> DEFINE budget == RULE_BUDGETS(rule)
           first == CHOOSE f \in F : \A g \in F : g.population <= f.population
           population == first.population
           raw == MapThenSumSet(LAMBDA f : RawPenalty(f.severity), F)
<1>1. budget \in Nat
  BY DEF RULE_BUDGETS, DEFAULT_RULE_BUDGET
<1>2. population \in Nat
  <2> DEFINE pops == [f \in F |-> f.population]
             P == {pops[f] : f \in F}
  <2>1. IsFiniteSet(P)
    <3> HIDE DEF pops
    <3> QED
      BY FiniteImage DEF WellFormed
  <2>2. P \in SUBSET Nat /\ P # {}
    BY DEF WellFormed
  <2>3. PICK n \in P : \A m \in P : m <= n
    <3> HIDE DEF P
    <3> QED
      BY <2>1, <2>2, GreatestNumber
  <2>4. \E f \in F : \A g \in F : g.population <= f.population
    BY <2>3
  <2>5. first \in F
    BY <2>4
  <2> HIDE DEF first
  <2> QED
    BY <2>5 DEF WellFormed
<1>3. raw \in Nat
  <2>1. \A f \in F : RawPenalty(f.severity) \in Nat
    BY DEF WellFormed, Severities, RawPenalty
  <2> QED
    BY <2>1, RawIsNatural DEF WellFormed
<1>4. Cardinality(F) \in Nat
  BY FS_CardinalityType DEF WellFormed
<1>5. Contribution(rule, F) =
          IF population > 0 THEN AtMost((Unit \div population) * budget * Cardinality(F), Unit * budget)
          ELSE Unit * AtMost(raw, budget)
  BY DEF Contribution
<1> HIDE DEF budget, population, raw
<1>6. CASE population > 0
  <2>1. Unit \div population \in Nat
    BY <1>2, <1>6, UnitAssumption
  <2>2. (Unit \div population) * budget \in Nat
    BY <1>1, <2>1
  <2>3. (Unit \div population) * budget * Cardinality(F) \in Nat
    BY <1>4, <2>2
  <2> QED
    BY <1>1, <1>5, <1>6, <2>3, UnitAssumption DEF AtMost
<1>7. CASE ~ (population > 0)
  BY <1>1, <1>3, <1>5, <1>7, UnitAssumption DEF AtMost
<1> QED
  BY <1>6, <1>7

\* Rounding (scoring.py 181) keeps numbers numbers.
LEMMA RoundIsNatural ==
    ASSUME NEW n \in Nat, NEW d \in Nat \ {0}
    PROVE  Round(n, d) \in Nat
BY DEF Round

\* The rules that found something, and what each of them found.
Rules(F) == {f.rule : f \in F}
FindingsOf(F, rule) == {f \in F : f.rule = rule}

\* What each rule takes from a dimension.
Taken(F) == [rule \in Rules(F) |-> Contribution(rule, FindingsOf(F, rule))]

\* The order in which a fold takes the elements of a set.
AnyOf(S) == [s \in (SUBSET S) \ {{}} |-> CHOOSE x \in s : TRUE]

\* A dimension loses the rounded sum of what its rules take (scoring.py 159-181).
LEMMA PenaltyIsASum ==
    ASSUME NEW F, WellFormed(F)
    PROVE  /\ IsFiniteSet(Rules(F)) /\ Taken(F) \in [Rules(F) -> Nat] /\ AnyOf(Rules(F)) \in Picks(Rules(F))
           /\ \E sum : /\ AddsUp(sum, Rules(F), Taken(F), AnyOf(Rules(F)))
                       /\ DimensionPenalty(F) = Round(sum[Rules(F)], Unit)
<1> DEFINE S == Rules(F)
           V == Taken(F)
           Pick == AnyOf(S)
<1>1. IsFiniteSet(S)
  <2> DEFINE g == [f \in F |-> f.rule]
  <2>1. Rules(F) = {g[f] : f \in F}
    BY DEF Rules
  <2> HIDE DEF g
  <2> QED
    BY <2>1, FiniteImage DEF WellFormed
<1>2. ASSUME NEW rule \in S PROVE Contribution(rule, FindingsOf(F, rule)) \in Nat
  <2>1. FindingsOf(F, rule) # {} /\ FindingsOf(F, rule) \in SUBSET F
    BY <1>2 DEF FindingsOf, Rules
  <2>2. WellFormed(FindingsOf(F, rule))
    BY <2>1, FS_Subset DEF WellFormed
  <2> QED
    BY <2>1, <2>2, ContributionIsNatural
<1>3. V \in [S -> Nat] /\ Pick \in Picks(S)
  BY <1>2 DEF Taken, Picks, AnyOf
<1> DEFINE Each(rule) == Contribution(rule, {f \in F : f.rule = rule})
           Sum(sum) == sum = [s \in SUBSET S |->
               IF s = {} THEN 0
               ELSE Each(CHOOSE x \in s : TRUE) + sum[s \ {CHOOSE x \in s : TRUE}]]
           total == CHOOSE sum : Sum(sum)
<1>4. \A x \in S : V[x] = Each(x)
  BY DEF Taken, FindingsOf
<1>5. \A sum : Sum(sum) <=> AddsUp(sum, S, V, Pick)
  <2>1. \A s \in SUBSET S : s # {} => Pick[s] = (CHOOSE x \in s : TRUE) /\ Pick[s] \in S
    BY <1>3 DEF AnyOf, Picks
  <2>2. \A s \in SUBSET S : s # {} => V[Pick[s]] = Each(CHOOSE x \in s : TRUE)
                                      /\ Pick[s] = (CHOOSE x \in s : TRUE)
    <3> HIDE DEF Each, S, V, Pick
    <3> QED
      BY <1>4, <2>1
  <2>3. ASSUME NEW sum
        PROVE  [s \in SUBSET S |-> IF s = {} THEN 0
                                   ELSE Each(CHOOSE x \in s : TRUE) + sum[s \ {CHOOSE x \in s : TRUE}]]
                   = [s \in SUBSET S |-> IF s = {} THEN 0 ELSE V[Pick[s]] + sum[s \ {Pick[s]}]]
    <3>1. \A s \in SUBSET S : s # {} =>
              Each(CHOOSE x \in s : TRUE) + sum[s \ {CHOOSE x \in s : TRUE}] = V[Pick[s]] + sum[s \ {Pick[s]}]
      BY ONLY <2>2, Zenon
    <3> HIDE DEF Each, S, V, Pick
    <3> QED
      BY <3>1
  <2> QED
    BY ONLY <2>3 DEF AddsUp
<1>6. PICK table : AddsUp(table, S, V, Pick)
  <2> HIDE DEF S, V, Pick
  <2> QED
    BY <1>1, <1>3, SumExists
<1>7. Sum(total)
  <2>1. \E sum : Sum(sum)
    <3> HIDE DEF Sum, V, Pick, S
    <3> QED
      BY <1>5, <1>6
  <2> HIDE DEF Sum
  <2> QED
    BY <2>1
<1>8. AddsUp(total, S, V, Pick)
  <2> HIDE DEF Sum, V, Pick, S, total
  <2> QED
    BY <1>5, <1>7
<1>9. DimensionPenalty(F) = Round(total[S], Unit)
  BY DEF DimensionPenalty, MapThenSumSet, MapThenFoldSet, Rules
<1> HIDE DEF total
<1> QED
  BY <1>1, <1>3, <1>8, <1>9

\* The score of a dimension (scoring.py 112-115, 159-181) is between 0 and 100.
LEMMA ScoreInRange ==
    ASSUME NEW F, WellFormed(F)
    PROVE  DimensionScore(F) \in 0 .. 100
<1>1. PICK sum : /\ AddsUp(sum, Rules(F), Taken(F), AnyOf(Rules(F)))
                 /\ DimensionPenalty(F) = Round(sum[Rules(F)], Unit)
  BY PenaltyIsASum
<1>2. sum[Rules(F)] \in Nat
  BY <1>1, PenaltyIsASum, SumsAreNatural
<1>3. DimensionPenalty(F) \in Nat
  BY <1>1, <1>2, RoundIsNatural, UnitAssumption
<1> QED
  BY <1>3 DEF DimensionScore, AtMost, AtLeast

\* One finding of no node (as WG-REL-001 and WG-MAINT-001 have them) is well-formed.
LEMMA WellFormedOne ==
    ASSUME NEW rule, NEW severity \in Severities, NEW about
    PROVE  WellFormed({Found(rule, severity, about, 0)})
<1>1. IsFiniteSet({Found(rule, severity, about, 0)})
  BY FS_Singleton
<1>2. \A f \in {Found(rule, severity, about, 0)} : f.severity \in Severities /\ f.population \in Nat
  BY DEF Found
<1> QED
  BY <1>1, <1>2 DEF WellFormed

\* A finding for each of finitely many nodes is well-formed, too.
LEMMA WellFormedPerNode ==
    ASSUME NEW S, IsFiniteSet(S), NEW rule, NEW severity \in Severities, NEW about,
           NEW population \in Nat
    PROVE  WellFormed({Found(rule, severity, about[n], population) : n \in S})
<1> DEFINE g == [n \in S |-> Found(rule, severity, about[n], population)]
           F == {Found(rule, severity, about[n], population) : n \in S}
<1>1. F = {g[n] : n \in S}
  OBVIOUS
<1>2. IsFiniteSet(F)
  <2> HIDE DEF g
  <2> QED
    BY <1>1, FiniteImage
<1>3. \A f \in F : f.severity \in Severities /\ f.population \in Nat
  BY DEF Found
<1> QED
  BY <1>2, <1>3 DEF WellFormed
\* A finding about the id of each of some nodes is one about values of a function.
LEMMA WellFormedIds ==
    ASSUME NEW S, IsFiniteSet(S), NEW rule, NEW severity \in Severities, NEW population \in Nat
    PROVE  WellFormed({Found(rule, severity, n.id, population) : n \in S})
<1> DEFINE id == [n \in S |-> n.id]
<1>1. {Found(rule, severity, n.id, population) : n \in S}
          = {Found(rule, severity, id[n], population) : n \in S}
  OBVIOUS
<1>2. WellFormed({Found(rule, severity, id[n], population) : n \in S})
  <2> HIDE DEF id
  <2> QED
    BY WellFormedPerNode
<1> QED
  BY <1>1, <1>2

\* A workflow has finitely many nodes of each kind and finitely many edges.
LEMMA NodesAreFinite ==
    ASSUME NEW wf \in Workflow
    PROVE  /\ \A S \in SUBSET wf.nodes : IsFiniteSet(S) /\ Cardinality(S) \in Nat
           /\ External(wf) \in SUBSET wf.nodes /\ Llm(wf) \in SUBSET wf.nodes
           /\ Dependent(wf) \in SUBSET wf.nodes
           /\ IsFiniteSet(wf.edges)
BY AssessmentAssumption, FS_Subset, FS_CardinalityType DEF External, Llm, Dependent

\* The empty list of findings is well-formed.
LEMMA WellFormedNone == WellFormed({})
BY FS_EmptySet DEF WellFormed

\* The rules about a field of the calls (reliability.py, security.py) are well-formed.
LEMMA FieldRuleWellFormed ==
    ASSUME NEW wf \in Workflow, NEW rule, NEW declaring
    PROVE  WellFormed(FieldRule(wf, rule, declaring))
<1> DEFINE calls == External(wf)
           lacking == {Found(rule, "WARNING", n.id, Cardinality(calls)) : n \in calls \ declaring}
<1>1. IsFiniteSet(calls \ declaring) /\ Cardinality(calls) \in Nat
  <2>1. calls \ declaring \in SUBSET wf.nodes /\ calls \in SUBSET wf.nodes
    BY NodesAreFinite
  <2> QED
    BY <2>1, NodesAreFinite
<1>2. WellFormed(lacking)
  <2>1. "WARNING" \in Severities
    BY DEF Severities
  <2> QED
    BY <1>1, <2>1, WellFormedIds
<1>3. WellFormed({Found(rule, "INFO", "workflow", 0)})
  BY WellFormedOne DEF Severities
<1>4. FieldRule(wf, rule, declaring) \in {{}, lacking, {Found(rule, "INFO", "workflow", 0)}}
  BY DEF FieldRule
<1> HIDE DEF lacking, calls
<1> QED
  BY <1>2, <1>3, <1>4, WellFormedNone

\* So are the rules about single nodes (reliability.py).
LEMMA CallRulesWellFormed ==
    ASSUME NEW wf \in Workflow
    PROVE  WellFormed(CallRules(wf))
<1> DEFINE unhandled == {n \in Llm(wf) : ~ FailureHandled(wf, n)}
           alone == {n \in Dependent(wf) :
                        Cardinality({e.target : e \in {e \in wf.edges : e.source = n.id}}) = 1}
           A == FieldRule(wf, "WG-REL-001", {n \in External(wf) : n.timeout})
           B == FieldRule(wf, "WG-REL-002", {n \in External(wf) : n.retry})
           C == {Found("WG-REL-003", "WARNING", n.id, Cardinality(Llm(wf))) : n \in unhandled}
           D == {Found("WG-REL-004", "INFO", n.id, Cardinality(Dependent(wf))) : n \in alone}
<1>1. WellFormed(A) /\ WellFormed(B)
  BY FieldRuleWellFormed
<1>2. WellFormed(C)
  <2>1. unhandled \in SUBSET wf.nodes /\ Cardinality(Llm(wf)) \in Nat
    BY NodesAreFinite
  <2>2. IsFiniteSet(unhandled)
    BY <2>1, NodesAreFinite
  <2> HIDE DEF unhandled
  <2> QED
    BY <2>1, <2>2, WellFormedIds DEF Severities
<1>3. WellFormed(D)
  <2>1. alone \in SUBSET wf.nodes /\ Cardinality(Dependent(wf)) \in Nat
    BY NodesAreFinite
  <2>2. IsFiniteSet(alone)
    BY <2>1, NodesAreFinite
  <2>3. "INFO" \in Severities
    BY DEF Severities
  <2> DEFINE total == Cardinality(Dependent(wf))
  <2> HIDE DEF alone, total
  <2>4. WellFormed({Found("WG-REL-004", "INFO", n.id, total) : n \in alone})
    BY <2>1, <2>2, <2>3, WellFormedIds DEF total
  <2> QED
    BY <2>4 DEF total
<1>4. CallRules(wf) = ((A \cup B) \cup C) \cup D
  BY DEF CallRules
<1> HIDE DEF A, B, C, D
<1>5. WellFormed(A \cup B)
  BY <1>1, WellFormedUnion
<1>6. WellFormed((A \cup B) \cup C)
  BY <1>2, <1>5, WellFormedUnion
<1> QED
  BY <1>3, <1>4, <1>6, WellFormedUnion
\* A graph of finitely many nodes has finitely many simple cycles (rules.py, suspicious cycles):
\* a cycle is determined by the pairs of a node and the next.
LEMMA CyclesAreFinite ==
    ASSUME NEW wf \in Workflow
    PROVE  IsFiniteSet(SimpleCycles(wf))
<1> DEFINE G == GraphNodes(wf)
           C == SimpleCycles(wf)
           pairs == [f \in C |-> {<< n, f[n] >> : n \in DOMAIN f}]
<1>1. IsFiniteSet(G)
  <2>1. IsFiniteSet(wf.nodes) /\ IsFiniteSet(wf.edges)
    BY AssessmentAssumption
  <2> DEFINE id == [n \in wf.nodes |-> n.id]
             target == [e \in wf.edges |-> e.target]
             source == [e \in wf.edges |-> e.source]
  <2>2. NodeIds(wf) = {id[n] : n \in wf.nodes} /\ Targets(wf) = {target[e] : e \in wf.edges}
        /\ Sources(wf) = {source[e] : e \in wf.edges}
    BY DEF NodeIds, Targets, Sources
  <2> HIDE DEF id, target, source
  <2>3. IsFiniteSet(NodeIds(wf)) /\ IsFiniteSet(Targets(wf)) /\ IsFiniteSet(Sources(wf))
    BY <2>1, <2>2, FiniteImage
  <2>4. IsFiniteSet(NodeIds(wf) \cup Targets(wf))
    BY <2>3, FS_Union
  <2> QED
    BY <2>3, <2>4, FS_Union DEF GraphNodes
<1>2. \A f \in C : \E S \in SUBSET G : f \in [S -> S]
  BY DEF SimpleCycles
<1>3. IsFiniteSet(SUBSET (G \X G))
  <2> HIDE DEF G
  <2>1. IsFiniteSet(G \X G)
    BY <1>1, FS_Product
  <2> QED
    BY <2>1, FS_SUBSET
<1>4. pairs \in [C -> SUBSET (G \X G)]
  <2> HIDE DEF C, G
  <2>1. ASSUME NEW f \in C PROVE {<< n, f[n] >> : n \in DOMAIN f} \in SUBSET (G \X G)
    <3>1. PICK S \in SUBSET G : f \in [S -> S]
      BY <1>2
    <3>2. \A n \in DOMAIN f : n \in G /\ f[n] \in G
      BY <3>1
    <3> QED
      BY <3>2
  <2> QED
    BY <2>1
<1>5. ASSUME NEW f \in C, NEW g \in C, pairs[f] = pairs[g]
      PROVE  f = g
  <2> HIDE DEF C, G
  <2>1. PICK S \in SUBSET G : f \in [S -> S]
    BY <1>2
  <2>2. PICK T \in SUBSET G : g \in [T -> T]
    BY <1>2
  <2>3. {<< n, f[n] >> : n \in S} = {<< n, g[n] >> : n \in T}
    BY <1>5, <2>1, <2>2
  <2>4. ASSUME NEW n \in S PROVE n \in T /\ g[n] = f[n]
    <3>1. << n, f[n] >> \in {<< m, g[m] >> : m \in T}
      BY <2>3
    <3> QED
      BY <3>1
  <2>5. ASSUME NEW n \in T PROVE n \in S
    <3>1. << n, g[n] >> \in {<< m, f[m] >> : m \in S}
      BY <2>3
    <3> QED
      BY <3>1
  <2>6. S = T
    BY <2>4, <2>5
  <2> QED
    BY <2>1, <2>2, <2>4, <2>6
<1>6. pairs \in Injection(C, SUBSET (G \X G))
  <2> HIDE DEF C, G, pairs
  <2> QED
    BY <1>4, <1>5, Fun_IsInj
<1> HIDE DEF C, G, pairs
<1>7. IsFiniteSet(C)
  BY <1>3, <1>6, FS_Injection
<1> QED
  BY <1>7 DEF C

\* So WG-REL-005 (reliability.py) finds finitely many loops.
LEMMA LoopRuleWellFormed ==
    ASSUME NEW wf \in Workflow
    PROVE  WellFormed(LoopRule(wf))
<1> DEFINE loops == {cycle \in SimpleCycles(wf) :
               \A e \in wf.edges : {e.source, e.target} \subseteq DOMAIN cycle => ~ Conditioned(e)}
           same == [cycle \in loops |-> cycle]
<1>1. IsFiniteSet(loops)
  <2>1. loops \in SUBSET SimpleCycles(wf)
    OBVIOUS
  <2> HIDE DEF loops
  <2> QED
    BY <2>1, CyclesAreFinite, FS_Subset
<1>2. LoopRule(wf) = {Found("WG-REL-005", "WARNING", cycle, 0) : cycle \in loops}
  BY DEF LoopRule
<1>3. LoopRule(wf) = {Found("WG-REL-005", "WARNING", same[cycle], 0) : cycle \in loops}
  <2> HIDE DEF loops
  <2> QED
    BY <1>2
<1>4. "WARNING" \in Severities /\ 0 \in Nat
  BY DEF Severities
<1> HIDE DEF loops, same
<1> QED
  BY <1>1, <1>3, <1>4, WellFormedPerNode
\* The findings about keys of the nodes (security.py 53-88) are well-formed.
LEMMA KeyRuleWellFormed ==
    ASSUME NEW wf \in Workflow, NEW rule, NEW keys, \A n \in wf.nodes : IsFiniteSet(keys[n])
    PROVE  WellFormed(KeyRule(wf, rule, keys))
<1> DEFINE total == Cardinality(wf.nodes)
           about(n) == [key \in keys[n] |-> << n.id, key >>]
           each == [n \in wf.nodes |-> {Found(rule, "CRITICAL", about(n)[key], total) : key \in keys[n]}]
<1>1. \A n \in wf.nodes : WellFormed(each[n])
  <2>1. SUFFICES ASSUME NEW n \in wf.nodes
                 PROVE  WellFormed({Found(rule, "CRITICAL", about(n)[key], total) : key \in keys[n]})
    OBVIOUS
  <2>2. total \in Nat
    <3>1. wf.nodes \in SUBSET wf.nodes
      OBVIOUS
    <3> QED
      BY <3>1, NodesAreFinite
  <2>3. "CRITICAL" \in Severities
    BY DEF Severities
  <2> DEFINE f == about(n)
             K == keys[n]
  <2>4. WellFormed({Found(rule, "CRITICAL", f[key], total) : key \in K})
    <3>1. IsFiniteSet(K)
      OBVIOUS
    <3> HIDE DEF f, total, K
    <3> QED
      BY <2>2, <2>3, <3>1, WellFormedPerNode
  <2> QED
    BY <2>4
<1>2. KeyRule(wf, rule, keys) = UNION {each[n] : n \in wf.nodes}
  <2>1. \A n \in wf.nodes :
            each[n] = {Found(rule, "CRITICAL", << n.id, key >>, Cardinality(wf.nodes)) : key \in keys[n]}
    OBVIOUS
  <2> HIDE DEF each
  <2> QED
    BY <2>1 DEF KeyRule
<1> HIDE DEF each
<1>3. IsFiniteSet({each[n] : n \in wf.nodes})
  BY AssessmentAssumption, FiniteImage
<1>4. \A T \in {each[n] : n \in wf.nodes} : WellFormed(T)
  BY <1>1
<1>5. IsFiniteSet(UNION {each[n] : n \in wf.nodes})
  BY <1>3, <1>4, FS_UNION DEF WellFormed
<1>6. \A f \in UNION {each[n] : n \in wf.nodes} : f.severity \in Severities /\ f.population \in Nat
  BY <1>4 DEF WellFormed
<1> QED
  BY <1>2, <1>5, <1>6 DEF WellFormed

\* Each key (security.py 53-88) has its finding, which is critical.
LEMMA KeyRuleFinds ==
    ASSUME NEW wf \in Workflow, NEW rule, NEW keys, NEW n \in wf.nodes, NEW key \in keys[n]
    PROVE  \E f \in KeyRule(wf, rule, keys) : f.severity = "CRITICAL"
<1> DEFINE f == Found(rule, "CRITICAL", << n.id, key >>, Cardinality(wf.nodes))
<1>1. f \in KeyRule(wf, rule, keys)
  BY DEF KeyRule
<1>2. f.severity = "CRITICAL"
  BY DEF Found
<1> HIDE DEF f
<1> QED
  BY <1>1, <1>2

\* The rules of security.py are well-formed.
LEMMA SecurityRulesWellFormed ==
    ASSUME NEW wf \in Workflow
    PROVE  WellFormed(SecurityRules(wf))
<1> DEFINE total == Cardinality(wf.nodes)
           llms == Cardinality(Llm(wf))
           open == {n \in wf.nodes : n.http}
           exposed == {n \in Llm(wf) : wf.sensitive}
           A == KeyRule(wf, "WG-SEC-001", [n \in wf.nodes |-> n.secrets])
           B == KeyRule(wf, "WG-SEC-002", [n \in wf.nodes |-> n.leaks \ n.secrets])
           C == {Found("WG-SEC-003", "ERROR", n.id, total) : n \in open}
           D == FieldRule(wf, "WG-SEC-004", {n \in External(wf) : n.auth})
           E == {Found("WG-SEC-005", "WARNING", n.id, llms) : n \in exposed}
<1>1. /\ total \in Nat /\ llms \in Nat
      /\ open \in SUBSET wf.nodes /\ IsFiniteSet(open)
      /\ exposed \in SUBSET wf.nodes /\ IsFiniteSet(exposed)
  <2>1. wf.nodes \in SUBSET wf.nodes /\ open \in SUBSET wf.nodes
    OBVIOUS
  <2>2. Llm(wf) \in SUBSET wf.nodes
    BY NodesAreFinite
  <2>3. exposed \in SUBSET wf.nodes
    BY <2>2
  <2> HIDE DEF open, exposed
  <2> QED
    BY <2>1, <2>2, <2>3, NodesAreFinite
<1>2. \A n \in wf.nodes : IsFiniteSet(n.secrets) /\ IsFiniteSet(n.leaks \ n.secrets)
  <2>1. ASSUME NEW n \in wf.nodes PROVE IsFiniteSet(n.secrets) /\ IsFiniteSet(n.leaks \ n.secrets)
    <3>1. IsFiniteSet(n.secrets) /\ IsFiniteSet(n.leaks) /\ n.leaks \ n.secrets \in SUBSET n.leaks
      BY AssessmentAssumption
    <3> QED
      BY <3>1, FS_Subset
  <2> QED
    BY <2>1
<1>3. WellFormed(A) /\ WellFormed(B)
  <2> DEFINE secrets == [n \in wf.nodes |-> n.secrets]
             leaks == [n \in wf.nodes |-> n.leaks \ n.secrets]
  <2>1. \A n \in wf.nodes : IsFiniteSet(secrets[n]) /\ IsFiniteSet(leaks[n])
    BY <1>2
  <2> HIDE DEF secrets, leaks
  <2>2. WellFormed(KeyRule(wf, "WG-SEC-001", secrets)) /\ WellFormed(KeyRule(wf, "WG-SEC-002", leaks))
    BY <2>1, KeyRuleWellFormed
  <2> QED
    BY <2>2 DEF secrets, leaks
<1>4. SecurityRules(wf) = (((A \cup B) \cup C) \cup D) \cup E
  BY DEF SecurityRules
<1>5. "ERROR" \in Severities /\ "WARNING" \in Severities
  BY DEF Severities
<1>6. WellFormed(D)
  BY FieldRuleWellFormed
<1> HIDE DEF open, exposed, total, llms
<1>7. WellFormed(C) /\ WellFormed(E)
  <2>1. WellFormed({Found("WG-SEC-003", "ERROR", n.id, total) : n \in open})
    BY <1>1, <1>5, WellFormedIds
  <2>2. WellFormed({Found("WG-SEC-005", "WARNING", n.id, llms) : n \in exposed})
    <3> DEFINE rule == "WG-SEC-005"
               severity == "WARNING"
    <3>1. llms \in Nat /\ IsFiniteSet(exposed) /\ severity \in Severities
      BY <1>1, <1>5
    <3> HIDE DEF rule, severity
    <3>2. WellFormed({Found(rule, severity, n.id, llms) : n \in exposed})
      BY <3>1, WellFormedIds
    <3> QED
      BY <3>2 DEF rule, severity
  <2> QED
    BY <2>1, <2>2
<1> HIDE DEF A, B, C, D, E
<1>9. WellFormed(A \cup B)
  BY <1>3, WellFormedUnion
<1>10. WellFormed((A \cup B) \cup C)
  BY <1>7, <1>9, WellFormedUnion
<1>11. WellFormed(((A \cup B) \cup C) \cup D)
  BY <1>6, <1>10, WellFormedUnion
<1> QED
  BY <1>4, <1>7, <1>11, WellFormedUnion

\* A workflow without a critical finding (security.py 53-88) keeps no secret.
LEMMA NoCriticalNoSecret ==
    ASSUME NEW wf \in Workflow, CriticalCount(SecurityRules(wf)) = 0
    PROVE  \A n \in wf.nodes : n.secrets \cup n.leaks = {}
<1> DEFINE critical == {f \in SecurityRules(wf) : f.severity = "CRITICAL"}
           secrets == [n \in wf.nodes |-> n.secrets]
           leaks == [n \in wf.nodes |-> n.leaks \ n.secrets]
<1>1. critical = {}
  <2>1. critical \in SUBSET SecurityRules(wf) /\ IsFiniteSet(SecurityRules(wf))
    BY SecurityRulesWellFormed DEF WellFormed
  <2>2. Cardinality(critical) = 0
    BY DEF CriticalCount
  <2> HIDE DEF critical
  <2>3. IsFiniteSet(critical)
    BY <2>1, FS_Subset
  <2> QED
    BY <2>2, <2>3, FS_EmptySet
<1>2. KeyRule(wf, "WG-SEC-001", secrets) \cup KeyRule(wf, "WG-SEC-002", leaks) \subseteq SecurityRules(wf)
  BY DEF SecurityRules
<1>3. \A n \in wf.nodes : secrets[n] = n.secrets /\ leaks[n] = n.leaks \ n.secrets
  OBVIOUS
<1> HIDE DEF secrets, leaks
<1>4. \A n \in wf.nodes : secrets[n] = {} /\ leaks[n] = {}
  BY <1>1, <1>2, KeyRuleFinds
<1> QED
  BY <1>3, <1>4
-----------------------------------------------------------------------------
(***************************************************************************)
(* Fuzz campaigns.                                                          *)
(***************************************************************************)

AllIds == UNION {NodeIds(wf) : wf \in Workflow}

\* What a case comes to: the verdict is that of the first of its runs that told anything, and
\* only an injected failure can be passed over in silence.
CaseResult ==
    {x \in [case : SUBSET AllIds, verdict : Verdicts, lost : BOOLEAN, heard : Verdicts] :
        /\ x.heard = x.verdict
        /\ IsFiniteSet(x.case)
        /\ x.verdict = "SILENT_SUCCESS" => x.case # {}}

\* A case (generator.py) fails some nodes of the workflow.
LEMMA CasesAreOfNodes ==
    ASSUME NEW wf \in Workflow, NEW case \in GeneratedCases(wf) \cup AiCases(wf)
    PROVE  case \in SUBSET AllIds /\ IsFiniteSet(case)
<1>1. Injectable(wf) \subseteq AllIds /\ NodeIds(wf) \subseteq AllIds
  <2>1. NodeIds(wf) \subseteq AllIds
    BY DEF AllIds
  <2>2. Dependent(wf) \in SUBSET wf.nodes
    BY NodesAreFinite
  <2>3. Injectable(wf) \subseteq NodeIds(wf)
    BY <2>2 DEF Injectable, NodeIds
  <2> QED
    BY <2>1, <2>3
<1>2. case = {} \/ (\E a, b \in AllIds : case = {a, b})
  <2>1. CASE case \in GeneratedCases(wf)
    BY <1>1, <2>1 DEF GeneratedCases
  <2>2. CASE case \in AiCases(wf)
    BY <1>1, <2>2 DEF AiCases
  <2> QED
    BY <2>1, <2>2
<1>3. CASE case = {}
  BY <1>3, FS_EmptySet
<1>4. CASE \E a, b \in AllIds : case = {a, b}
  <2>1. PICK a \in AllIds, b \in AllIds : case = {a, b}
    BY <1>4
  <2>2. case = {a} \cup {b} /\ IsFiniteSet({a}) /\ IsFiniteSet({b})
    BY <2>1, FS_Singleton
  <2> QED
    BY <2>1, <2>2, FS_Union
<1> QED
  BY <1>2, <1>3, <1>4

\* Running a case (engine.py 127-154), once or twice, has such a result.
LEMMA CaseResultsAreResults ==
    ASSUME NEW case \in SUBSET AllIds, IsFiniteSet(case)
    PROVE  CaseResults(case) \subseteq CaseResult
<1>1. ASSUME NEW run \in Simulations(case)
      PROVE  /\ run.verdict \in Verdicts /\ run.lost \in BOOLEAN
             /\ run.verdict = "SILENT_SUCCESS" => case # {}
  <2>1. \/ \E v \in Verdicts : /\ run = [verdict |-> v, lost |-> FALSE]
                               /\ v = "SILENT_SUCCESS" => case # {}
        \/ run = [verdict |-> "UNHANDLED_CRASH", lost |-> TRUE]
    BY DEF Simulations
  <2>2. CASE run = [verdict |-> "UNHANDLED_CRASH", lost |-> TRUE]
    BY <2>2 DEF Verdicts
  <2>3. ASSUME NEW v \in Verdicts, run = [verdict |-> v, lost |-> FALSE], v = "SILENT_SUCCESS" => case # {}
        PROVE  /\ run.verdict \in Verdicts /\ run.lost \in BOOLEAN
               /\ run.verdict = "SILENT_SUCCESS" => case # {}
    BY <2>3
  <2> QED
    BY <2>1, <2>2, <2>3
<1>2. ASSUME NEW run \in Simulations(case), NEW heard, heard = run.verdict
      PROVE  Result(case, run, heard) \in CaseResult
  BY <1>1, <1>2 DEF Result, CaseResult
<1>3. ASSUME NEW first \in Simulations(case), WorthRetrying(case, first)
      PROVE  Rerun(case, first) \subseteq CaseResult
  <2>1. SUFFICES ASSUME NEW second \in Simulations(case)
                 PROVE  Result(case, IF second.verdict = "NOT_TRIGGERED" THEN first ELSE second,
                               IF first.verdict = "NOT_TRIGGERED" THEN second.verdict ELSE first.verdict)
                            \in CaseResult
    BY DEF Rerun
  <2>2. first.verdict = "NOT_TRIGGERED"
    BY <1>3 DEF WorthRetrying
  <2>3. CASE second.verdict = "NOT_TRIGGERED"
    BY <1>2, <2>2, <2>3
  <2>4. CASE second.verdict # "NOT_TRIGGERED"
    BY <1>2, <2>2, <2>4
  <2> QED
    BY <2>3, <2>4
<1>4. SUFFICES ASSUME NEW x \in CaseResults(case) PROVE x \in CaseResult
  OBVIOUS
<1>5. CASE x \in {Result(case, first, first.verdict) : first \in Simulations(case)}
  BY <1>2, <1>5
<1>6. CASE \E first \in Simulations(case) : WorthRetrying(case, first) /\ x \in Rerun(case, first)
  BY <1>3, <1>6
<1> QED
  BY <1>5, <1>6 DEF CaseResults

\* The cases of a verdict are counted by a number, and the exercised ones are the others than
\* those that did not trigger (scoring.py 120-139).
LEMMA CountsAreNumbers ==
    ASSUME NEW results \in Seq(CaseResult)
    PROVE  /\ \A S \in SUBSET DOMAIN results : IsFiniteSet(S) /\ Cardinality(S) \in Nat
           /\ \A v : Count(results, v) \in Nat
           /\ Exercised(results) \in Nat
           /\ Exercised(results) = Cardinality({i \in DOMAIN results : results[i].verdict # "NOT_TRIGGERED"})
           /\ Exercised(results) <= Len(results)
<1> DEFINE By(v) == {i \in DOMAIN results : results[i].verdict = v}
           others == {i \in DOMAIN results : results[i].verdict # "NOT_TRIGGERED"}
           missed == By("NOT_TRIGGERED")
<1>1. /\ DOMAIN results = 1 .. Len(results) /\ Len(results) \in Nat
      /\ IsFiniteSet(DOMAIN results) /\ Cardinality(DOMAIN results) = Len(results)
  <2>1. DOMAIN results = 1 .. Len(results) /\ Len(results) \in Nat
    OBVIOUS
  <2>2. IsFiniteSet(1 .. Len(results)) /\ Cardinality(1 .. Len(results)) = Len(results)
    BY <2>1, FS_Interval
  <2> QED
    BY <2>1, <2>2
<1>2. \A S \in SUBSET DOMAIN results : IsFiniteSet(S) /\ Cardinality(S) \in Nat
  BY <1>1, FS_Subset, FS_CardinalityType
<1>3. \A v : By(v) \in SUBSET DOMAIN results /\ Count(results, v) = Cardinality(By(v))
  BY DEF Count
<1>4. others \in SUBSET DOMAIN results /\ missed \in SUBSET DOMAIN results
      /\ others = (DOMAIN results) \ missed /\ (DOMAIN results) \cap missed = missed
  OBVIOUS
<1>5. Cardinality(others) = Cardinality(DOMAIN results) - Cardinality(missed)
  <2> HIDE DEF others, missed
  <2>1. IsFiniteSet(missed) /\ IsFiniteSet(DOMAIN results)
    BY <1>1, <1>2, <1>4
  <2>2. Cardinality((DOMAIN results) \ missed)
            = Cardinality(DOMAIN results) - Cardinality((DOMAIN results) \cap missed)
    BY <2>1, FS_Difference
  <2> QED
    BY <1>4, <2>2
<1>6. Exercised(results) = Cardinality(others) /\ Cardinality(missed) \in Nat /\ Cardinality(others) \in Nat
  BY <1>1, <1>2, <1>3, <1>4, <1>5 DEF Exercised
<1> HIDE DEF By, others
<1>7. Exercised(results) \in Nat /\ Exercised(results) <= Len(results)
  BY <1>1, <1>5, <1>6
<1>8. \A v : Count(results, v) \in Nat
  BY <1>2, <1>3
<1> QED
  BY <1>2, <1>6, <1>7, <1>8 DEF others
\* A finite set has subsets of every smaller size.
LEMMA SubsetOfSize ==
    ASSUME NEW S, IsFiniteSet(S), NEW n \in Nat, n <= Cardinality(S)
    PROVE  \E T \in SUBSET S : Cardinality(T) = n
<1> DEFINE Big == {T \in SUBSET S : n <= Cardinality(T)}
           Sizes == {Cardinality(T) : T \in Big}
<1>1. \A T \in SUBSET S : IsFiniteSet(T) /\ Cardinality(T) \in Nat
  BY FS_Subset, FS_CardinalityType
<1>2. Sizes \in SUBSET Nat /\ Cardinality(S) \in Sizes
  BY <1>1
<1>3. PICK k \in Sizes : \A m \in Sizes : k <= m
  <2> HIDE DEF Sizes
  <2> QED
    BY <1>2, LeastNumber
<1>4. PICK T \in SUBSET S : Cardinality(T) = k /\ n <= k
  OBVIOUS
<1>5. CASE k = n
  BY <1>4, <1>5
<1>6. CASE k # n
  <2>1. k \in Nat /\ k > n /\ k # 0
    BY <1>1, <1>4, <1>6
  <2>2. T # {}
    BY <1>4, <2>1, FS_EmptySet
  <2>3. PICK x : x \in T
    BY <2>2
  <2>4. T \ {x} \in SUBSET S /\ Cardinality(T \ {x}) = k - 1
    BY <1>1, <1>4, <2>3, FS_RemoveElement
  <2>5. Cardinality(T \ {x}) \in Sizes
    <3>1. n <= k - 1
      BY <2>1
    <3>2. T \ {x} \in Big
      BY <2>4, <3>1
    <3> QED
      BY <3>2
  <2> QED
    BY <1>3, <2>1, <2>4, <2>5
<1> QED
  BY <1>5, <1>6

\* The findings about blamed nodes (fuzzing/scoring.py 53-141) are well-formed, and there are some
\* if a node is blamed.
LEMMA PerNodeFinds ==
    ASSUME NEW rule, NEW nodes, IsFiniteSet(nodes)
    PROVE  /\ WellFormed(PerNode(rule, nodes))
           /\ PerNode(rule, nodes) = {} <=> nodes = {}
<1> DEFINE chosen == IF Cardinality(nodes) <= MAX_FINDINGS_PER_RULE THEN nodes
                     ELSE CHOOSE S \in SUBSET nodes : Cardinality(S) = MAX_FINDINGS_PER_RULE
           id == [n \in chosen |-> n]
<1>1. chosen \in SUBSET nodes /\ (chosen = {} <=> nodes = {})
  <2>1. CASE Cardinality(nodes) <= MAX_FINDINGS_PER_RULE
    BY <2>1
  <2>2. CASE ~ (Cardinality(nodes) <= MAX_FINDINGS_PER_RULE)
    <3>1. Cardinality(nodes) \in Nat /\ MAX_FINDINGS_PER_RULE \in Nat /\ MAX_FINDINGS_PER_RULE # 0
      BY FS_CardinalityType DEF MAX_FINDINGS_PER_RULE
    <3>2. \E S \in SUBSET nodes : Cardinality(S) = MAX_FINDINGS_PER_RULE
      BY <2>2, <3>1, SubsetOfSize
    <3>3. chosen \in SUBSET nodes /\ Cardinality(chosen) = MAX_FINDINGS_PER_RULE
      BY <2>2, <3>2
    <3> HIDE DEF chosen
    <3> QED
      BY <3>1, <3>3, FS_EmptySet
  <2> QED
    BY <2>1, <2>2
<1>2. PerNode(rule, nodes) = {Found(rule, "ERROR", id[n], 0) : n \in chosen}
  <2>1. PerNode(rule, nodes) = {Found(rule, "ERROR", n, 0) : n \in chosen}
    BY DEF PerNode
  <2> HIDE DEF chosen
  <2> QED
    BY <2>1
<1>3. IsFiniteSet(chosen) /\ "ERROR" \in Severities /\ 0 \in Nat
  <2> HIDE DEF chosen
  <2> QED
    BY <1>1, FS_Subset DEF Severities
<1> HIDE DEF chosen, id
<1>4. WellFormed({Found(rule, "ERROR", id[n], 0) : n \in chosen})
  <2> DEFINE severity == "ERROR"
             population == 0
  <2>1. severity \in Severities /\ population \in Nat
    BY <1>3
  <2> HIDE DEF severity, population
  <2>2. WellFormed({Found(rule, severity, id[n], population) : n \in chosen})
    BY <1>3, <2>1, WellFormedPerNode
  <2> QED
    BY <2>2 DEF severity, population
<1> QED
  BY <1>1, <1>2, <1>4

\* What is said once (fuzzing/scoring.py 53-108, 144-165) is well-formed.
LEMMA OnceFinds ==
    ASSUME NEW rule, NEW reasons
    PROVE  /\ WellFormed(Once(rule, reasons))
           /\ Once(rule, reasons) = {} <=> reasons = {}
<1>1. WellFormed({Found(rule, "WARNING", "workflow", 0)})
  BY WellFormedOne DEF Severities
<1> QED
  BY <1>1, WellFormedNone DEF Once

\* The findings of a campaign (fuzzing/scoring.py 44-50) are well-formed, and there are none
\* exactly if every case was handled or did not trigger.
LEMMA CampaignFinds ==
    ASSUME NEW results \in Seq(CaseResult)
    PROVE  /\ WellFormed(fuzz_findings(results))
           /\ fuzz_findings(results) = {} <=>
                  \A i \in DOMAIN results : results[i].verdict \in {"HANDLED", "NOT_TRIGGERED"}
<1> DEFINE crashed == BlamedFor(results, "UNHANDLED_CRASH")
           silent == BlamedFor(results, "SILENT_SUCCESS")
           bare == {x \in Range(results) : x.verdict = "UNHANDLED_CRASH" /\ x.case = {}}
           hung == {x \in Range(results) : x.verdict = "HUNG"}
           A == PerNode("WG-FUZZ-001", crashed)
           B == Once("WG-FUZZ-004", bare)
           C == PerNode("WG-FUZZ-002", silent)
           D == Once("WG-FUZZ-003", hung)
<1>1. \A i \in DOMAIN results : results[i] \in CaseResult
  OBVIOUS
<1>2. ASSUME NEW v
      PROVE  /\ IsFiniteSet(BlamedFor(results, v))
             /\ BlamedFor(results, v) = {} <=>
                    \A i \in DOMAIN results : results[i].verdict = v => results[i].case = {}
  <2> DEFINE I == {i \in DOMAIN results : results[i].verdict = v}
             case == [i \in I |-> results[i].case]
  <2>1. BlamedFor(results, v) = UNION {case[i] : i \in I}
    <3>1. \A i \in I : case[i] = results[i].case
      OBVIOUS
    <3> HIDE DEF case
    <3> QED
      BY <3>1 DEF BlamedFor
  <2>2. \A i \in I : IsFiniteSet(case[i])
    BY <1>1 DEF CaseResult
  <2>3. IsFiniteSet(I)
    <3>1. I \in SUBSET DOMAIN results
      OBVIOUS
    <3> HIDE DEF I
    <3> QED
      BY <3>1, CountsAreNumbers
  <2>4. UNION {case[i] : i \in I} = {} <=>
            \A i \in DOMAIN results : results[i].verdict = v => results[i].case = {}
    OBVIOUS
  <2> HIDE DEF I, case
  <2>5. IsFiniteSet({case[i] : i \in I}) /\ \A T \in {case[i] : i \in I} : IsFiniteSet(T)
    BY <2>2, <2>3, FiniteImage
  <2>6. IsFiniteSet(UNION {case[i] : i \in I})
    BY <2>5, FS_UNION
  <2> QED
    BY <2>1, <2>4, <2>6
<1>3. fuzz_findings(results) = ((A \cup B) \cup C) \cup D
  BY DEF fuzz_findings
<1>4. /\ bare = {} <=> \A i \in DOMAIN results :
                           ~ (results[i].verdict = "UNHANDLED_CRASH" /\ results[i].case = {})
      /\ hung = {} <=> \A i \in DOMAIN results : results[i].verdict # "HUNG"
  BY DEF Range
<1>5. /\ WellFormed(A) /\ WellFormed(C)
      /\ A = {} <=> crashed = {}
      /\ C = {} <=> silent = {}
  <2> HIDE DEF crashed, silent
  <2>1. IsFiniteSet(crashed) /\ IsFiniteSet(silent)
    BY <1>2 DEF crashed, silent
  <2> QED
    BY <2>1, PerNodeFinds
<1>6. /\ WellFormed(B) /\ WellFormed(D)
      /\ B = {} <=> bare = {}
      /\ D = {} <=> hung = {}
  <2> HIDE DEF bare, hung
  <2> QED
    BY OnceFinds
<1>7. \A i \in DOMAIN results : /\ results[i].verdict \in Verdicts
                                /\ results[i].verdict = "SILENT_SUCCESS" => results[i].case # {}
  BY <1>1 DEF CaseResult
<1>8. /\ crashed = {} <=> \A i \in DOMAIN results :
                              results[i].verdict = "UNHANDLED_CRASH" => results[i].case = {}
      /\ silent = {} <=> \A i \in DOMAIN results :
                              results[i].verdict = "SILENT_SUCCESS" => results[i].case = {}
  BY <1>2
<1> HIDE DEF A, B, C, D, crashed, silent, bare, hung
<1>9. (crashed = {} /\ bare = {} /\ silent = {} /\ hung = {}) <=>
          \A i \in DOMAIN results : results[i].verdict \in {"HANDLED", "NOT_TRIGGERED"}
  BY <1>4, <1>7, <1>8 DEF Verdicts
<1>10. WellFormed(A \cup B)
  BY <1>5, <1>6, WellFormedUnion
<1>11. WellFormed((A \cup B) \cup C)
  BY <1>5, <1>10, WellFormedUnion
<1>12. WellFormed(((A \cup B) \cup C) \cup D)
  BY <1>6, <1>11, WellFormedUnion
<1> QED
  BY <1>3, <1>5, <1>6, <1>9, <1>12
\* Division as the rounding (fuzzing/scoring.py 41) uses it.
LEMMA Division ==
    ASSUME NEW n \in Nat, NEW d \in Nat \ {0}
    PROVE  /\ n \div d \in Nat /\ n % d \in 0 .. (d - 1)
           /\ n = d * (n \div d) + (n % d)
OBVIOUS

\* Of fewer than 200 cases, 100 per cent are handled only if all are.
LEMMA WholeShare ==
    ASSUME NEW h \in Nat, NEW e \in Nat \ {0}, h <= e, e < 200
    PROVE  Round(100 * h, e) = 100 <=> h = e
<1> DEFINE floor == (100 * h) \div e
           rest == (100 * h) % e
<1>1. floor \in Nat /\ rest \in Nat /\ rest < e /\ 100 * h = e * floor + rest
  <2>1. 100 * h \in Nat
    OBVIOUS
  <2> QED
    BY <2>1, Division
<1>2. Round(100 * h, e) = IF 2 * rest > e \/ (2 * rest = e /\ floor % 2 = 1) THEN floor + 1 ELSE floor
  BY DEF Round
<1> HIDE DEF floor, rest
<1>3. CASE h = e
  <2>1. floor <= 100
    <3>1. SUFFICES ASSUME floor >= 101 PROVE FALSE
      BY <1>1
    <3>2. e * floor >= e * 101
      BY <1>1, <3>1
    <3> QED
      BY <1>1, <1>3, <3>2
  <2>2. floor >= 100
    <3>1. SUFFICES ASSUME floor <= 99 PROVE FALSE
      BY <1>1
    <3>2. e * floor <= e * 99
      BY <1>1, <3>1
    <3> QED
      BY <1>1, <1>3, <3>2
  <2>3. floor = 100
    BY <1>1, <2>1, <2>2
  <2>4. rest = 0
    BY <1>1, <1>3, <2>3
  <2> QED
    BY <1>2, <1>3, <2>3, <2>4
<1>4. CASE h # e
  <2>1. 100 * h <= 100 * e - 100
    BY <1>4
  <2>2. floor <= 99
    <3>1. SUFFICES ASSUME floor >= 100 PROVE FALSE
      BY <1>1
    <3>2. e * floor >= e * 100
      BY <1>1, <3>1
    <3> QED
      BY <1>1, <2>1, <3>2
  <2>3. CASE floor = 99
    <3>1. rest <= e - 100
      BY <1>1, <2>1, <2>3
    <3>2. 2 * rest < e
      BY <1>1, <3>1
    <3>3. Round(100 * h, e) = floor
      BY <1>1, <1>2, <3>2
    <3> QED
      BY <1>4, <2>3, <3>3
  <2>4. CASE floor # 99
    BY <1>1, <1>2, <1>4, <2>2, <2>4
  <2> QED
    BY <2>3, <2>4
<1> QED
  BY <1>3, <1>4

\* A share of nothing is nothing.
LEMMA NoShare ==
    ASSUME NEW e \in Nat \ {0}
    PROVE  Round(100 * 0, e) = 0
<1>1. 0 \div e \in Nat /\ 0 % e \in Nat /\ 0 = e * (0 \div e) + (0 % e)
  BY Division
<1>2. e * (0 \div e) \in Nat
  BY <1>1
<1>3. 0 % e = 0
  BY <1>1, <1>2
<1>4. 0 \div e = 0
  <2>1. SUFFICES ASSUME 0 \div e >= 1 PROVE FALSE
    BY <1>1
  <2>2. e * (0 \div e) >= e * 1
    BY <1>1, <2>1
  <2> QED
    BY <1>1, <1>3, <2>2
<1>5. 100 * 0 = 0
  OBVIOUS
<1>6. Round(0, e) = 0
  BY <1>3, <1>4 DEF Round
<1> QED
  BY <1>5, <1>6

\* What the score of a campaign (fuzzing/scoring.py 28-41) and its findings say of each other.
LEMMA CampaignScores ==
    ASSUME NEW results \in Seq(CaseResult)
    PROVE  /\ robustness_score(results) \in Nat
           /\ Exercised(results) = 0 => fuzz_findings(results) = {}
           /\ (Exercised(results) # 0 /\ Count(results, "HANDLED") = 0) => robustness_score(results) = 0
           /\ Len(results) < 200 => (robustness_score(results) = 100 <=> fuzz_findings(results) = {})
<1> DEFINE others == {i \in DOMAIN results : results[i].verdict # "NOT_TRIGGERED"}
           handled == {i \in DOMAIN results : results[i].verdict = "HANDLED"}
           e == Exercised(results)
           h == Count(results, "HANDLED")
<1>1. /\ others \in SUBSET DOMAIN results /\ handled \in SUBSET others
      /\ e = Cardinality(others) /\ h = Cardinality(handled)
      /\ e \in Nat /\ h \in Nat /\ e <= Len(results)
  BY CountsAreNumbers DEF Count
<1>2. IsFiniteSet(others)
  <2> HIDE DEF others
  <2> QED
    BY <1>1, CountsAreNumbers
<1>3. h <= e /\ (h = e <=> others = handled) /\ (e = 0 <=> others = {})
  <2> HIDE DEF others, handled, e, h
  <2> QED
    BY <1>1, <1>2, FS_Subset, FS_EmptySet
<1>4. others = handled <=> \A i \in DOMAIN results : results[i].verdict \in {"HANDLED", "NOT_TRIGGERED"}
  OBVIOUS
<1>5. h = e <=> fuzz_findings(results) = {}
  <2> HIDE DEF others, handled, e, h
  <2> QED
    BY <1>3, <1>4, CampaignFinds
<1>6. e = 0 => h = e
  <2> HIDE DEF others, handled, e, h
  <2> QED
    BY <1>1, <1>3
<1>7. robustness_score(results) = IF e = 0 THEN 100 ELSE Round(100 * h, e)
  BY DEF robustness_score
<1> HIDE DEF others, handled, e, h
<1>8. robustness_score(results) \in Nat
  <2>1. 100 * h \in Nat
    BY <1>1
  <2>2. CASE e = 0
    BY <1>7, <2>2
  <2>3. CASE e # 0
    <3>1. Round(100 * h, e) \in Nat
      BY <1>1, <2>1, <2>3, RoundIsNatural
    <3> QED
      BY <1>7, <2>3, <3>1
  <2> QED
    BY <2>2, <2>3
<1>9. e # 0 /\ h = 0 => robustness_score(results) = 0
  BY <1>1, <1>7, NoShare
<1>10. Len(results) < 200 => (robustness_score(results) = 100 <=> h = e)
  <2>1. CASE e = 0
    BY <1>6, <1>7, <2>1
  <2>2. CASE e # 0
    <3>1. SUFFICES ASSUME Len(results) < 200 PROVE Round(100 * h, e) = 100 <=> h = e
      BY <1>7, <2>2
    <3>2. Len(results) \in Nat
      OBVIOUS
    <3>3. e < 200 /\ e \in Nat \ {0}
      BY <1>1, <2>2, <3>1, <3>2
    <3> QED
      BY <1>1, <1>3, <3>3, WholeShare
  <2> QED
    BY <2>1, <2>2
<1> QED
  BY <1>5, <1>6, <1>8, <1>9, <1>10 DEF e, h
-----------------------------------------------------------------------------
(***************************************************************************)
(* The overall score.                                                       *)
(***************************************************************************)

\* Products keep an order.
LEMMA TimesKeepsOrder ==
    ASSUME NEW a \in Nat, NEW b \in Nat, NEW w \in Nat, a <= b
    PROVE  a * w <= b * w /\ a * w \in Nat
<1>1. PICK c \in Nat : b = a + c
  <2>1. b - a \in Nat /\ b = a + (b - a)
    OBVIOUS
  <2> QED
    BY <2>1
<1>2. b * w = a * w + c * w /\ c * w \in Nat /\ a * w \in Nat /\ b * w \in Nat
  BY <1>1
<1> QED
  BY <1>2

\* A sum of numbers each of which is between lo and hi times a weight is between lo and hi times
\* the sum of the weights.
LEMMA SumsInProportion ==
    ASSUME NEW S, IsFiniteSet(S), S # {}, NEW V \in [S -> Nat], NEW W \in [S -> Nat \ {0}],
           NEW lo \in Nat, NEW hi \in Nat, \A d \in S : lo * W[d] <= V[d] /\ V[d] <= hi * W[d],
           NEW Pick \in Picks(S), NEW total, AddsUp(total, S, V, Pick),
           NEW weight, AddsUp(weight, S, W, Pick)
    PROVE  /\ total[S] \in Nat /\ weight[S] \in Nat \ {0}
           /\ lo * weight[S] <= total[S] /\ total[S] <= hi * weight[S]
<1> DEFINE T == {p \in Nat \X Nat : lo * p[2] <= p[1] /\ p[1] <= hi * p[2]}
           both == [s \in SUBSET S |-> << total[s], weight[s] >>]
<1>1. both[{}] \in T
  <2>1. both[{}] = << 0, 0 >>
    BY DEF AddsUp
  <2> QED
    BY <2>1
<1>2. ASSUME NEW s \in SUBSET S, s # {}
      PROVE  /\ Pick[s] \in S /\ s \ {Pick[s]} \in SUBSET S
             /\ total[s] = V[Pick[s]] + total[s \ {Pick[s]}]
             /\ weight[s] = W[Pick[s]] + weight[s \ {Pick[s]}]
  <2>1. Pick[s] \in S /\ s \ {Pick[s]} \in SUBSET S
    BY <1>2, Smaller
  <2> QED
    BY <1>2, <2>1 DEF AddsUp
<1>3. ASSUME NEW s \in SUBSET S, s # {}, both[s \ {Pick[s]}] \in T
      PROVE  both[s] \in T
  <2> DEFINE d == Pick[s]
             t == total[s \ {d}]
             w == weight[s \ {d}]
  <2>1. /\ d \in S /\ total[s] = V[d] + t /\ weight[s] = W[d] + w
        /\ both[s \ {d}] = << t, w >>
    BY <1>2, <1>3
  <2>2. t \in Nat /\ w \in Nat /\ lo * w <= t /\ t <= hi * w
    BY <1>3, <2>1
  <2>3. V[d] \in Nat /\ W[d] \in Nat /\ lo * W[d] <= V[d] /\ V[d] <= hi * W[d]
    BY <2>1
  <2> HIDE DEF d, t, w
  <2>4. lo * (W[d] + w) = lo * W[d] + lo * w /\ hi * (W[d] + w) = hi * W[d] + hi * w
    BY <2>2, <2>3
  <2>5. /\ lo * W[d] \in Nat /\ lo * w \in Nat /\ hi * W[d] \in Nat /\ hi * w \in Nat
        /\ V[d] + t \in Nat /\ W[d] + w \in Nat
    BY <2>2, <2>3
  <2>6. lo * (W[d] + w) <= V[d] + t /\ V[d] + t <= hi * (W[d] + w)
    BY <2>2, <2>3, <2>4, <2>5
  <2>7. both[s] = << V[d] + t, W[d] + w >>
    BY <2>1
  <2> QED
    BY <2>5, <2>6, <2>7
<1>4. \A s \in SUBSET S : both[s] \in T
  <2> HIDE DEF both, T
  <2> QED
    BY <1>1, <1>3, TableStays
<1>5. \A s \in SUBSET S : /\ total[s] \in Nat /\ weight[s] \in Nat
                          /\ lo * weight[s] <= total[s] /\ total[s] <= hi * weight[s]
  BY <1>4
<1>6. weight[S] # 0
  <2>1. Pick[S] \in S /\ S \ {Pick[S]} \in SUBSET S /\ weight[S] = W[Pick[S]] + weight[S \ {Pick[S]}]
    BY <1>2
  <2> QED
    BY <1>5, <2>1
<1> QED
  BY <1>5, <1>6

\* A quotient that lies between two numbers is rounded to one that does.
LEMMA RoundedBetween ==
    ASSUME NEW total \in Nat, NEW weight \in Nat \ {0}, NEW lo \in Nat, NEW hi \in Nat,
           lo * weight <= total, total <= hi * weight
    PROVE  lo <= Round(total, weight) /\ Round(total, weight) <= hi /\ Round(total, weight) \in Nat
<1> DEFINE floor == total \div weight
           rest == total % weight
<1>1. floor \in Nat /\ rest \in Nat /\ rest < weight /\ total = floor * weight + rest
  BY Division
<1>2. Round(total, weight) =
          IF 2 * rest > weight \/ (2 * rest = weight /\ floor % 2 = 1) THEN floor + 1 ELSE floor
  BY DEF Round
<1> HIDE DEF floor, rest
<1>3. lo <= floor
  <2>1. SUFFICES ASSUME floor + 1 <= lo PROVE FALSE
    BY <1>1
  <2>2. (floor + 1) * weight <= lo * weight /\ (floor + 1) * weight \in Nat
    BY <1>1, <2>1, TimesKeepsOrder
  <2>3. (floor + 1) * weight = floor * weight + weight /\ floor * weight \in Nat /\ lo * weight \in Nat
    BY <1>1
  <2> QED
    BY <1>1, <2>2, <2>3
<1>4. floor <= hi
  <2>1. SUFFICES ASSUME hi + 1 <= floor PROVE FALSE
    BY <1>1
  <2>2. (hi + 1) * weight <= floor * weight /\ (hi + 1) * weight \in Nat
    BY <1>1, <2>1, TimesKeepsOrder
  <2>3. (hi + 1) * weight = hi * weight + weight /\ hi * weight \in Nat /\ floor * weight \in Nat
    BY <1>1
  <2> QED
    BY <1>1, <2>2, <2>3
<1>5. rest # 0 => floor # hi
  <2>1. floor = hi => total = hi * weight + rest /\ hi * weight \in Nat
    BY <1>1
  <2> QED
    BY <1>1, <2>1
<1> QED
  BY <1>1, <1>2, <1>3, <1>4, <1>5

\* The overall score (scoring.py 219-231) is between the least score and the greatest.
LEMMA OverallBetween ==
    ASSUME NEW scores, DOMAIN scores # {}, DOMAIN scores \in SUBSET DOMAIN DIMENSION_WEIGHTS,
           \A d \in DOMAIN scores : scores[d] \in Nat
    PROVE  /\ \E d \in DOMAIN scores : scores[d] <= overall_score(scores)
           /\ \E d \in DOMAIN scores : overall_score(scores) <= scores[d]
<1> DEFINE S == DOMAIN scores
           Of(d) == scores[d] * DIMENSION_WEIGHTS[d]
           V == [d \in S |-> Of(d)]
           W == [d \in S |-> DIMENSION_WEIGHTS[d]]
           X == [d \in S |-> scores[d]]
           Pick == [s \in (SUBSET S) \ {{}} |-> CHOOSE x \in s : TRUE]
           Total(sum) == sum = [s \in SUBSET S |->
               IF s = {} THEN 0
               ELSE scores[CHOOSE x \in s : TRUE] * DIMENSION_WEIGHTS[CHOOSE x \in s : TRUE]
                        + sum[s \ {CHOOSE x \in s : TRUE}]]
           Weight(sum) == sum = [s \in SUBSET S |->
               IF s = {} THEN 0
               ELSE DIMENSION_WEIGHTS[CHOOSE x \in s : TRUE] + sum[s \ {CHOOSE x \in s : TRUE}]]
           total == CHOOSE sum0 : Total(sum0)
           weight == CHOOSE sum0 : Weight(sum0)
<1>1. IsFiniteSet(S) /\ S # {}
  <2> DEFINE names == << "structural", "prompt_alignment", "reliability", "security",
                         "maintainability", "test_coverage" >>
  <2>1. DOMAIN DIMENSION_WEIGHTS = {names[i] : i \in 1 .. 6}
    BY DEF DIMENSION_WEIGHTS
  <2>2. IsFiniteSet(DOMAIN DIMENSION_WEIGHTS)
    <3>1. \A n \in Nat : IsFiniteSet(1 .. n)
      BY FS_Interval
    <3>2. IsFiniteSet(1 .. 6)
      BY <3>1
    <3> HIDE DEF names
    <3> QED
      BY <2>1, <3>2, FiniteImage
  <2> HIDE DEF S
  <2> QED
    BY <2>2, FS_Subset DEF S
<1>2. \A d \in S : DIMENSION_WEIGHTS[d] \in Nat \ {0}
  BY DEF DIMENSION_WEIGHTS
<1>3. /\ V \in [S -> Nat] /\ W \in [S -> Nat \ {0}] /\ X \in [S -> Nat] /\ Pick \in Picks(S)
      /\ \A d \in S : V[d] = X[d] * W[d]
  <2>1. \A d \in S : scores[d] \in Nat
    OBVIOUS
  <2>2. \A d \in S : scores[d] * DIMENSION_WEIGHTS[d] \in Nat
    BY <1>2, <2>1
  <2>3. Pick \in Picks(S)
    BY DEF Picks
  <2> HIDE DEF S
  <2> QED
    BY <1>2, <2>1, <2>2, <2>3
<1>4. /\ \A sum : Total(sum) <=> AddsUp(sum, S, V, Pick)
      /\ \A sum : Weight(sum) <=> AddsUp(sum, S, W, Pick)
  <2> HIDE DEF S
  <2> QED
    BY DEF AddsUp
<1>5. AddsUp(total, S, V, Pick)
  <2>1. PICK sum : AddsUp(sum, S, V, Pick)
    <3> HIDE DEF V, Pick, S
    <3> QED
      BY <1>1, <1>3, SumExists
  <2>2. Total(total)
    <3>1. \E sum0 : Total(sum0)
      <4> HIDE DEF Total, V, Pick, S
      <4> QED
        BY <1>4, <2>1
    <3> HIDE DEF Total
    <3> QED
      BY <3>1
  <2> HIDE DEF Total, V, Pick, S, total
  <2> QED
    BY <1>4, <2>2
<1>6. AddsUp(weight, S, W, Pick)
  <2>1. PICK sum : AddsUp(sum, S, W, Pick)
    <3> HIDE DEF W, Pick, S
    <3>1. W \in [S -> Nat]
      BY <1>3
    <3> QED
      BY <1>1, <1>3, <3>1, SumExists
  <2>2. Weight(weight)
    <3>1. \E sum0 : Weight(sum0)
      <4> HIDE DEF Weight, W, Pick, S
      <4> QED
        BY <1>4, <2>1
    <3> HIDE DEF Weight
    <3> QED
      BY <3>1
  <2> HIDE DEF Weight, W, Pick, S, weight
  <2> QED
    BY <1>4, <2>2
<1>7. overall_score(scores) = Round(total[S], weight[S])
  BY DEF overall_score, MapThenSumSet, MapThenFoldSet
<1> HIDE DEF total, weight, S, V, W, Pick, Total, Weight
<1>8. PICK least \in S : \A d \in S : X[least] <= X[d]
  <2> DEFINE all == {X[d] : d \in S}
  <2>1. all \in SUBSET Nat /\ all # {}
    BY <1>1, <1>3
  <2>2. PICK n \in all : \A m \in all : n <= m
    <3> HIDE DEF all
    <3> QED
      BY <2>1, LeastNumber
  <2> QED
    BY <2>2
<1>9. PICK most \in S : \A d \in S : X[d] <= X[most]
  <2> DEFINE all == {X[d] : d \in S}
  <2>1. all \in SUBSET Nat /\ all # {}
    BY <1>1, <1>3
  <2>2. IsFiniteSet(all)
    <3> HIDE DEF X
    <3> QED
      BY <1>1, FiniteImage
  <2>3. PICK n \in all : \A m \in all : m <= n
    <3> HIDE DEF all
    <3> QED
      BY <2>1, <2>2, GreatestNumber
  <2> QED
    BY <2>3
<1>10. X[least] = scores[least] /\ X[most] = scores[most]
  OBVIOUS
<1> HIDE DEF X
<1>11. \A d \in S : X[least] * W[d] <= V[d] /\ V[d] <= X[most] * W[d]
  <2>1. SUFFICES ASSUME NEW d \in S PROVE X[least] * W[d] <= V[d] /\ V[d] <= X[most] * W[d]
    OBVIOUS
  <2>2. /\ X[least] \in Nat /\ X[d] \in Nat /\ X[most] \in Nat /\ W[d] \in Nat
        /\ X[least] <= X[d] /\ X[d] <= X[most] /\ V[d] = X[d] * W[d]
    BY <1>3, <1>8, <1>9
  <2> QED
    BY <2>2, TimesKeepsOrder
<1>12. /\ total[S] \in Nat /\ weight[S] \in Nat \ {0}
       /\ X[least] * weight[S] <= total[S] /\ total[S] <= X[most] * weight[S]
  <2>1. X[least] \in Nat /\ X[most] \in Nat
    BY <1>3
  <2> QED
    BY <1>1, <1>3, <1>5, <1>6, <1>11, <2>1, SumsInProportion
<1>13. X[least] <= Round(total[S], weight[S]) /\ Round(total[S], weight[S]) <= X[most]
  <2>1. X[least] \in Nat /\ X[most] \in Nat
    BY <1>3
  <2> QED
    BY <1>12, <2>1, RoundedBetween
<1> QED
  BY <1>7, <1>10, <1>13 DEF S
-----------------------------------------------------------------------------
(***************************************************************************)
(* Requirements and how they are met.                                       *)
(***************************************************************************)

\* The highest of some indices is one of them.
LEMMA HighestIsOne ==
    ASSUME NEW n \in Nat
    PROVE  [s \in (SUBSET (1 .. n)) \ {{}} |-> Max(s)] \in Picks(1 .. n)
<1>1. ASSUME NEW s \in SUBSET (1 .. n), s # {} PROVE Max(s) \in s
  <2>1. IsFiniteSet(1 .. n)
    BY FS_Interval
  <2>2. IsFiniteSet(s) /\ s \in SUBSET Nat
    <3>1. IsFiniteSet(s)
      BY <2>1, FS_Subset
    <3>2. s \in SUBSET Nat
      OBVIOUS
    <3> QED
      BY <3>1, <3>2
  <2>3. PICK x \in s : \A y \in s : y <= x
    BY <1>1, <2>2, GreatestNumber
  <2>4. \A y \in s : x >= y
    BY <2>2, <2>3
  <2> QED
    BY <2>4 DEF Max
<1> QED
  BY <1>1 DEF Picks

\* What is kept of a list (requirements.py 63-89) is a list.
LEMMA KeptIsAList ==
    ASSUME NEW A, NEW list \in Seq(A), NEW S
    PROVE  Kept(list, S) \in Seq(A)
<1> DEFINE D == DOMAIN list
           T == Seq(A)
           Op(kept, x) == IF x \in S THEN Append(kept, x) ELSE kept
           Step == [p \in D \X T |-> Op(p[2], list[p[1]])]
           Pick == [s \in (SUBSET D) \ {{}} |-> Max(s)]
           Table(table) == table = [s \in SUBSET D |->
               IF s = {} THEN << >> ELSE Op(table[s \ {Max(s)}], list[Max(s)])]
           table == CHOOSE t : Table(t)
<1>1. D = 1 .. Len(list) /\ Len(list) \in Nat
  OBVIOUS
<1>2. IsFiniteSet(D) /\ Pick \in Picks(D)
  <2> HIDE DEF D
  <2>1. IsFiniteSet(D)
    BY <1>1, FS_Interval
  <2>2. Pick \in Picks(D)
    BY <1>1, HighestIsOne
  <2> QED
    BY <2>1, <2>2
<1>3. \A kept \in T, i \in D : Op(kept, list[i]) \in T
  OBVIOUS
<1>4. << >> \in T /\ Step \in [D \X T -> T]
  BY <1>3
<1>5. Table(table)
  <2>1. PICK known : Tabulates(known, D, T, << >>, Step, Pick)
    <3> HIDE DEF D, T, Step, Pick
    <3> QED
      BY <1>2, <1>4, FoldExists
  <2>2. ASSUME NEW s \in SUBSET D, s # {}
        PROVE  Step[<< Pick[s], known[s \ {Pick[s]}] >>] = Op(known[s \ {Max(s)}], list[Max(s)])
    <3>1. Pick[s] = Max(s)
      BY <2>2
    <3>2. Pick[s] \in D /\ s \ {Pick[s]} \in SUBSET D
      <4> HIDE DEF D, Pick
      <4> QED
        BY <1>2, <2>2, Smaller
    <3>3. known[s \ {Pick[s]}] \in T
      <4> HIDE DEF D, T, Step, Pick
      <4> QED
        BY <2>1, <3>2 DEF Tabulates
    <3> HIDE DEF Op, D, T, Pick
    <3> QED
      BY <3>1, <3>2, <3>3
  <2>3. Table(known)
    <3> HIDE DEF D, T, Step, Pick, Op
    <3> QED
      BY <2>1, <2>2 DEF Tabulates
  <2> HIDE DEF Table
  <2> QED
    BY <2>3
<1>6. table[{}] \in T
  <2> HIDE DEF table, D, Op
  <2> QED
    BY <1>4, <1>5
<1>7. ASSUME NEW s \in SUBSET D, s # {}, table[s \ {Pick[s]}] \in T PROVE table[s] \in T
  <2>1. Pick[s] = Max(s) /\ Pick[s] \in D
    <3> HIDE DEF D, T, table
    <3> QED
      BY <1>2, <1>7, Smaller
  <2> HIDE DEF table, D, Op, T, Pick
  <2>2. table[s] = Op(table[s \ {Pick[s]}], list[Pick[s]])
    BY <1>5, <1>7, <2>1
  <2> QED
    BY <1>3, <1>7, <2>1, <2>2
<1>8. table[D] \in T
  <2> HIDE DEF table, D, T, Pick
  <2> QED
    BY <1>2, <1>6, <1>7, TableStays
<1>9. Kept(list, S) = table[D]
  BY DEF Kept, FoldLeft, MapThenFoldSet
<1> QED
  BY <1>8, <1>9

\* Lists of requirements, of their ids in order, and of constraints.
SpecOf(U, I, B) == [requirements : Seq(U), required_order : Seq(I), constraints : Seq(B)]

\* A document's clauses (requirements.py 92-133) are merged into a list of requirements.
LEMMA ClausesMerge ==
    ASSUME NEW U, NEW I, NEW B, NEW spec \in SpecOf(U, I, B), NEW items \in Seq(U)
    PROVE  FoldLeft(MergeClause, spec, items) \in SpecOf(U, I, B)
<1> DEFINE D == DOMAIN items
           T == SpecOf(U, I, B)
           Step == [p \in D \X T |-> MergeClause(p[2], items[p[1]])]
           Pick == [s \in (SUBSET D) \ {{}} |-> Max(s)]
           Table(table) == table = [s \in SUBSET D |->
               IF s = {} THEN spec ELSE MergeClause(table[s \ {Max(s)}], items[Max(s)])]
           table == CHOOSE t : Table(t)
<1>1. D = 1 .. Len(items) /\ Len(items) \in Nat
  OBVIOUS
<1>2. IsFiniteSet(D) /\ Pick \in Picks(D)
  <2> HIDE DEF D
  <2>1. IsFiniteSet(D)
    BY <1>1, FS_Interval
  <2>2. Pick \in Picks(D)
    BY <1>1, HighestIsOne
  <2> QED
    BY <2>1, <2>2
<1>3. ASSUME NEW merged \in T, NEW i \in D PROVE MergeClause(merged, items[i]) \in T
  <2>1. items[i] \in U /\ merged.requirements \in Seq(U)
    BY DEF SpecOf
  <2>2. Append(merged.requirements, items[i]) \in Seq(U)
    BY <2>1
  <2>3. [merged EXCEPT !.requirements = Append(@, items[i])] \in T
    <3> HIDE DEF D
    <3> QED
      BY <2>2 DEF SpecOf
  <2> QED
    BY <2>3 DEF MergeClause
<1>4. spec \in T /\ Step \in [D \X T -> T]
  <2> HIDE DEF D, T
  <2>1. Step \in [D \X T -> T]
    BY <1>3
  <2> QED
    BY <2>1 DEF T
<1>5. Table(table)
  <2>1. PICK known : Tabulates(known, D, T, spec, Step, Pick)
    <3> HIDE DEF D, T, Step, Pick
    <3> QED
      BY <1>2, <1>4, FoldExists
  <2>2. ASSUME NEW s \in SUBSET D, s # {}
        PROVE  Step[<< Pick[s], known[s \ {Pick[s]}] >>] = MergeClause(known[s \ {Max(s)}], items[Max(s)])
    <3>1. Pick[s] = Max(s)
      BY <2>2
    <3>2. Pick[s] \in D /\ s \ {Pick[s]} \in SUBSET D
      <4> HIDE DEF D, Pick
      <4> QED
        BY <1>2, <2>2, Smaller
    <3>3. known[s \ {Pick[s]}] \in T
      <4> HIDE DEF D, T, Step, Pick
      <4> QED
        BY <2>1, <3>2 DEF Tabulates
    <3> HIDE DEF D, T, Pick
    <3> QED
      BY <3>1, <3>2, <3>3
  <2>3. Table(known)
    <3> HIDE DEF D, T, Step, Pick
    <3> QED
      BY <2>1, <2>2 DEF Tabulates
  <2> HIDE DEF Table
  <2> QED
    BY <2>3
<1>6. table[{}] \in T
  <2> HIDE DEF table, D, T
  <2> QED
    BY <1>4, <1>5
<1>7. ASSUME NEW s \in SUBSET D, s # {}, table[s \ {Pick[s]}] \in T PROVE table[s] \in T
  <2>1. Pick[s] = Max(s) /\ Pick[s] \in D
    <3> HIDE DEF D, T, table
    <3> QED
      BY <1>2, <1>7, Smaller
  <2> HIDE DEF table, D, T, Pick
  <2>2. table[s] = MergeClause(table[s \ {Pick[s]}], items[Pick[s]])
    BY <1>5, <1>7, <2>1
  <2> QED
    BY <1>3, <1>7, <2>1, <2>2
<1>8. table[D] \in T
  <2> HIDE DEF table, D, T, Pick
  <2> QED
    BY <1>2, <1>6, <1>7, TableStays
<1>9. FoldLeft(MergeClause, spec, items) = table[D]
  BY DEF FoldLeft, MapThenFoldSet
<1> QED
  BY <1>8, <1>9

\* What the documents say (requirements.py 92-133), of U and B, is merged into a specification.
LEMMA DocumentsMerge ==
    ASSUME NEW U, NEW I, NEW B, NEW spec \in SpecOf(U, I, B), NEW documents, NEW C, documents \in Seq(C),
           \A k \in DOMAIN documents :
               LET document == documents[k]
               IN  /\ [i \in DOMAIN document.clauses |->
                           DocumentItem(document.name, i, document.clauses[i])] \in Seq(U)
                   /\ document.constraints \in Seq(B)
    PROVE  merge_documents(spec, documents) \in SpecOf(U, I, B)
<1> DEFINE D == DOMAIN documents
           T == SpecOf(U, I, B)
           Step == [p \in D \X T |-> MergeDocument(p[2], documents[p[1]])]
           Pick == [s \in (SUBSET D) \ {{}} |-> Max(s)]
           Table(table) == table = [s \in SUBSET D |->
               IF s = {} THEN spec ELSE MergeDocument(table[s \ {Max(s)}], documents[Max(s)])]
           table == CHOOSE t : Table(t)
<1>1. D = 1 .. Len(documents) /\ Len(documents) \in Nat
  OBVIOUS
<1>2. IsFiniteSet(D) /\ Pick \in Picks(D)
  <2> HIDE DEF D
  <2>1. IsFiniteSet(D)
    BY <1>1, FS_Interval
  <2>2. Pick \in Picks(D)
    BY <1>1, HighestIsOne
  <2> QED
    BY <2>1, <2>2
<1>3. ASSUME NEW merged \in T, NEW k \in D PROVE MergeDocument(merged, documents[k]) \in T
  <2> DEFINE document == documents[k]
             items == [i \in DOMAIN document.clauses |->
                           DocumentItem(document.name, i, document.clauses[i])]
             more == FoldLeft(MergeClause, merged, items)
  <2>1. items \in Seq(U) /\ document.constraints \in Seq(B)
    OBVIOUS
  <2>2. MergeDocument(merged, document) = [more EXCEPT !.constraints = @ \o document.constraints]
    BY DEF MergeDocument
  <2>3. more \in T
    <3> HIDE DEF items
    <3> QED
      BY <2>1, ClausesMerge
  <2> HIDE DEF items, more
  <2>4. more.constraints \o document.constraints \in Seq(B)
    <3>1. more.constraints \in Seq(B)
      BY <2>3 DEF SpecOf
    <3> QED
      BY <2>1, <3>1
  <2>5. [more EXCEPT !.constraints = @ \o document.constraints] \in T
    <3> HIDE DEF document
    <3> QED
      BY <2>3, <2>4 DEF SpecOf
  <2> QED
    BY <2>2, <2>5
<1>4. spec \in T /\ Step \in [D \X T -> T]
  <2> HIDE DEF D, T
  <2>1. Step \in [D \X T -> T]
    BY <1>3
  <2> QED
    BY <2>1 DEF T
<1>5. Table(table)
  <2>1. PICK known : Tabulates(known, D, T, spec, Step, Pick)
    <3> HIDE DEF D, T, Step, Pick
    <3> QED
      BY <1>2, <1>4, FoldExists
  <2>2. ASSUME NEW s \in SUBSET D, s # {}
        PROVE  Step[<< Pick[s], known[s \ {Pick[s]}] >>]
                   = MergeDocument(known[s \ {Max(s)}], documents[Max(s)])
    <3>1. Pick[s] = Max(s)
      BY <2>2
    <3>2. Pick[s] \in D /\ s \ {Pick[s]} \in SUBSET D
      <4> HIDE DEF D, Pick
      <4> QED
        BY <1>2, <2>2, Smaller
    <3>3. known[s \ {Pick[s]}] \in T
      <4> HIDE DEF D, T, Step, Pick
      <4> QED
        BY <2>1, <3>2 DEF Tabulates
    <3> HIDE DEF D, T, Pick
    <3> QED
      BY <3>1, <3>2, <3>3
  <2>3. Table(known)
    <3> HIDE DEF D, T, Step, Pick
    <3> QED
      BY <2>1, <2>2 DEF Tabulates
  <2> HIDE DEF Table
  <2> QED
    BY <2>3
<1>6. table[{}] \in T
  <2> HIDE DEF table, D, T
  <2> QED
    BY <1>4, <1>5
<1>7. ASSUME NEW s \in SUBSET D, s # {}, table[s \ {Pick[s]}] \in T PROVE table[s] \in T
  <2>1. Pick[s] = Max(s) /\ Pick[s] \in D
    <3> HIDE DEF D, T, table
    <3> QED
      BY <1>2, <1>7, Smaller
  <2> HIDE DEF table, D, T, Pick
  <2>2. table[s] = MergeDocument(table[s \ {Pick[s]}], documents[Pick[s]])
    BY <1>5, <1>7, <2>1
  <2> QED
    BY <1>3, <1>7, <2>1, <2>2
<1>8. table[D] \in T
  <2> HIDE DEF table, D, T, Pick
  <2> QED
    BY <1>2, <1>6, <1>7, TableStays
<1>9. merge_documents(spec, documents) = table[D]
  BY DEF merge_documents, FoldLeft, MapThenFoldSet
<1> QED
  BY <1>8, <1>9

\* A list of known values for each place is a list.
LEMMA ListOf ==
    ASSUME NEW A, NEW C, NEW list \in Seq(C), NEW f, f \in [DOMAIN list -> A]
    PROVE  f \in Seq(A)
<1>1. DOMAIN list = 1 .. Len(list) /\ Len(list) \in Nat
  OBVIOUS
<1> QED
  BY <1>1, SeqDef

\* What a prompt requires (requirements.py 63-89) are lists.
LEMMA ExtractIsTyped ==
    ASSUME NEW C, NEW prompt \in Seq(C), NEW U, NEW B, "human_approval" \in B,
           WholePrompt(prompt) \in U,
           \A i \in DOMAIN prompt :
               Item(<< "prompt", i >>, Kind(prompt[i], i), prompt[i].words, prompt[i].systems, "prompt") \in U
    PROVE  extract(prompt) \in SpecOf(U, {item.id : item \in U}, B)
<1> DEFINE all == [i \in DOMAIN prompt |->
               Item(<< "prompt", i >>, Kind(prompt[i], i), prompt[i].words, prompt[i].systems, "prompt")]
           items == PromptItems(prompt)
           others == Kept(items, {item \in Range(items) : item.kind # "trigger"})
           steps  == Kept(items, {item \in Range(items) :
                         item.kind \in {"action", "approval", "integration", "output"}})
           guards == Kept(prompt, {clause \in Range(prompt) :
                         clause.words # {} /\ {"when", "approval"} \subseteq clause.cues})
           I == {item.id : item \in U}
           demands == [i \in DOMAIN guards |-> "human_approval"]
           required == IF others = << >> /\ prompt # << >> THEN << WholePrompt(prompt) >> ELSE others
<1>1. all \in Seq(U)
  <2>1. all \in [DOMAIN prompt -> U]
    OBVIOUS
  <2> HIDE DEF all
  <2> QED
    BY <2>1, ListOf
<1>2. items \in Seq(U)
  <2>1. items = Kept(all, {item \in Range(all) : item.words # {}})
    BY DEF PromptItems
  <2> HIDE DEF all, items
  <2> QED
    BY <1>1, <2>1, KeptIsAList
<1> HIDE DEF items
<1>3. others \in Seq(U) /\ steps \in Seq(U) /\ guards \in Seq(C)
  BY <1>2, KeptIsAList
<1>4. extract(prompt) = [requirements |-> required, required_order |-> Ids(steps), constraints |-> demands]
  BY DEF extract, items
<1> HIDE DEF others, steps, guards
<1>5. required \in Seq(U)
  <2>1. << WholePrompt(prompt) >> \in Seq(U)
    OBVIOUS
  <2> QED
    BY <1>3, <2>1
<1>6. Ids(steps) \in Seq(I)
  <2>1. Ids(steps) \in [DOMAIN steps -> I]
    BY <1>3 DEF Ids
  <2> HIDE DEF I
  <2> QED
    BY <1>3, <2>1, ListOf
<1>7. demands \in Seq(B)
  <2>1. demands \in [DOMAIN guards -> B]
    OBVIOUS
  <2> HIDE DEF demands
  <2> QED
    BY <1>3, <2>1, ListOf
<1> HIDE DEF required, demands
<1> QED
  BY <1>4, <1>5, <1>6, <1>7 DEF SpecOf

\* What a workflow is measured against (evaluations.py, _build_requirement_spec) are lists.
LEMMA RequirementsAreLists ==
    ASSUME NEW wf \in Workflow, NEW spec, RequirementSpec(wf.prompt, wf.documents) = << spec >>
    PROVE  \E U, I, B : spec \in SpecOf(U, I, B)
<1> DEFINE prompt == wf.prompt
           documents == wf.documents
           Said == {Item(<< "prompt", i >>, Kind(prompt[i], i), prompt[i].words, prompt[i].systems, "prompt") :
                        i \in DOMAIN prompt}
           Written(document) == {DocumentItem(document.name, i, document.clauses[i]) :
                                     i \in DOMAIN document.clauses}
           U == Said \cup {WholePrompt(prompt)} \cup UNION {Written(documents[k]) : k \in DOMAIN documents}
           I == {item.id : item \in U}
           B == {"human_approval"} \cup UNION {Range(documents[k].constraints) : k \in DOMAIN documents}
           base == IF prompt = << >> THEN EmptySpec ELSE extract(prompt)
<1>1. /\ prompt \in Seq(Range(prompt)) /\ documents \in Seq(Range(documents))
      /\ \A k \in DOMAIN documents : /\ documents[k].clauses \in Seq(Range(documents[k].clauses))
                                     /\ documents[k].constraints \in Seq(Range(documents[k].constraints))
  BY AssessmentAssumption DEF Range
<1>2. /\ WholePrompt(prompt) \in U /\ "human_approval" \in B
      /\ \A i \in DOMAIN prompt :
             Item(<< "prompt", i >>, Kind(prompt[i], i), prompt[i].words, prompt[i].systems, "prompt") \in U
  OBVIOUS
<1>3. base \in SpecOf(U, I, B)
  <2>1. extract(prompt) \in SpecOf(U, I, B)
    <3> HIDE DEF prompt, U, B
    <3> QED
      BY <1>1, <1>2, ExtractIsTyped
  <2>2. EmptySpec \in SpecOf(U, I, B)
    <3> HIDE DEF U, I, B
    <3> QED
      BY DEF EmptySpec, SpecOf
  <2> HIDE DEF U, I, B
  <2> QED
    BY <2>1, <2>2
<1>4. ASSUME NEW k \in DOMAIN documents
      PROVE  /\ [i \in DOMAIN documents[k].clauses |->
                     DocumentItem(documents[k].name, i, documents[k].clauses[i])] \in Seq(U)
             /\ documents[k].constraints \in Seq(B)
  <2> DEFINE items == [i \in DOMAIN documents[k].clauses |->
                           DocumentItem(documents[k].name, i, documents[k].clauses[i])]
  <2>1. items \in [DOMAIN documents[k].clauses -> U]
    <3>1. \A i \in DOMAIN documents[k].clauses :
              DocumentItem(documents[k].name, i, documents[k].clauses[i]) \in Written(documents[k])
      OBVIOUS
    <3>2. Written(documents[k]) \in SUBSET U
      <4> HIDE DEF Written, Said
      <4> QED
        OBVIOUS
    <3> HIDE DEF U, Written
    <3> QED
      BY <3>1, <3>2
  <2>2. items \in Seq(U)
    <3> HIDE DEF items, U
    <3> QED
      BY <1>1, <2>1, ListOf
  <2>3. documents[k].constraints \in Seq(B)
    <3>1. Range(documents[k].constraints) \in SUBSET B
      OBVIOUS
    <3> HIDE DEF B, documents
    <3> QED
      BY <1>1, <3>1
  <2> QED
    BY <2>2, <2>3
<1>5. merge_documents(base, documents) \in SpecOf(U, I, B)
  <2> HIDE DEF U, I, B, base, documents
  <2> QED
    BY <1>1, <1>3, <1>4, DocumentsMerge
<1>6. spec = merge_documents(base, documents)
  BY DEF RequirementSpec
<1> HIDE DEF U, I, B
<1> QED
  BY <1>5, <1>6

\* What an analyzer finds about each of some things (their places) is well-formed.
LEMMA WellFormedEach ==
    ASSUME NEW S, IsFiniteSet(S), NEW rule, NEW severity \in Severities
    PROVE  WellFormed({Found(rule, severity, i, 0) : i \in S})
<1> DEFINE found == [i \in S |-> Found(rule, severity, i, 0)]
           F == {Found(rule, severity, i, 0) : i \in S}
<1>1. F = {found[i] : i \in S}
  OBVIOUS
<1>2. IsFiniteSet(F)
  <2> HIDE DEF found
  <2> QED
    BY <1>1, FiniteImage
<1>3. \A f \in F : f.severity \in Severities /\ f.population \in Nat
  BY DEF Found
<1> QED
  BY <1>2, <1>3 DEF WellFormed

\* The places of a list are finitely many.
LEMMA PlacesAreFinite ==
    ASSUME NEW A, NEW list \in Seq(A)
    PROVE  /\ DOMAIN list = 1 .. Len(list) /\ Len(list) \in Nat
           /\ IsFiniteSet(DOMAIN list) /\ IsFiniteSet(Range(list))
<1>1. DOMAIN list = 1 .. Len(list) /\ Len(list) \in Nat
  OBVIOUS
<1>2. IsFiniteSet(DOMAIN list)
  BY <1>1, FS_Interval
<1>3. IsFiniteSet(Range(list))
  BY <1>2, FiniteImage DEF Range
<1> QED
  BY <1>1, <1>2, <1>3

\* What the alignment (alignment.py 58-216) finds is well-formed, whoever matched.
LEMMA AlignmentWellFormed ==
    ASSUME NEW wf \in Workflow, NEW U, NEW I, NEW B, NEW spec \in SpecOf(U, I, B), NEW supplied
    PROVE  WellFormed(Alignment(wf, spec, supplied))
<1> DEFINE matches == Matches(wf, spec, supplied)
<1>1. /\ spec.requirements \in Seq(U) /\ spec.required_order \in Seq(I) /\ spec.constraints \in Seq(B)
  BY DEF SpecOf
<1>2. /\ "CRITICAL" \in Severities /\ "ERROR" \in Severities
      /\ "WARNING" \in Severities /\ "INFO" \in Severities
  BY DEF Severities
<1>3. IsFiniteSet(matches)
  <2> DEFINE R == Range(spec.requirements)
             match == [item \in R |->
                 IF item.id \in DOMAIN supplied
                 THEN Match(item, supplied[item.id].status, supplied[item.id].node, "ai")
                 ELSE _deterministic_match(wf, item)]
  <2>1. matches = {match[item] : item \in R}
    BY DEF Matches
  <2>2. IsFiniteSet(R)
    BY <1>1, PlacesAreFinite
  <2> HIDE DEF R, match, matches
  <2> QED
    BY <2>1, <2>2, FiniteImage
<1> HIDE DEF matches
<1>4. WellFormed(_missing_findings(spec, matches))
  <2> DEFINE S == {m \in matches : m.status = "missing"}
             found == [m \in S |->
                 Found("WG-ALIGN-001",
                       IF m.item.source = "document" /\ m.method = "deterministic" THEN "WARNING" ELSE "ERROR",
                       m.item.id, Len(spec.requirements))]
  <2>1. _missing_findings(spec, matches) = {found[m] : m \in S}
    BY DEF _missing_findings
  <2>2. IsFiniteSet({found[m] : m \in S})
    <3>1. IsFiniteSet(S)
      BY <1>3, FS_Subset
    <3> HIDE DEF S, found
    <3> QED
      BY <3>1, FiniteImage
  <2>3. Len(spec.requirements) \in Nat
    BY <1>1
  <2>4. \A m \in S : found[m].severity \in Severities /\ found[m].population \in Nat
    BY <1>2, <2>3 DEF Found
  <2> HIDE DEF S, found
  <2> QED
    BY <2>1, <2>2, <2>4 DEF WellFormed
<1>5. WellFormed(_ordering_findings(wf, spec, matches))
  <2>1. PICK S \in SUBSET (1 .. Len(spec.required_order) - 1) :
            _ordering_findings(wf, spec, matches) = {Found("WG-ALIGN-002", "ERROR", i, 0) : i \in S}
    BY DEF _ordering_findings
  <2>2. IsFiniteSet(S)
    <3>1. Len(spec.required_order) \in Nat
      BY <1>1
    <3> DEFINE last == Len(spec.required_order) - 1
    <3>2. last \in Int /\ 1 \in Int
      BY <3>1
    <3>3. IsFiniteSet(1 .. last)
      <4> HIDE DEF last
      <4> QED
        BY <3>2, FS_Interval
    <3> QED
      BY <3>3, FS_Subset
  <2> DEFINE rule == "WG-ALIGN-002"
             severity == "ERROR"
  <2>3. WellFormed({Found(rule, severity, i, 0) : i \in S})
    <3>1. severity \in Severities
      BY <1>2
    <3> HIDE DEF rule, severity
    <3> QED
      BY <2>2, <3>1, WellFormedEach
  <2> QED
    BY <2>1, <2>3
<1>6. WellFormed(_constraint_findings(wf, spec))
  <2> DEFINE demands == {i \in DOMAIN spec.constraints : spec.constraints[i] = "human_approval"}
             Each(rule, severity) == {Found(rule, severity, i, 0) : i \in demands}
  <2>1. IsFiniteSet(demands)
    <3>1. IsFiniteSet(DOMAIN spec.constraints)
      BY <1>1, PlacesAreFinite
    <3> QED
      BY <3>1, FS_Subset
  <2>2. \/ _constraint_findings(wf, spec) = {}
        \/ _constraint_findings(wf, spec) = Each("WG-ALIGN-003", "CRITICAL")
        \/ _constraint_findings(wf, spec) = Each("WG-ALIGN-004", "ERROR")
        \/ _constraint_findings(wf, spec) = Each("WG-ALIGN-005", "ERROR")
    BY DEF _constraint_findings
  <2> HIDE DEF demands
  <2>3. /\ WellFormed(Each("WG-ALIGN-003", "CRITICAL")) /\ WellFormed(Each("WG-ALIGN-004", "ERROR"))
        /\ WellFormed(Each("WG-ALIGN-005", "ERROR"))
    BY <1>2, <2>1, WellFormedEach
  <2> HIDE DEF Each
  <2> QED
    BY <2>2, <2>3, WellFormedNone
<1>7. WellFormed(_extra_behavior_findings(wf, spec))
  <2>1. PICK S \in SUBSET wf.nodes :
            _extra_behavior_findings(wf, spec) = {Found("WG-ALIGN-006", "INFO", n.id, 0) : n \in S}
    BY DEF _extra_behavior_findings
  <2>2. IsFiniteSet(S)
    BY AssessmentAssumption, FS_Subset
  <2>3. 0 \in Nat
    OBVIOUS
  <2> QED
    BY <1>2, <2>1, <2>2, <2>3, WellFormedIds
<1> DEFINE M == _missing_findings(spec, matches)
           O == _ordering_findings(wf, spec, matches)
           C == _constraint_findings(wf, spec)
           E == _extra_behavior_findings(wf, spec)
<1>8. Alignment(wf, spec, supplied) = ((M \cup O) \cup C) \cup E
  BY DEF Alignment, matches
<1> HIDE DEF M, O, C, E
<1>9. WellFormed(M) /\ WellFormed(O) /\ WellFormed(C) /\ WellFormed(E)
  BY <1>4, <1>5, <1>6, <1>7 DEF M, O, C, E
<1>10. WellFormed(M \cup O)
  BY <1>9, WellFormedUnion
<1>11. WellFormed((M \cup O) \cup C)
  BY <1>9, <1>10, WellFormedUnion
<1> QED
  BY <1>8, <1>9, <1>11, WellFormedUnion

\* Every alignment that an evaluation may come to (evaluations.py 55-144) is well-formed.
LEMMA AlignmentsWellFormed ==
    ASSUME NEW wf \in Workflow, NEW alignment \in Alignments[wf]
    PROVE  WellFormed(alignment)
<1> DEFINE spec == RequirementSpec(wf.prompt, wf.documents)
<1>1. CASE spec = None
  BY <1>1, WellFormedNone DEF Alignments
<1>2. CASE spec # None
  <2>1. PICK supplied : alignment = Alignment(wf, spec[1], supplied)
    BY <1>2 DEF Alignments
  <2>2. spec = << spec[1] >>
    BY <1>2 DEF RequirementSpec, None
  <2>3. PICK U, I, B : spec[1] \in SpecOf(U, I, B)
    <3> DEFINE one == spec[1]
    <3>1. spec = << one >>
      BY <2>2
    <3> HIDE DEF one
    <3> QED
      BY <3>1, RequirementsAreLists DEF one
  <2> QED
    BY <2>1, <2>3, AlignmentWellFormed
<1> QED
  BY <1>1, <1>2

-----------------------------------------------------------------------------
(***************************************************************************)
(* Evaluations.                                                             *)
(***************************************************************************)

\* A campaign none of whose cases was handled pulls reliability (scoring.py 185-217) below the
\* gate's minimum.
LEMMA NoneSurvived ==
    ASSUME NEW score \in 0 .. 100, NEW campaign, campaign[1].robustness = 0
    PROVE  BlendReliability(score, campaign) \in 0 .. 74
<1>1. BlendReliability(score, campaign) = Round(3 * score, 5)
  BY DEF BlendReliability
<1>2. Round(3 * score, 5) \in 0 .. 74
  BY DEF Round
<1> QED
  BY <1>1, <1>2

\* Without a campaign reliability is what the rules make it (scoring.py 94-111).
LEMMA ScoredWithoutCampaign ==
    ASSUME NEW static, NEW alignment, NEW structural, NEW coverage,
           NEW scores, scores = dimension_scores(static, alignment, structural, << >>, coverage)
    PROVE  scores.reliability = DimensionScore(static.reliability)
<1>1. static.reliability \cup {} = static.reliability
  OBVIOUS
<1>2. ~ HasFuzzEvidence(<< >>)
  BY DEF HasFuzzEvidence
<1> QED
  BY <1>1, <1>2 DEF dimension_scores, Dimensions

\* A campaign that exercised nothing adds its findings (scoring.py 94-111).
LEMMA ScoredWithoutEvidence ==
    ASSUME NEW static, NEW alignment, NEW structural, NEW coverage, NEW campaign, campaign # << >>,
           ~ HasFuzzEvidence(campaign),
           NEW scores, scores = dimension_scores(static, alignment, structural, campaign, coverage)
    PROVE  scores.reliability = DimensionScore(static.reliability \cup campaign[1].findings)
BY DEF dimension_scores, Dimensions

\* Another is blended as well (scoring.py 94-111).
LEMMA ScoredWithEvidence ==
    ASSUME NEW static, NEW alignment, NEW structural, NEW coverage, NEW campaign, campaign # << >>,
           HasFuzzEvidence(campaign),
           NEW scores, scores = dimension_scores(static, alignment, structural, campaign, coverage)
    PROVE  scores.reliability =
               BlendReliability(DimensionScore(static.reliability \cup campaign[1].findings), campaign)
BY DEF dimension_scores, Dimensions

\* The scores of the static rules alone are in range, and security's findings are counted.
LEMMA StaticScored ==
    ASSUME NEW wf \in Workflow
    PROVE  /\ Static[wf].security = SecurityRules(wf)
           /\ Static[wf].reliability = CallRules(wf) \cup LoopRule(wf)
           /\ WellFormed(Static[wf].reliability)
           /\ StaticReliability[wf] = DimensionScore(Static[wf].reliability)
<1>1. Static[wf].security = SecurityRules(wf) /\ Static[wf].reliability = CallRules(wf) \cup LoopRule(wf)
  BY DEF Static, StaticFindings
<1>2. StaticReliability[wf] = DimensionScore(Static[wf].reliability)
  BY DEF StaticReliability
<1>3. WellFormed(CallRules(wf) \cup LoopRule(wf))
  BY CallRulesWellFormed, LoopRuleWellFormed, WellFormedUnion
<1> QED
  BY <1>1, <1>2, <1>3

\* The newest of some rows is one of them.
LEMMA NewestIsOne ==
    ASSUME NEW rows, NEW S, NEW now \in Nat,
           \A i \in S : rows[i].at \in Nat /\ rows[i].at <= now
    PROVE  Newest(rows, S) = 0 \/ Newest(rows, S) \in S
<1>1. CASE S = {}
  BY <1>1 DEF Newest
<1>2. CASE S # {}
  <2> DEFINE ages == {now - rows[i].at : i \in S}
  <2>1. ages \in SUBSET Nat /\ ages # {}
    BY <1>2
  <2>2. PICK age \in ages : \A other \in ages : age <= other
    <3> HIDE DEF ages
    <3> QED
      BY <2>1, LeastNumber
  <2>3. \E i \in S : \A j \in S : rows[j].at <= rows[i].at
    <3>1. PICK i \in S : age = now - rows[i].at
      OBVIOUS
    <3>2. ASSUME NEW j \in S PROVE rows[j].at <= rows[i].at
      <4>1. age <= now - rows[j].at
        BY <2>2
      <4> QED
        BY <3>1, <4>1
    <3> QED
      BY <3>2
  <2> QED
    BY <1>2, <2>3 DEF Newest
<1> QED
  BY <1>1, <1>2
-----------------------------------------------------------------------------
(***************************************************************************)
(* What an evaluation scores.                                               *)
(***************************************************************************)

\* A rule (rules.py) finds finitely many things wrong.
LEMMA FindingIsFinite ==
    ASSUME NEW S, IsFiniteSet(S), NEW rule
    PROVE  IsFiniteSet(Finding(rule, S))
<1> DEFINE found == [x \in S |-> << rule, x >>]
<1>1. Finding(rule, S) = {found[x] : x \in S}
  BY DEF Finding
<1> HIDE DEF found
<1> QED
  BY <1>1, FiniteImage

\* The structural score (validation/scoring.py) is a number.
LEMMA StructuralIsNatural ==
    ASSUME NEW wf \in Workflow
    PROVE  StructuralScore[wf] \in Nat
<1> DEFINE one == {"workflow"}
<1>1. IsFiniteSet(one) /\ IsFiniteSet({}) /\ IsFiniteSet(wf.nodes) /\ IsFiniteSet(wf.edges)
  BY AssessmentAssumption, FS_Singleton, FS_EmptySet
<1>2. /\ \A rule : \A S \in SUBSET wf.nodes : IsFiniteSet(Finding(rule, S))
      /\ \A rule : \A S \in SUBSET wf.edges : IsFiniteSet(Finding(rule, S))
      /\ \A rule : \A S \in SUBSET one : IsFiniteSet(Finding(rule, S))
  BY <1>1, FS_Subset, FindingIsFinite
<1>3. IsFiniteSet(Criticals(wf))
  <2>1. PICK S \in SUBSET one : EmptyWorkflow(wf) = Finding("empty", S)
    BY DEF EmptyWorkflow
  <2> DEFINE again == {m \in wf.nodes : \E k \in wf.nodes \ {m} : k.id = m.id}
             id == [n \in again |-> n.id]
             twice == {n.id : n \in again}
  <2>2. DuplicateNodeId(wf) = Finding("duplicate", twice)
    BY DEF DuplicateNodeId
  <2>3. IsFiniteSet(twice)
    <3>1. IsFiniteSet(again) /\ twice = {id[n] : n \in again}
      BY <1>1, FS_Subset
    <3> HIDE DEF again, id, twice
    <3> QED
      BY <3>1, FiniteImage
  <2> HIDE DEF twice
  <2>4. IsFiniteSet(EmptyWorkflow(wf)) /\ IsFiniteSet(DuplicateNodeId(wf))
    BY <1>2, <2>1, <2>2, <2>3, FindingIsFinite
  <2> QED
    BY <2>4, FS_Union DEF Criticals
<1>4. IsFiniteSet(Errors(wf))
  <2>1. PICK S \in SUBSET wf.edges, T \in SUBSET wf.edges :
            InvalidEdgeReference(wf) = Finding("source", S) \cup Finding("target", T)
    BY DEF InvalidEdgeReference
  <2>2. PICK M \in SUBSET one : MissingStart(wf) = Finding("start", M)
    BY DEF MissingStart
  <2>3. PICK N \in SUBSET wf.nodes : Reachability(wf) = Finding("unreachable", N)
    BY DEF Reachability
  <2>4. PICK O \in SUBSET wf.nodes : OrphanNode(wf) = Finding("orphan", O)
    BY DEF OrphanNode
  <2>5. PICK D \in SUBSET one : DisconnectedComponents(wf) = Finding("components", D)
    BY DEF DisconnectedComponents
  <2>6. /\ IsFiniteSet(InvalidEdgeReference(wf)) /\ IsFiniteSet(MissingStart(wf))
        /\ IsFiniteSet(Reachability(wf)) /\ IsFiniteSet(OrphanNode(wf))
        /\ IsFiniteSet(DisconnectedComponents(wf))
    BY <1>2, <2>1, <2>2, <2>3, <2>4, <2>5, FS_Union
  <2>7. Errors(wf) = (((InvalidEdgeReference(wf) \cup MissingStart(wf)) \cup Reachability(wf))
                          \cup OrphanNode(wf)) \cup DisconnectedComponents(wf)
    BY DEF Errors
  <2> QED
    BY <2>6, <2>7, FS_Union
<1>5. IsFiniteSet(Warnings(wf))
  <2>1. PICK M \in SUBSET one : MissingTerminal(wf) = Finding("terminal", M)
    BY DEF MissingTerminal
  <2>2. PICK D \in SUBSET wf.nodes : DeadEnd(wf) = Finding("dead end", D)
    BY DEF DeadEnd
  <2>3. IsFiniteSet(SuspiciousCycle(wf))
    BY CyclesAreFinite, FindingIsFinite DEF SuspiciousCycle
  <2>4. PICK C \in SUBSET wf.nodes : MissingConfiguration(wf) = Finding("configuration", C)
    BY DEF MissingConfiguration, Executable
  <2>5. PICK I \in SUBSET wf.edges : InvalidCondition(wf) = Finding("condition", I)
    BY DEF InvalidCondition
  <2>6. /\ IsFiniteSet(MissingTerminal(wf)) /\ IsFiniteSet(DeadEnd(wf))
        /\ IsFiniteSet(MissingConfiguration(wf)) /\ IsFiniteSet(InvalidCondition(wf))
    BY <1>2, <2>1, <2>2, <2>4, <2>5
  <2>7. Warnings(wf) = (((MissingTerminal(wf) \cup DeadEnd(wf)) \cup SuspiciousCycle(wf))
                            \cup MissingConfiguration(wf)) \cup InvalidCondition(wf)
    BY DEF Warnings
  <2> QED
    BY <2>3, <2>6, <2>7, FS_Union
<1>6. Penalty(wf) \in Nat
  <2>1. Cardinality(Criticals(wf)) \in Nat /\ Cardinality(Errors(wf)) \in Nat /\ Cardinality(Warnings(wf)) \in Nat
    BY <1>3, <1>4, <1>5, FS_CardinalityType
  <2> QED
    BY <2>1 DEF Penalty
<1>7. CompletenessBonus(wf) \in Nat
  <2> DEFINE some == {n \in Executable(wf) : n.configured}
  <2>1. IsFiniteSet(Executable(wf)) /\ IsFiniteSet(some)
    BY <1>1, FS_Subset DEF Executable
  <2>2. Cardinality(Executable(wf)) \in Nat /\ Cardinality(some) \in Nat
    BY <2>1, FS_CardinalityType
  <2>3. Executable(wf) # {} => Cardinality(Executable(wf)) # 0
    BY <2>1, FS_EmptySet
  <2>4. CompletenessBonus(wf) = IF Executable(wf) = {} THEN 0
                                ELSE Round(5 * Cardinality(some), Cardinality(Executable(wf)))
    BY DEF CompletenessBonus
  <2> DEFINE points == 5 * Cardinality(some)
             all == Cardinality(Executable(wf))
  <2>5. points \in Nat /\ all \in Nat
    BY <2>2
  <2> HIDE DEF some, points, all
  <2>6. all # 0 => Round(points, all) \in Nat
    BY <2>5, RoundIsNatural
  <2> QED
    BY <2>3, <2>4, <2>6 DEF points, all
<1>8. StructuralScore[wf] = structural_quality_score(wf)
  BY DEF StructuralScore
<1> QED
  BY <1>6, <1>7, <1>8 DEF structural_quality_score

\* What is blended (scoring.py 185-217) is a number.
LEMMA BlendIsNatural ==
    ASSUME NEW score \in 0 .. 100, NEW campaign, campaign[1].robustness \in Nat
    PROVE  BlendReliability(score, campaign) \in Nat
<1>1. 3 * score + 2 * campaign[1].robustness \in Nat /\ 5 \in Nat \ {0}
  OBVIOUS
<1> QED
  BY <1>1, RoundIsNatural DEF BlendReliability

\* The overall score (scoring.py 219-231) of what an evaluation scores (scoring.py 80-118) is
\* between its worst dimension and its best.
LEMMA EvaluationIsAMean ==
    ASSUME NEW wf \in Workflow, NEW alignment \in Alignments[wf], NEW structural \in Nat,
           NEW coverage \in {None} \cup {<< c >> : c \in Coverage}, NEW campaign,
           campaign # << >> => campaign[1].robustness \in Nat /\ WellFormed(campaign[1].findings),
           NEW scores, scores = dimension_scores(Static[wf], alignment, structural, campaign, coverage)
    PROVE  /\ \E d \in DOMAIN scores : scores[d] <= overall_score(scores)
           /\ \E d \in DOMAIN scores : overall_score(scores) <= scores[d]
<1> DEFINE findings == Static[wf].reliability \cup IF campaign = << >> THEN {} ELSE campaign[1].findings
           reliability == DimensionScore(findings)
<1>1. WellFormed(Static[wf].reliability) /\ WellFormed(Static[wf].security)
      /\ WellFormed(Static[wf].maintainability)
  <2>1. /\ Static[wf].security = SecurityRules(wf)
        /\ Static[wf].maintainability = MaintainabilityRules(wf)
    BY DEF Static, StaticFindings
  <2>2. WellFormed(MaintainabilityRules(wf))
    <3> DEFINE A == {Found("WG-MAINT-001", "WARNING", "workflow", 0) : n \in {n \in wf.nodes : n.opaque}}
               B == {Found("WG-MAINT-002", "INFO", "workflow", 0)}
    <3>1. \/ MaintainabilityRules(wf) = A
          \/ MaintainabilityRules(wf) = A \cup B
      BY DEF MaintainabilityRules
    <3>2. A \in SUBSET {Found("WG-MAINT-001", "WARNING", "workflow", 0)}
      OBVIOUS
    <3>3. "WARNING" \in Severities /\ "INFO" \in Severities
      BY DEF Severities
    <3>4. WellFormed({Found("WG-MAINT-001", "WARNING", "workflow", 0)}) /\ WellFormed(B)
      BY <3>3, WellFormedOne
    <3>5. WellFormed(A)
      <4> HIDE DEF A
      <4> QED
        BY <3>2, <3>4, FS_Subset DEF WellFormed
    <3> HIDE DEF A, B
    <3> QED
      BY <3>1, <3>4, <3>5, WellFormedUnion
  <2> QED
    BY <2>1, <2>2, StaticScored, SecurityRulesWellFormed
<1>2. WellFormed(alignment)
  BY AlignmentsWellFormed
<1>3. WellFormed(findings)
  BY <1>1, WellFormedNone, WellFormedUnion
<1> HIDE DEF findings
<1>4. /\ reliability \in 0 .. 100 /\ DimensionScore(alignment) \in Nat
      /\ DimensionScore(Static[wf].security) \in Nat
      /\ DimensionScore(Static[wf].maintainability) \in Nat
  <2>1. \A n \in 0 .. 100 : n \in Nat
    OBVIOUS
  <2> QED
    BY <1>1, <1>2, <1>3, <2>1, ScoreInRange
<1>5. HasFuzzEvidence(campaign) => BlendReliability(reliability, campaign) \in Nat
  <2> HIDE DEF reliability
  <2> QED
    BY <1>4, BlendIsNatural DEF HasFuzzEvidence
<1>6. coverage # << >> => AtMost(AtLeast(coverage[1], 0), 100) \in Nat
  <2>1. SUFFICES ASSUME coverage # << >> PROVE AtMost(AtLeast(coverage[1], 0), 100) \in Nat
    OBVIOUS
  <2>2. PICK c \in Coverage : coverage = << c >>
    BY <2>1 DEF None
  <2>3. c \in 0 .. 100 /\ coverage[1] = c
    BY <2>2, AssessmentAssumption
  <2> QED
    BY <2>3 DEF AtMost, AtLeast
<1>7. /\ DOMAIN scores = Dimensions \cup IF coverage = << >> THEN {} ELSE {"test_coverage"}
      /\ scores["structural"] = structural
      /\ scores["prompt_alignment"] = DimensionScore(alignment)
      /\ scores["reliability"] = IF HasFuzzEvidence(campaign)
                                 THEN BlendReliability(reliability, campaign) ELSE reliability
      /\ scores["security"] = DimensionScore(Static[wf].security)
      /\ scores["maintainability"] = DimensionScore(Static[wf].maintainability)
      /\ coverage # << >> => scores["test_coverage"] = AtMost(AtLeast(coverage[1], 0), 100)
  BY DEF dimension_scores, Dimensions, findings
<1> HIDE DEF reliability
<1>8. DOMAIN scores # {} /\ DOMAIN scores \in SUBSET DOMAIN DIMENSION_WEIGHTS
  BY <1>7 DEF Dimensions, DIMENSION_WEIGHTS
<1>9. ASSUME NEW d \in DOMAIN scores PROVE scores[d] \in Nat
  <2>1. CASE d = "structural"
    BY <1>7, <2>1
  <2>2. CASE d = "prompt_alignment"
    BY <1>4, <1>7, <2>2
  <2>3. CASE d = "reliability"
    BY <1>4, <1>5, <1>7, <2>3
  <2>4. CASE d = "security"
    BY <1>4, <1>7, <2>4
  <2>5. CASE d = "maintainability"
    BY <1>4, <1>7, <2>5
  <2>6. CASE d = "test_coverage" /\ coverage # << >>
    BY <1>6, <1>7, <2>6
  <2> QED
    BY <1>7, <2>1, <2>2, <2>3, <2>4, <2>5, <2>6 DEF Dimensions
<1> QED
  BY <1>8, <1>9, OverallBetween
-----------------------------------------------------------------------------
(***************************************************************************)
(* The invariant.                                                           *)
(***************************************************************************)

\* Rows are only ever added.
Sequence(s) == \E S : s \in Seq(S)
Extends(s, t) == DOMAIN s \subseteq DOMAIN t /\ \A i \in DOMAIN s : t[i] = s[i]

\* A row keeps what was there and adds itself.
LEMMA AppendRow ==
    ASSUME NEW rows, Sequence(rows), NEW row
    PROVE  /\ Sequence(Append(rows, row)) /\ Extends(rows, Append(rows, row))
           /\ \A i \in DOMAIN Append(rows, row) :
                  i \in DOMAIN rows \/ Append(rows, row)[i] = row
<1>1. PICK S : rows \in Seq(S)
  BY DEF Sequence
<1>2. rows \in Seq(S \cup {row})
  BY <1>1
<1>3. Append(rows, row) \in Seq(S \cup {row})
  BY <1>2
<1> QED
  BY <1>2, <1>3 DEF Sequence, Extends

\* What every stored campaign tells of itself.
Measured(c, vs, now) ==
    /\ c.at \in Nat /\ c.at <= now /\ c.version \in DOMAIN vs
    /\ c.exercised \in Nat /\ c.handled \in Nat /\ c.robustness \in Nat /\ WellFormed(c.findings)
    /\ c.exercised = 0 => c.findings = {}
    /\ (c.exercised # 0 /\ c.handled = 0) => c.robustness = 0

\* The overall score is between the least of the scores and the greatest.
InBetween(e) ==
    /\ \E d \in DOMAIN e.scores : e.scores[d] <= e.overall
    /\ \E d \in DOMAIN e.scores : e.overall <= e.scores[d]

\* What every stored evaluation owes to its version and its campaign.
Scored(e, vs, cs, now) ==
    /\ e.at \in Nat /\ e.at <= now /\ e.version \in DOMAIN vs
    /\ e.campaign # 0 => e.campaign \in DOMAIN cs /\ cs[e.campaign].version = e.version
    /\ (e.campaign = 0 \/ cs[e.campaign].exercised = 0) =>
           e.scores.reliability = StaticReliability[vs[e.version]]
    /\ (e.campaign # 0 /\ cs[e.campaign].exercised # 0 /\ cs[e.campaign].handled = 0) =>
           e.scores.reliability \in 0 .. 74
    /\ e.criticals = 0 => \A n \in vs[e.version].nodes : n.secrets \cup n.leaks = {}
    /\ InBetween(e)

\* What a request holds.
Underway(q, vs, cs, now) ==
    \/ q = Idle
    \/ /\ q \in [op : {"fuzz"}, at : Nat, version : DOMAIN vs, cases : Nat, results : Seq(CaseResult)]
       /\ q.at <= now /\ MaxCases <= q.cases
    \/ /\ q.op \in {"evaluate", "score"}
       /\ q.at \in Nat /\ q.at <= now /\ q.version \in DOMAIN vs /\ q.structural \in Nat
       /\ (q.op = "score" /\ q.campaign # 0) =>
              q.campaign \in DOMAIN cs /\ cs[q.campaign].version = q.version

\* A gate that was passed was passed on an evaluation that earned it.
GateHolds ==
    (gate # None /\ gate[1].passed) =>
        /\ gate[1].evaluation \in DOMAIN evaluations
        /\ evaluations[gate[1].evaluation].version <= gate[1].version
        /\ evaluations[gate[1].evaluation].criticals = 0
        /\ evaluations[gate[1].evaluation].scores.reliability >= 75

IInv ==
    /\ Sequence(campaigns) /\ Sequence(evaluations)
    /\ versions \in Seq(Workflow) /\ Current >= 1 /\ clock \in Nat /\ validation.score \in Nat
    /\ \A i \in DOMAIN campaigns : Measured(campaigns[i], versions, clock)
    /\ \A i \in DOMAIN evaluations : Scored(evaluations[i], versions, campaigns, clock)
    /\ request = [r \in Request |-> request[r]]
    /\ \A r \in Request : Underway(request[r], versions, campaigns, clock)
    /\ GateHolds
\* What holds of rows and requests goes on to hold while rows are added and time passes.
LEMMA StaysTrue ==
    ASSUME NEW vs, NEW vs2, Extends(vs, vs2), NEW cs, NEW cs2, Extends(cs, cs2),
           NEW now \in Nat, NEW now2 \in Nat, now <= now2
    PROVE  /\ \A c : Measured(c, vs, now) => Measured(c, vs2, now2)
           /\ \A e : Scored(e, vs, cs, now) => Scored(e, vs2, cs2, now2)
           /\ \A q : Underway(q, vs, cs, now) => Underway(q, vs2, cs2, now2)
<1>1. ASSUME NEW c, Measured(c, vs, now) PROVE Measured(c, vs2, now2)
  <2>1. c.at \in Nat /\ c.at <= now2
    BY <1>1 DEF Measured
  <2> QED
    BY <1>1, <2>1 DEF Measured, Extends
<1>2. ASSUME NEW e, Scored(e, vs, cs, now) PROVE Scored(e, vs2, cs2, now2)
  <2>1. e.at \in Nat /\ e.at <= now2
    BY <1>2 DEF Scored
  <2>2. e.version \in DOMAIN vs2 /\ vs2[e.version] = vs[e.version]
    BY <1>2 DEF Scored, Extends
  <2>3. e.campaign # 0 => /\ e.campaign \in DOMAIN cs2 /\ cs2[e.campaign] = cs[e.campaign]
                          /\ cs2[e.campaign].version = e.version
    BY <1>2 DEF Scored, Extends
  <2> QED
    BY <1>2, <2>1, <2>2, <2>3 DEF Scored
<1>3. ASSUME NEW q, Underway(q, vs, cs, now) PROVE Underway(q, vs2, cs2, now2)
  <2>1. CASE q = Idle
    BY <2>1 DEF Underway
  <2>2. CASE /\ q \in [op : {"fuzz"}, at : Nat, version : DOMAIN vs, cases : Nat, results : Seq(CaseResult)]
             /\ q.at <= now /\ MaxCases <= q.cases
    <3>1. q \in [op : {"fuzz"}, at : Nat, version : DOMAIN vs2, cases : Nat, results : Seq(CaseResult)]
      BY <2>2 DEF Extends
    <3>2. q.at <= now2
      BY <2>2
    <3> QED
      BY <2>2, <3>1, <3>2 DEF Underway
  <2>3. CASE /\ q.op \in {"evaluate", "score"}
             /\ q.at \in Nat /\ q.at <= now /\ q.version \in DOMAIN vs /\ q.structural \in Nat
             /\ (q.op = "score" /\ q.campaign # 0) =>
                    q.campaign \in DOMAIN cs /\ cs[q.campaign].version = q.version
    <3>1. q.at <= now2
      BY <2>3
    <3>2. q.version \in DOMAIN vs2
      BY <2>3 DEF Extends
    <3>3. (q.op = "score" /\ q.campaign # 0) =>
              q.campaign \in DOMAIN cs2 /\ cs2[q.campaign].version = q.version
      BY <2>3 DEF Extends
    <3> QED
      BY <2>3, <3>1, <3>2, <3>3 DEF Underway
  <2> QED
    BY <1>3, <2>1, <2>2, <2>3 DEF Underway
<1> QED
  BY <1>1, <1>2, <1>3

\* Nothing changes: what is there extends itself.
LEMMA ExtendsItself == \A s : Extends(s, s)
BY DEF Extends

\* What requests do to the others: a step in which only r's request changes and rows may be
\* added keeps the invariant if r's request, the new rows and the gate are as they should be.
LEMMA RequestStep ==
    ASSUME IInv, NEW r \in Request, NEW held,
           request' = [request EXCEPT ![r] = held],
           UNCHANGED versions, UNCHANGED validation, UNCHANGED gate,
           clock' \in Nat, clock <= clock',
           Sequence(campaigns'), Extends(campaigns, campaigns'),
           Sequence(evaluations'), Extends(evaluations, evaluations'),
           \A i \in DOMAIN campaigns' : i \in DOMAIN campaigns \/ Measured(campaigns'[i], versions, clock'),
           \A i \in DOMAIN evaluations' :
               i \in DOMAIN evaluations \/ Scored(evaluations'[i], versions, campaigns', clock'),
           Underway(held, versions, campaigns', clock')
    PROVE  IInv'
<1> USE DEF IInv
<1>1. Extends(versions, versions') /\ clock \in Nat
  BY ExtendsItself
<1>2. /\ \A c : Measured(c, versions, clock) => Measured(c, versions', clock')
      /\ \A e : Scored(e, versions, campaigns, clock) => Scored(e, versions', campaigns', clock')
      /\ \A q : Underway(q, versions, campaigns, clock) => Underway(q, versions', campaigns', clock')
  <2> HIDE DEF IInv
  <2> QED
    BY <1>1, StaysTrue
<1>3. \A i \in DOMAIN campaigns' : Measured(campaigns'[i], versions', clock')
  BY <1>2 DEF Extends
<1>4. \A i \in DOMAIN evaluations' : Scored(evaluations'[i], versions', campaigns', clock')
  BY <1>2 DEF Extends
<1>5. request' = [q \in Request |-> IF q = r THEN held ELSE request[q]]
  OBVIOUS
<1>6. request' = [q \in Request |-> request'[q]]
  BY <1>5
<1>7. \A q \in Request : Underway(request'[q], versions', campaigns', clock')
  BY <1>2, <1>5
<1>8. GateHolds'
  <2>1. GateHolds
    OBVIOUS
  <2> HIDE DEF IInv
  <2> QED
    BY <2>1 DEF GateHolds, Extends
<1>9. versions' \in Seq(Workflow) /\ Current' >= 1 /\ validation'.score \in Nat
  BY DEF Current
<1> QED
  BY <1>3, <1>4, <1>6, <1>7, <1>8, <1>9
\* The invariant holds initially.
LEMMA InitOk == Init => IInv
<1> SUFFICES ASSUME Init PROVE IInv
  OBVIOUS
<1>1. Sequence(campaigns) /\ Sequence(evaluations)
  BY DEF Init, Sequence
<1>2. versions \in Seq(Workflow) /\ Current >= 1 /\ clock \in Nat
  BY DEF Init, Current
<1>3. DOMAIN campaigns = {} /\ DOMAIN evaluations = {}
  BY DEF Init
<1>4. request = [r \in Request |-> request[r]] /\ \A r \in Request : request[r] = Idle
  BY DEF Init
<1>5. GateHolds
  BY DEF Init, GateHolds
<1>6. validation.score \in Nat
  <2>1. validation = Validated(1) /\ versions[1] \in Workflow
    BY DEF Init
  <2> QED
    BY <2>1, StructuralIsNatural DEF Validated
<1> QED
  BY <1>1, <1>2, <1>3, <1>4, <1>5, <1>6 DEF IInv, Underway

\* The current version is one of the versions.
LEMMA CurrentIsAVersion ==
    ASSUME IInv
    PROVE  Current \in DOMAIN versions /\ DOMAIN versions = 1 .. Current /\ Current \in Nat
BY DEF IInv, Current

\* A campaign that begins holds the current version (fuzzing.py 62-100).
LEMMA BeginCampaignOk == ASSUME IInv, NEW r \in Request, BeginCampaign(r) PROVE IInv'
<1>1. PICK ai \in 0 .. MaxAiCases :
          Begin(r, [op |-> "fuzz", at |-> clock + 1, version |-> Current,
                    cases |-> CaseCount(ai), results |-> << >>])
  BY DEF BeginCampaign
<1> DEFINE held == [op |-> "fuzz", at |-> clock + 1, version |-> Current,
                    cases |-> CaseCount(ai), results |-> << >>]
<1>2. clock' = clock + 1 /\ request' = [request EXCEPT ![r] = held]
  BY <1>1 DEF Begin
<1>3. CaseCount(ai) \in Nat /\ MaxCases <= CaseCount(ai)
  BY AssessmentAssumption DEF CaseCount, AtMost
<1>4. clock \in Nat /\ clock' \in Nat /\ clock <= clock'
  BY <1>2 DEF IInv
<1>5. Underway(held, versions, campaigns, clock')
  <2>1. << >> \in Seq(CaseResult)
    OBVIOUS
  <2>2. held \in [op : {"fuzz"}, at : Nat, version : DOMAIN versions, cases : Nat, results : Seq(CaseResult)]
    BY <1>3, <1>4, <2>1, CurrentIsAVersion
  <2>3. held.at <= clock' /\ MaxCases <= held.cases
    BY <1>2, <1>3, <1>4
  <2> HIDE DEF held
  <2> QED
    BY <2>2, <2>3 DEF Underway
<1>6. UNCHANGED << versions, validation, campaigns, evaluations, gate >>
  BY DEF BeginCampaign
<1>7. Sequence(campaigns) /\ Sequence(evaluations)
  BY DEF IInv
<1> HIDE DEF held
<1> QED
  BY <1>2, <1>4, <1>5, <1>6, <1>7, ExtendsItself, RequestStep

\* So does an evaluation that begins (evaluations.py 55-144).
LEMMA BeginEvaluationOk == ASSUME IInv, NEW r \in Request, BeginEvaluation(r) PROVE IInv'
<1> DEFINE held == [op |-> "evaluate", at |-> clock + 1, version |-> Current,
                    structural |-> validation.score]
<1>1. clock' = clock + 1 /\ request' = [request EXCEPT ![r] = held]
  BY DEF BeginEvaluation, Begin
<1>2. clock \in Nat /\ clock' \in Nat /\ clock <= clock'
  BY <1>1 DEF IInv
<1>3. Underway(held, versions, campaigns, clock')
  <2>1. /\ held.op = "evaluate" /\ held.at \in Nat /\ held.at <= clock'
        /\ held.version \in DOMAIN versions /\ held.structural \in Nat
    BY <1>1, <1>2, CurrentIsAVersion DEF IInv
  <2> HIDE DEF held
  <2> QED
    BY <2>1 DEF Underway
<1>4. UNCHANGED << versions, validation, campaigns, evaluations, gate >>
  BY DEF BeginEvaluation
<1>5. Sequence(campaigns) /\ Sequence(evaluations)
  BY DEF IInv
<1> HIDE DEF held
<1> QED
  BY <1>1, <1>2, <1>3, <1>4, <1>5, ExtendsItself, RequestStep

\* A request that stops (fuzzing.py 62-100) holds nothing.
LEMMA AbandonOk == ASSUME IInv, NEW r \in Request, Abandon(r) PROVE IInv'
<1>1. request' = [request EXCEPT ![r] = Idle] /\ UNCHANGED << versions, validation, clock, campaigns, evaluations, gate >>
  BY DEF Abandon
<1>2. Sequence(campaigns) /\ Sequence(evaluations) /\ clock \in Nat /\ clock <= clock
  BY DEF IInv
<1>3. Underway(Idle, versions, campaigns, clock)
  BY DEF Underway
<1> QED
  BY <1>1, <1>2, <1>3, ExtendsItself, RequestStep

\* A campaign under way holds the results of the cases it ran.
LEMMA FuzzIsUnderway ==
    ASSUME IInv, NEW r \in Request, request[r].op = "fuzz"
    PROVE  /\ request[r] \in [op : {"fuzz"}, at : Nat, version : DOMAIN versions, cases : Nat,
                              results : Seq(CaseResult)]
           /\ request[r].at <= clock /\ MaxCases <= request[r].cases
<1>1. Underway(request[r], versions, campaigns, clock)
  BY DEF IInv
<1>2. request[r] # Idle
  BY DEF Idle
<1> QED
  BY <1>1, <1>2 DEF Underway

\* A case that is run (engine.py 56-115) has a result of its kind.
LEMMA RunCaseOk == ASSUME IInv, NEW r \in Request, RunCase(r) PROVE IInv'
<1> DEFINE q == request[r]
<1>1. PICK case \in GeneratedCases(versions[q.version]) \cup AiCases(versions[q.version]) :
          \E result \in CaseResults(case) :
              request' = [request EXCEPT ![r].results = Append(@, result)]
  BY DEF RunCase
<1>run. PICK result \in CaseResults(case) :
           request' = [request EXCEPT ![r].results = Append(@, result)]
  BY <1>1
<1>2. q.op = "fuzz" /\ UNCHANGED << versions, validation, clock, campaigns, evaluations, gate >>
  BY DEF RunCase
<1>3. /\ q \in [op : {"fuzz"}, at : Nat, version : DOMAIN versions, cases : Nat, results : Seq(CaseResult)]
      /\ q.at <= clock /\ MaxCases <= q.cases
  BY <1>2, FuzzIsUnderway
<1>4. versions[q.version] \in Workflow
  BY <1>3 DEF IInv
<1>5. result \in CaseResult
  <2>1. case \in SUBSET AllIds /\ IsFiniteSet(case)
    BY <1>1, <1>4, CasesAreOfNodes
  <2> QED
    BY <1>run, <2>1, CaseResultsAreResults
<1> DEFINE held == [q EXCEPT !.results = Append(@, result)]
<1>6. request' = [request EXCEPT ![r] = held]
  BY <1>run
<1>7. Underway(held, versions, campaigns, clock)
  <2>1. Append(q.results, result) \in Seq(CaseResult)
    BY <1>3, <1>5
  <2>2. held \in [op : {"fuzz"}, at : Nat, version : DOMAIN versions, cases : Nat, results : Seq(CaseResult)]
        /\ held.at = q.at /\ held.cases = q.cases
    BY <1>3, <2>1
  <2> HIDE DEF held
  <2> QED
    BY <1>3, <2>2 DEF Underway
<1>8. Sequence(campaigns) /\ Sequence(evaluations) /\ clock \in Nat /\ clock <= clock
  BY DEF IInv
<1> HIDE DEF held, q
<1> QED
  BY <1>2, <1>6, <1>7, <1>8, ExtendsItself, RequestStep
\* The report of a campaign (fuzzing.py 212-279) is as a row should be.
LEMMA FinishCampaignOk == ASSUME IInv, NEW r \in Request, FinishCampaign(r) PROVE IInv'
<1> DEFINE q == request[r]
           report == Report(q)
<1>1. /\ q.op = "fuzz" /\ campaigns' = Append(campaigns, report)
      /\ request' = [request EXCEPT ![r] = Idle]
      /\ UNCHANGED << versions, validation, clock, evaluations, gate >>
  BY DEF FinishCampaign
<1>2. /\ q \in [op : {"fuzz"}, at : Nat, version : DOMAIN versions, cases : Nat, results : Seq(CaseResult)]
      /\ q.at <= clock
  BY <1>1, FuzzIsUnderway
<1>3. Measured(report, versions, clock)
  <2>1. q.results \in Seq(CaseResult) /\ q.at \in Nat /\ q.version \in DOMAIN versions
    BY <1>2
  <2>2. /\ report.at = q.at /\ report.version = q.version
        /\ report.exercised = Exercised(q.results) /\ report.handled = Count(q.results, "HANDLED")
        /\ report.robustness = robustness_score(q.results)
        /\ report.findings = fuzz_findings(q.results)
    BY DEF Report
  <2> HIDE DEF report, q
  <2>3. /\ Exercised(q.results) \in Nat /\ Count(q.results, "HANDLED") \in Nat
    BY <2>1, CountsAreNumbers
  <2>4. WellFormed(fuzz_findings(q.results))
    BY <2>1, CampaignFinds
  <2>5. /\ Exercised(q.results) = 0 => fuzz_findings(q.results) = {}
        /\ (Exercised(q.results) # 0 /\ Count(q.results, "HANDLED") = 0) => robustness_score(q.results) = 0
        /\ robustness_score(q.results) \in Nat
    BY <2>1, CampaignScores
  <2> QED
    BY <1>2, <2>1, <2>2, <2>3, <2>4, <2>5 DEF Measured
<1>4. Sequence(campaigns) /\ Sequence(evaluations) /\ clock \in Nat /\ clock <= clock
  BY DEF IInv
<1> HIDE DEF report, q
<1>5. /\ Sequence(campaigns') /\ Extends(campaigns, campaigns')
      /\ \A i \in DOMAIN campaigns' : i \in DOMAIN campaigns \/ campaigns'[i] = report
  BY <1>1, <1>4, AppendRow
<1>6. \A i \in DOMAIN campaigns' : i \in DOMAIN campaigns \/ Measured(campaigns'[i], versions, clock')
  BY <1>1, <1>3, <1>5
<1>7. Underway(Idle, versions, campaigns', clock')
  BY DEF Underway
<1> QED
  BY <1>1, <1>4, <1>5, <1>6, <1>7, ExtendsItself, RequestStep

\* An evaluation under way holds a version and, once it has looked, a campaign of it or none.
LEMMA EvaluationIsUnderway ==
    ASSUME IInv, NEW r \in Request, request[r].op \in {"evaluate", "score"}
    PROVE  LET q == request[r] IN
           /\ q.at \in Nat /\ q.at <= clock /\ q.version \in DOMAIN versions /\ q.structural \in Nat
           /\ (q.op = "score" /\ q.campaign # 0) =>
                  q.campaign \in DOMAIN campaigns /\ campaigns[q.campaign].version = q.version
<1>1. Underway(request[r], versions, campaigns, clock)
  BY DEF IInv
<1>2. request[r] # Idle
  BY DEF Idle
<1>3. request[r] \notin [op : {"fuzz"}, at : Nat, version : DOMAIN versions, cases : Nat,
                         results : Seq(CaseResult)]
  OBVIOUS
<1> QED
  BY <1>1, <1>2, <1>3 DEF Underway

\* The campaign found (fuzzing.py 143-168) is one of the version.
LEMMA ReadCampaignOk == ASSUME IInv, NEW r \in Request, ReadCampaign(r) PROVE IInv'
<1> DEFINE q == request[r]
           held == [op |-> "score", at |-> q.at, version |-> q.version, structural |-> q.structural,
                    campaign |-> CampaignOf(q.version)]
<1>1. /\ q.op = "evaluate" /\ request' = [request EXCEPT ![r] = held]
      /\ UNCHANGED << versions, validation, clock, campaigns, evaluations, gate >>
  BY DEF ReadCampaign
<1>2. q.at \in Nat /\ q.at <= clock /\ q.version \in DOMAIN versions /\ q.structural \in Nat
  BY <1>1, EvaluationIsUnderway
<1>3. Sequence(campaigns) /\ Sequence(evaluations) /\ clock \in Nat /\ clock <= clock
  BY DEF IInv
<1> HIDE DEF q
<1>4. CampaignOf(q.version) = 0 \/ CampaignOf(q.version) \in {i \in DOMAIN campaigns : campaigns[i].version = q.version}
  <2> DEFINE S == {i \in DOMAIN campaigns : campaigns[i].version = q.version}
  <2>1. \A i \in S : campaigns[i].at \in Nat /\ campaigns[i].at <= clock
    BY DEF IInv, Measured
  <2>2. CampaignOf(q.version) = Newest(campaigns, S)
    BY DEF CampaignOf
  <2> HIDE DEF S
  <2>3. Newest(campaigns, S) = 0 \/ Newest(campaigns, S) \in S
    BY <1>3, <2>1, NewestIsOne
  <2> QED
    BY <2>2, <2>3 DEF S
<1>5. Underway(held, versions, campaigns, clock)
  <2>1. /\ held.op = "score" /\ held.at \in Nat /\ held.at <= clock /\ held.version \in DOMAIN versions
        /\ held.structural \in Nat
        /\ held.campaign # 0 => /\ held.campaign \in DOMAIN campaigns
                                /\ campaigns[held.campaign].version = held.version
    BY <1>2, <1>4
  <2> HIDE DEF held
  <2> QED
    BY <2>1 DEF Underway
<1> HIDE DEF held
<1> QED
  BY <1>1, <1>3, <1>5, ExtendsItself, RequestStep

\* An evaluation (evaluations.py 55-144) owes its scores to its version and its campaign.
LEMMA StoreEvaluationOk == ASSUME IInv, NEW r \in Request, StoreEvaluation(r) PROVE IInv'
<1> DEFINE q  == request[r]
           wf == versions[q.version]
           campaign == IF q.campaign = 0 THEN None ELSE << campaigns[q.campaign] >>
<1>1. PICK alignment \in Alignments[wf], coverage \in {None} \cup {<< c >> : c \in Coverage} :
          LET scores == dimension_scores(Static[wf], alignment, q.structural, campaign, coverage)
          IN  evaluations' = Append(evaluations,
                  [at |-> q.at, version |-> q.version, campaign |-> q.campaign,
                   scores |-> scores, overall |-> overall_score(scores),
                   criticals |-> CriticalCount(Static[wf].security)])
  BY DEF StoreEvaluation
<1> DEFINE scores == dimension_scores(Static[wf], alignment, q.structural, campaign, coverage)
           e == [at |-> q.at, version |-> q.version, campaign |-> q.campaign,
                 scores |-> scores, overall |-> overall_score(scores),
                 criticals |-> CriticalCount(Static[wf].security)]
<1>2. /\ q.op = "score" /\ evaluations' = Append(evaluations, e)
      /\ request' = [request EXCEPT ![r] = Idle]
      /\ UNCHANGED << versions, validation, clock, campaigns, gate >>
  BY <1>1 DEF StoreEvaluation
<1>3. /\ q.at \in Nat /\ q.at <= clock /\ q.version \in DOMAIN versions /\ q.structural \in Nat
      /\ q.campaign # 0 => q.campaign \in DOMAIN campaigns /\ campaigns[q.campaign].version = q.version
  BY <1>2, EvaluationIsUnderway
<1>4. wf \in Workflow
  BY <1>3 DEF IInv
<1>5. q.campaign # 0 => Measured(campaigns[q.campaign], versions, clock)
  BY <1>3 DEF IInv
<1> HIDE DEF q, wf
<1>6. scores = dimension_scores(Static[wf], alignment, q.structural, campaign, coverage)
  OBVIOUS
<1>7. /\ e.at = q.at /\ e.version = q.version /\ e.campaign = q.campaign /\ e.scores = scores
      /\ e.overall = overall_score(scores)
      /\ e.criticals = CriticalCount(Static[wf].security)
  OBVIOUS
<1> HIDE DEF scores, e
<1>8. (q.campaign = 0 \/ campaigns[q.campaign].exercised = 0) => scores.reliability = StaticReliability[wf]
  <2>1. CASE q.campaign = 0
    <3>1. campaign = << >>
      BY <2>1 DEF None
    <3> HIDE DEF campaign
    <3>2. scores.reliability = DimensionScore(Static[wf].reliability)
      BY <1>6, <3>1, ScoredWithoutCampaign
    <3> QED
      BY <1>4, <3>2, StaticScored
  <2>2. CASE q.campaign # 0 /\ campaigns[q.campaign].exercised = 0
    <3>1. campaign # << >> /\ campaign[1] = campaigns[q.campaign]
      BY <2>2
    <3>2. ~ HasFuzzEvidence(campaign) /\ campaign[1].findings = {}
      BY <1>5, <2>2, <3>1 DEF HasFuzzEvidence, Measured
    <3> HIDE DEF campaign
    <3>3. scores.reliability = DimensionScore(Static[wf].reliability \cup campaign[1].findings)
      BY <1>6, <3>1, <3>2, ScoredWithoutEvidence
    <3>4. Static[wf].reliability \cup {} = Static[wf].reliability
      OBVIOUS
    <3>5. scores.reliability = DimensionScore(Static[wf].reliability)
      BY <3>2, <3>3, <3>4
    <3> QED
      BY <1>4, <3>5, StaticScored
  <2> QED
    BY <2>1, <2>2
<1>9. (q.campaign # 0 /\ campaigns[q.campaign].exercised # 0 /\ campaigns[q.campaign].handled = 0) =>
          scores.reliability \in 0 .. 74
  <2>1. SUFFICES ASSUME q.campaign # 0, campaigns[q.campaign].exercised # 0, campaigns[q.campaign].handled = 0
                 PROVE  scores.reliability \in 0 .. 74
    OBVIOUS
  <2>2. campaign # << >> /\ campaign[1] = campaigns[q.campaign]
    BY <2>1
  <2> HIDE DEF campaign
  <2>3. /\ HasFuzzEvidence(campaign) /\ campaign[1].robustness = 0
        /\ WellFormed(campaign[1].findings)
    BY <1>5, <2>1, <2>2 DEF HasFuzzEvidence, Measured
  <2> DEFINE F == Static[wf].reliability \cup campaign[1].findings
  <2>4. WellFormed(F)
    BY <1>4, <2>3, StaticScored, WellFormedUnion
  <2>5. scores.reliability = BlendReliability(DimensionScore(F), campaign)
    BY <1>6, <2>2, <2>3, ScoredWithEvidence
  <2> HIDE DEF F
  <2>6. DimensionScore(F) \in 0 .. 100
    BY <2>4, ScoreInRange
  <2> QED
    BY <2>3, <2>5, <2>6, NoneSurvived
<1>10. e.criticals = 0 => \A n \in wf.nodes : n.secrets \cup n.leaks = {}
  BY <1>4, <1>7, StaticScored, NoCriticalNoSecret
<1>mean. InBetween(e)
  <2>1. campaign # << >> => campaign[1].robustness \in Nat /\ WellFormed(campaign[1].findings)
    <3>1. CASE q.campaign = 0
      BY <3>1 DEF None
    <3>2. CASE q.campaign # 0
      BY <1>5, <3>2 DEF Measured
    <3> QED
      BY <3>1, <3>2
  <2> HIDE DEF campaign
  <2>2. q.structural \in Nat
    BY <1>3
  <2>3. /\ \E d \in DOMAIN scores : scores[d] <= overall_score(scores)
        /\ \E d \in DOMAIN scores : overall_score(scores) <= scores[d]
    BY <1>4, <1>6, <2>1, <2>2, EvaluationIsAMean
  <2> QED
    BY <1>7, <2>3 DEF InBetween
<1>11. Scored(e, versions, campaigns, clock)
  BY <1>3, <1>7, <1>8, <1>9, <1>10, <1>mean DEF Scored, wf
<1>12. Sequence(campaigns) /\ Sequence(evaluations) /\ clock \in Nat /\ clock <= clock
  BY DEF IInv
<1>13. /\ Sequence(evaluations') /\ Extends(evaluations, evaluations')
       /\ \A i \in DOMAIN evaluations' : i \in DOMAIN evaluations \/ evaluations'[i] = e
  BY <1>2, <1>12, AppendRow
<1>14. \A i \in DOMAIN evaluations' :
           i \in DOMAIN evaluations \/ Scored(evaluations'[i], versions, campaigns', clock')
  BY <1>2, <1>11, <1>13
<1>15. Underway(Idle, versions, campaigns', clock')
  BY DEF Underway
<1> QED
  BY <1>2, <1>12, <1>13, <1>14, <1>15, ExtendsItself, RequestStep
\* Editing (workflows.py) adds a version.
LEMMA EditOk == ASSUME IInv, Edit PROVE IInv'
<1>1. PICK wf \in Workflow : versions' = Append(versions, wf)
  BY DEF Edit
<1>2. UNCHANGED << validation, clock, campaigns, evaluations, gate, request >>
  BY DEF Edit
<1>3. versions \in Seq(Workflow) /\ Current >= 1 /\ clock \in Nat /\ clock <= clock
      /\ Sequence(campaigns) /\ Sequence(evaluations)
  BY DEF IInv
<1>4. versions' \in Seq(Workflow) /\ Current' >= 1 /\ Extends(versions, versions')
  BY <1>1, <1>3 DEF Current, Extends
<1>5. /\ \A c : Measured(c, versions, clock) => Measured(c, versions', clock)
      /\ \A e : Scored(e, versions, campaigns, clock) => Scored(e, versions', campaigns, clock)
      /\ \A q : Underway(q, versions, campaigns, clock) => Underway(q, versions', campaigns, clock)
  BY <1>3, <1>4, ExtendsItself, StaysTrue
<1>6. GateHolds'
  BY <1>2 DEF IInv, GateHolds
<1> QED
  BY <1>2, <1>3, <1>4, <1>5, <1>6 DEF IInv

\* A validation (workflows.py) scores the current version.
LEMMA ValidateOk == ASSUME IInv, Validate PROVE IInv'
<1>1. validation' = Validated(Current) /\ UNCHANGED << versions, clock, campaigns, evaluations, gate, request >>
  BY DEF Validate
<1>2. versions[Current] \in Workflow
  BY CurrentIsAVersion DEF IInv
<1>3. validation'.score \in Nat
  BY <1>1, <1>2, StructuralIsNatural DEF Validated
<1> QED
  BY <1>1, <1>3 DEF IInv, GateHolds, Current

\* A gate that is passed (services/quality.py 24-56) has an evaluation, and its reliability and
\* its critical findings are this one's.
LEMMA CheckGateOk == ASSUME IInv, CheckGate PROVE IInv'
<1> DEFINE i == LatestEvaluation
<1>1. PICK coverage \in {None} \cup {<< c >> : c \in Coverage}, testFailures \in {0, 1} :
          gate' = << [version |-> Current, evaluation |-> i,
                      passed |-> Passes(GateScores(i, coverage), testFailures,
                                        IF i = 0 THEN 0 ELSE evaluations[i].criticals)] >>
  BY DEF CheckGate
<1>2. UNCHANGED << versions, validation, clock, campaigns, evaluations, request >>
  BY DEF CheckGate
<1>3. i = 0 \/ i \in DOMAIN evaluations
  <2>1. \A j \in DOMAIN evaluations : evaluations[j].at \in Nat /\ evaluations[j].at <= clock
    BY DEF IInv, Scored
  <2>2. clock \in Nat
    BY DEF IInv
  <2> QED
    BY <2>1, <2>2, NewestIsOne DEF LatestEvaluation
<1> DEFINE scores == GateScores(i, coverage)
           criticals == IF i = 0 THEN 0 ELSE evaluations[i].criticals
<1>4. /\ "reliability" \in DOMAIN scores => i # 0
      /\ i # 0 /\ "reliability" \in DOMAIN scores => scores["reliability"] = evaluations[i].scores["reliability"]
  BY DEF GateScores
<1>5. ASSUME Passes(scores, testFailures, criticals)
      PROVE  "reliability" \in DOMAIN scores /\ scores["reliability"] >= 75 /\ criticals = 0
  <2>1. "reliability" \in DOMAIN QualityGateConfig /\ QualityGateConfig["reliability"] = 75
    BY DEF QualityGateConfig
  <2> HIDE DEF scores, criticals
  <2> QED
    BY <1>5, <2>1 DEF Passes
<1>6. /\ gate' # None => gate'[1].evaluation = i /\ gate'[1].version = Current
      /\ gate'[1].passed => Passes(scores, testFailures, criticals)
  BY <1>1
<1> HIDE DEF i
<1>7. GateHolds'
  <2>1. SUFFICES ASSUME gate' # None, gate'[1].passed
                 PROVE  /\ i \in DOMAIN evaluations /\ evaluations[i].version <= Current
                        /\ evaluations[i].criticals = 0
                        /\ evaluations[i].scores.reliability >= 75
    BY <1>2, <1>6 DEF GateHolds
  <2>2. "reliability" \in DOMAIN scores /\ scores["reliability"] >= 75 /\ criticals = 0
    BY <1>5, <1>6, <2>1
  <2>3. i # 0
    BY <1>4, <2>2
  <2>4. evaluations[i].criticals = 0
    BY <2>2, <2>3
  <2>5. evaluations[i].scores["reliability"] >= 75
    <3> HIDE DEF scores
    <3> QED
      BY <1>4, <2>2, <2>3
  <2>6. evaluations[i].version <= Current
    <3>1. evaluations[i].version \in DOMAIN versions
      BY <1>3, <2>3 DEF IInv, Scored
    <3>2. versions \in Seq(Workflow)
      BY DEF IInv
    <3> QED
      BY <3>1, <3>2 DEF Current
  <2> QED
    BY <1>3, <2>3, <2>4, <2>5, <2>6
<1> QED
  BY <1>2, <1>7 DEF IInv, Current

\* Every step keeps the invariant.
LEMMA StepOk == IInv /\ [Next]_vars => IInv'
<1> SUFFICES ASSUME IInv, [Next]_vars PROVE IInv'
  OBVIOUS
<1>1. CASE Edit
  BY <1>1, EditOk
<1>2. CASE Validate
  BY <1>2, ValidateOk
<1>3. CASE CheckGate
  BY <1>3, CheckGateOk
<1>4. ASSUME NEW r \in Request, BeginCampaign(r) PROVE IInv'
  BY <1>4, BeginCampaignOk
<1>5. ASSUME NEW r \in Request, RunCase(r) PROVE IInv'
  BY <1>5, RunCaseOk
<1>6. ASSUME NEW r \in Request, FinishCampaign(r) PROVE IInv'
  BY <1>6, FinishCampaignOk
<1>7. ASSUME NEW r \in Request, Abandon(r) PROVE IInv'
  BY <1>7, AbandonOk
<1>8. ASSUME NEW r \in Request, BeginEvaluation(r) PROVE IInv'
  BY <1>8, BeginEvaluationOk
<1>9. ASSUME NEW r \in Request, ReadCampaign(r) PROVE IInv'
  BY <1>9, ReadCampaignOk
<1>10. ASSUME NEW r \in Request, StoreEvaluation(r) PROVE IInv'
  BY <1>10, StoreEvaluationOk
<1>11. CASE UNCHANGED vars
  BY <1>11 DEF vars, IInv, GateHolds, Current
<1> QED
  BY <1>1, <1>2, <1>3, <1>4, <1>5, <1>6, <1>7, <1>8, <1>9, <1>10, <1>11 DEF Next

\* The invariant holds always.
LEMMA Invariance == Spec => []IInv
<1> QED
  BY InitOk, StepOk, PTL DEF Spec
-----------------------------------------------------------------------------
(***************************************************************************)
(* The theorems.                                                            *)
(***************************************************************************)

\* The campaign that an evaluation blends measured the version evaluated, and one that exercised
\* nothing moves no score (evaluations.py 55-144, scoring.py 94-111 and 185-217).
THEOREM EvaluationsAreOfTheirVersion == Spec => []EvidenceIsOfItsVersion
<1>1. IInv => EvidenceIsOfItsVersion
  <2>1. SUFFICES ASSUME IInv, NEW i \in DOMAIN evaluations
                 PROVE  LET e == evaluations[i]
                        IN  /\ e.campaign # 0 => campaigns[e.campaign].version = e.version
                            /\ (e.campaign = 0 \/ campaigns[e.campaign].exercised = 0) =>
                                   e.scores.reliability = StaticReliability[versions[e.version]]
    BY DEF EvidenceIsOfItsVersion
  <2>2. Scored(evaluations[i], versions, campaigns, clock)
    BY <2>1 DEF IInv
  <2> QED
    BY <2>2 DEF Scored
<1> QED
  BY <1>1, Invariance, PTL

\* A gate run that passes rests on an evaluation, and what was evaluated, the version it is filed
\* under or an earlier one, keeps no secret and survived some of the failures it was exercised with
\* (services/quality.py 24-56, quality/engine.py 14-113).
THEOREM PassesAreEarned == Spec => []PassIsEarned
<1>1. IInv => PassIsEarned
  <2>1. SUFFICES ASSUME IInv, gate # None, gate[1].passed
                 PROVE  /\ gate[1].evaluation # 0
                        /\ LET e == evaluations[gate[1].evaluation]
                           IN  /\ e.version <= gate[1].version
                               /\ \A n \in versions[e.version].nodes : n.secrets \cup n.leaks = {}
                               /\ (e.campaign # 0 /\ campaigns[e.campaign].exercised > 0) =>
                                      campaigns[e.campaign].handled > 0
    BY DEF PassIsEarned
  <2> DEFINE i == gate[1].evaluation
             e == evaluations[i]
  <2>2. /\ i \in DOMAIN evaluations /\ e.version <= gate[1].version
        /\ e.criticals = 0 /\ e.scores.reliability >= 75
    BY <2>1 DEF IInv, GateHolds
  <2>3. i # 0
    <3>1. PICK S : evaluations \in Seq(S)
      BY <2>1 DEF IInv, Sequence
    <3>2. DOMAIN evaluations = 1 .. Len(evaluations)
      BY <3>1
    <3> HIDE DEF i
    <3> QED
      BY <2>2, <3>2
  <2>4. Scored(e, versions, campaigns, clock)
    BY <2>1, <2>2 DEF IInv
  <2> HIDE DEF e, i
  <2>5. \A n \in versions[e.version].nodes : n.secrets \cup n.leaks = {}
    BY <2>2, <2>4 DEF Scored
  <2>6. ASSUME e.campaign # 0, campaigns[e.campaign].exercised > 0
        PROVE  campaigns[e.campaign].handled > 0
    <3>1. Measured(campaigns[e.campaign], versions, clock)
      BY <2>1, <2>4, <2>6 DEF IInv, Scored
    <3>2. campaigns[e.campaign].exercised # 0 /\ campaigns[e.campaign].handled \in Nat
      BY <2>6, <3>1 DEF Measured
    <3>3. campaigns[e.campaign].handled # 0
      BY <2>2, <2>4, <2>6, <3>2 DEF Scored
    <3> QED
      BY <3>2, <3>3
  <2> QED
    BY <2>2, <2>3, <2>5, <2>6 DEF e, i
<1> QED
  BY <1>1, Invariance, PTL

\* A campaign counts every case once, by the first of its runs that told anything, and its score is
\* 100 exactly if there is nothing to report, up to rounding (fuzzing/engine.py 56-154,
\* fuzzing/scoring.py 22-165).
THEOREM CampaignsCountEveryCase == Spec => []CampaignsAddUp
<1>1. IInv => CampaignsAddUp
  <2>1. SUFFICES ASSUME IInv, NEW r \in Request, request[r].op = "fuzz",
                        Len(request[r].results) = request[r].cases
                 PROVE  LET q == request[r]
                            report == Report(q)
                            Heard(S) == Cardinality({i \in DOMAIN q.results : q.results[i].heard \in S})
                        IN  /\ q.cases >= MaxCases
                            /\ report.exercised = Heard(Verdicts \ {"NOT_TRIGGERED"})
                            /\ report.handled = Heard({"HANDLED"})
                            /\ q.cases < 200 => (report.robustness = 100 <=> report.findings = {})
    BY DEF CampaignsAddUp
  <2> DEFINE q == request[r]
             results == q.results
             others == {i \in DOMAIN results : results[i].heard \in Verdicts \ {"NOT_TRIGGERED"}}
             handled == {i \in DOMAIN results : results[i].heard \in {"HANDLED"}}
  <2>2. results \in Seq(CaseResult) /\ q.cases \in Nat /\ MaxCases <= q.cases
    BY <2>1, FuzzIsUnderway
  <2>3. \A i \in DOMAIN results : results[i].verdict \in Verdicts /\ results[i].heard = results[i].verdict
    <3> HIDE DEF results
    <3>1. \A i \in DOMAIN results : results[i] \in CaseResult
      BY <2>2
    <3> QED
      BY <3>1 DEF CaseResult
  <2>4. /\ Report(q).exercised = Exercised(results) /\ Report(q).handled = Count(results, "HANDLED")
        /\ Report(q).robustness = robustness_score(results)
        /\ Report(q).findings = fuzz_findings(results)
    BY DEF Report
  <2>5. Len(results) = q.cases
    BY <2>1
  <2>6. q.cases >= MaxCases
    BY <2>2, AssessmentAssumption
  <2> HIDE DEF q, results
  <2>7. Exercised(results) = Cardinality(others)
    <3>1. others = {i \in DOMAIN results : results[i].verdict # "NOT_TRIGGERED"}
      BY <2>3
    <3> HIDE DEF others
    <3> QED
      BY <2>2, <3>1, CountsAreNumbers
  <2>8. Count(results, "HANDLED") = Cardinality(handled)
    <3>1. handled = {i \in DOMAIN results : results[i].verdict = "HANDLED"}
      BY <2>3
    <3> HIDE DEF handled
    <3> QED
      BY <3>1 DEF Count
  <2>9. q.cases < 200 => (robustness_score(results) = 100 <=> fuzz_findings(results) = {})
    BY <2>2, <2>5, CampaignScores
  <2> QED
    BY <2>4, <2>6, <2>7, <2>8, <2>9 DEF q, results
<1> QED
  BY <1>1, Invariance, PTL

\* The overall score of an evaluation is between its worst dimension and its best, whether or
\* not the coverage of its tests was measured (scoring.py 80-118, 219-231).
THEOREM OverallScoresAreMeans == Spec => []OverallIsAMean
<1>1. IInv => OverallIsAMean
  BY DEF IInv, Scored, InBetween, OverallIsAMean
<1> QED
  BY <1>1, Invariance, PTL
-----------------------------------------------------------------------------
(***************************************************************************)
(* Size.                                                                    *)
(***************************************************************************)

\* Two lists of findings of the same rules each of which takes the same from either.
SameCosts(F, G) == WellFormed(F) /\ WellFormed(G) /\ Rules(F) = Rules(G) /\ Taken(F) = Taken(G)

\* They leave the same score.
LEMMA SameScore ==
    ASSUME NEW F, NEW G, SameCosts(F, G)
    PROVE  DimensionScore(F) = DimensionScore(G)
<1>1. PICK one : /\ AddsUp(one, Rules(F), Taken(F), AnyOf(Rules(F)))
                 /\ DimensionPenalty(F) = Round(one[Rules(F)], Unit)
  BY PenaltyIsASum DEF SameCosts
<1>2. PICK other : /\ AddsUp(other, Rules(F), Taken(F), AnyOf(Rules(F)))
                   /\ DimensionPenalty(G) = Round(other[Rules(F)], Unit)
  BY PenaltyIsASum DEF SameCosts
<1>3. one[Rules(F)] = other[Rules(F)]
  BY <1>1, <1>2, PenaltyIsASum, SumsAgree DEF SameCosts
<1> QED
  BY <1>1, <1>2, <1>3 DEF DimensionScore

\* Lists about different rules may be put together.
LEMMA SameCostsUnion ==
    ASSUME NEW F1, NEW G1, SameCosts(F1, G1), NEW F2, NEW G2, SameCosts(F2, G2),
           Rules(F1) \cap Rules(F2) = {}
    PROVE  SameCosts(F1 \cup F2, G1 \cup G2) /\ Rules(F1 \cup F2) = Rules(F1) \cup Rules(F2)
<1>1. WellFormed(F1 \cup F2) /\ WellFormed(G1 \cup G2)
  BY WellFormedUnion DEF SameCosts
<1>2. Rules(F1 \cup F2) = Rules(F1) \cup Rules(F2) /\ Rules(G1 \cup G2) = Rules(F1) \cup Rules(F2)
  BY DEF Rules, SameCosts
<1>3. ASSUME NEW rule \in Rules(F1)
      PROVE  /\ FindingsOf(F1 \cup F2, rule) = FindingsOf(F1, rule)
             /\ FindingsOf(G1 \cup G2, rule) = FindingsOf(G1, rule)
  BY <1>3 DEF Rules, FindingsOf, SameCosts
<1>4. ASSUME NEW rule \in Rules(F2)
      PROVE  /\ FindingsOf(F1 \cup F2, rule) = FindingsOf(F2, rule)
             /\ FindingsOf(G1 \cup G2, rule) = FindingsOf(G2, rule)
  BY <1>4 DEF Rules, FindingsOf, SameCosts
<1>5. /\ \A rule \in Rules(F1) : Contribution(rule, FindingsOf(F1, rule)) = Contribution(rule, FindingsOf(G1, rule))
      /\ \A rule \in Rules(F2) : Contribution(rule, FindingsOf(F2, rule)) = Contribution(rule, FindingsOf(G2, rule))
  BY DEF SameCosts, Taken
<1>6. \A rule \in Rules(F1) \cup Rules(F2) :
          Contribution(rule, FindingsOf(F1 \cup F2, rule)) = Contribution(rule, FindingsOf(G1 \cup G2, rule))
  BY <1>3, <1>4, <1>5
<1>7. Taken(F1 \cup F2) = Taken(G1 \cup G2)
  BY <1>2, <1>6 DEF Taken
<1> QED
  BY <1>1, <1>2, <1>7 DEF SameCosts

\* Twice as many findings in twice the population take the same (scoring.py 159-171).
LEMMA SameShare ==
    ASSUME NEW rule, NEW F, F # {}, NEW G, G # {}, NEW n \in Nat, Cardinality(F) = n,
           Cardinality(G) = 2 * n, NEW p \in Nat \ {0}, Unit % (2 * p) = 0,
           \A f \in F : f.population = p, \A g \in G : g.population = 2 * p
    PROVE  Contribution(rule, F) = Contribution(rule, G)
<1> DEFINE budget == RULE_BUDGETS(rule)
           Most(X) == (CHOOSE f \in X : \A g \in X : g.population <= f.population).population
<1>1. budget \in Nat
  BY DEF RULE_BUDGETS, DEFAULT_RULE_BUDGET
<1>2. Most(F) = p
  <2>1. \E f \in F : \A g \in F : g.population <= f.population
    OBVIOUS
  <2>2. (CHOOSE f \in F : \A g \in F : g.population <= f.population) \in F
    BY <2>1
  <2> QED
    BY <2>2
<1>3. Most(G) = 2 * p
  <2>1. \E f \in G : \A g \in G : g.population <= f.population
    OBVIOUS
  <2>2. (CHOOSE f \in G : \A g \in G : g.population <= f.population) \in G
    BY <2>1
  <2> QED
    BY <2>2
<1>4. Contribution(rule, F) = AtMost((Unit \div p) * budget * n, Unit * budget)
  BY <1>2 DEF Contribution
<1>5. Contribution(rule, G) = AtMost((Unit \div (2 * p)) * budget * (2 * n), Unit * budget)
  BY <1>3 DEF Contribution
<1> HIDE DEF budget
<1> DEFINE k == Unit \div (2 * p)
<1>6. k \in Nat /\ Unit = (2 * p) * k
  <2> DEFINE d == 2 * p
  <2>1. d \in Nat \ {0} /\ Unit % d = 0
    OBVIOUS
  <2> HIDE DEF d
  <2>2. Unit \div d \in Nat /\ Unit = d * (Unit \div d) + (Unit % d)
    BY <2>1, Division, UnitAssumption
  <2>3. Unit = d * (Unit \div d)
    BY <2>1, <2>2
  <2> QED
    BY <2>2, <2>3 DEF d
<1> HIDE DEF k
<1>7. Unit = p * (2 * k) /\ 2 * k \in Nat
  BY <1>6
<1>8. Unit \div p = 2 * k
  <2> DEFINE m == 2 * k
             q == Unit \div p
             r == Unit % p
  <2>1. q \in Nat /\ r \in 0 .. (p - 1) /\ Unit = p * q + r
    BY Division, UnitAssumption
  <2>2. m \in Nat /\ Unit = p * m
    BY <1>7
  <2> HIDE DEF m, q, r
  <2>3. ~ (q + 1 <= m)
    <3>1. SUFFICES ASSUME q + 1 <= m PROVE FALSE
      OBVIOUS
    <3>2. (q + 1) * p <= m * p
      BY <2>1, <2>2, <3>1, TimesKeepsOrder
    <3>3. (q + 1) * p = p * q + p /\ m * p = p * m /\ p * q \in Nat
      BY <2>1, <2>2
    <3> QED
      BY <2>1, <2>2, <3>2, <3>3
  <2>4. ~ (m + 1 <= q)
    <3>1. SUFFICES ASSUME m + 1 <= q PROVE FALSE
      OBVIOUS
    <3>2. (m + 1) * p <= q * p
      BY <2>1, <2>2, <3>1, TimesKeepsOrder
    <3>3. (m + 1) * p = p * m + p /\ q * p = p * q /\ p * q \in Nat /\ p * m \in Nat
      BY <2>1, <2>2
    <3> QED
      BY <2>1, <2>2, <3>2, <3>3
  <2>5. q = m
    BY <2>1, <2>2, <2>3, <2>4
  <2> QED
    BY <2>5 DEF q, m
<1>9. (Unit \div p) * budget * n = k * budget * (2 * n)
  <2>1. (2 * k) * budget * n = k * budget * (2 * n)
    BY <1>1, <1>6
  <2> QED
    BY <1>8, <2>1
<1> QED
  BY <1>4, <1>5, <1>9 DEF k
\* A finding for each of some places.
AtEach(rule, severity, P, population) == {Found(rule, severity, place, population) : place \in P}

\* Findings at twice as many places in twice the population.
LEMMA RuleDoubles ==
    ASSUME NEW rule, NEW severity \in Severities, NEW P, IsFiniteSet(P), NEW Q, IsFiniteSet(Q),
           Cardinality(Q) = 2 * Cardinality(P), NEW p \in Nat,
           P # {} => p # 0 /\ Unit % (2 * p) = 0
    PROVE  /\ SameCosts(AtEach(rule, severity, P, p), AtEach(rule, severity, Q, 2 * p))
           /\ Rules(AtEach(rule, severity, P, p)) \subseteq {rule}
<1> DEFINE F == {Found(rule, severity, place, p) : place \in P}
           G == {Found(rule, severity, place, 2 * p) : place \in Q}
<1>0. AtEach(rule, severity, P, p) = F /\ AtEach(rule, severity, Q, 2 * p) = G
  BY DEF AtEach
<1>1. WellFormed(F) /\ WellFormed(G)
  <2> DEFINE same == [x \in P \cup Q |-> x]
             single == p
             double == 2 * p
  <2>1. F = {Found(rule, severity, same[x], single) : x \in P} /\ single \in Nat
    OBVIOUS
  <2>2. G = {Found(rule, severity, same[x], double) : x \in Q} /\ double \in Nat
    OBVIOUS
  <2> HIDE DEF same, single, double
  <2>3. severity \in Severities /\ IsFiniteSet(P) /\ IsFiniteSet(Q)
    OBVIOUS
  <2>4. WellFormed({Found(rule, severity, same[x], single) : x \in P})
    BY ONLY <2>1, <2>3, WellFormedPerNode
  <2>5. WellFormed({Found(rule, severity, same[x], double) : x \in Q})
    BY ONLY <2>2, <2>3, WellFormedPerNode
  <2> QED
    BY ONLY <2>1, <2>2, <2>4, <2>5
<1>2. Rules(F) \subseteq {rule} /\ Rules(G) \subseteq {rule}
  BY DEF Rules, Found
<1>3. ASSUME P = {} PROVE SameCosts(F, G)
  <2>1. Cardinality(Q) = 0
    BY <1>3, FS_EmptySet
  <2>2. Q = {}
    BY <2>1, FS_EmptySet
  <2>3. F = {} /\ G = {}
    BY <1>3, <2>2
  <2> QED
    BY <1>1, <1>2, <2>3 DEF SameCosts
<1>4. ASSUME P # {} PROVE SameCosts(F, G)
  <2>1. Cardinality(P) \in Nat /\ Cardinality(P) # 0 /\ Cardinality(Q) \in Nat
    BY <1>4, FS_CardinalityType, FS_EmptySet
  <2>2. Q # {}
    BY <2>1, FS_EmptySet
  <2>3. F # {} /\ G # {} /\ Rules(F) = {rule} /\ Rules(G) = {rule}
    <3>1. PICK x \in P, y \in Q : TRUE
      BY <1>4, <2>2
    <3>2. Found(rule, severity, x, p) \in F /\ Found(rule, severity, y, 2 * p) \in G
      OBVIOUS
    <3>3. Rules(F) # {} /\ Rules(G) # {}
      BY <3>2 DEF Rules
    <3> QED
      BY <1>2, <3>2, <3>3
  <2>4. FindingsOf(F, rule) = F /\ FindingsOf(G, rule) = G
    BY DEF FindingsOf, Found
  <2>5. Cardinality(F) = Cardinality(P)
    <3> DEFINE h == [x \in P |-> Found(rule, severity, x, p)]
    <3>1. h \in [P -> F] /\ (\A a, b \in P : h[a] = h[b] => a = b) /\ \A f \in F : \E x \in P : h[x] = f
      BY DEF Found
    <3> HIDE DEF h
    <3>2. h \in Bijection(P, F)
      BY <3>1, Fun_IsBij
    <3> QED
      BY <3>2, FS_Bijection DEF ExistsBijection
  <2>6. Cardinality(G) = Cardinality(Q)
    <3> DEFINE h == [x \in Q |-> Found(rule, severity, x, 2 * p)]
    <3>1. h \in [Q -> G] /\ (\A a, b \in Q : h[a] = h[b] => a = b) /\ \A f \in G : \E x \in Q : h[x] = f
      BY DEF Found
    <3> HIDE DEF h
    <3>2. h \in Bijection(Q, G)
      BY <3>1, Fun_IsBij
    <3> QED
      BY <3>2, FS_Bijection DEF ExistsBijection
  <2>7. (\A f \in F : f.population = p) /\ (\A g \in G : g.population = 2 * p)
    BY DEF Found
  <2>8. p \in Nat \ {0} /\ Unit % (2 * p) = 0
    BY <1>4
  <2>9. Contribution(rule, F) = Contribution(rule, G)
    <3> DEFINE n == Cardinality(P)
    <3>1. n \in Nat /\ Cardinality(F) = n /\ Cardinality(G) = 2 * n
      BY <2>1, <2>5, <2>6
    <3> HIDE DEF n
    <3> QED
      BY <2>3, <2>7, <2>8, <3>1, SameShare
  <2> QED
    BY <1>1, <2>3, <2>4, <2>9 DEF SameCosts, Taken
<1> QED
  BY ONLY <1>0, <1>2, <1>3, <1>4

\* Two distinct things for each of finitely many are twice as many.
LEMMA TwoOfEach ==
    ASSUME NEW P, IsFiniteSet(P), NEW Q, NEW h \in [{1, 2} \X P -> Q],
           \A a, b \in {1, 2} \X P : h[a] = h[b] => a = b,
           \A q \in Q : \E a \in {1, 2} \X P : h[a] = q
    PROVE  IsFiniteSet(Q) /\ Cardinality(Q) = 2 * Cardinality(P)
<1>1. IsFiniteSet({1, 2}) /\ Cardinality({1, 2}) = 2
  <2>1. IsFiniteSet({1}) /\ Cardinality({1}) = 1
    BY FS_Singleton
  <2>2. {1, 2} = {1} \cup {2} /\ 2 \notin {1}
    OBVIOUS
  <2> DEFINE one == {1}
             two == 2
  <2>3. IsFiniteSet(one) /\ Cardinality(one) = 1 /\ two \notin one
    BY <2>1
  <2> HIDE DEF one, two
  <2>4. IsFiniteSet(one \cup {two}) /\ Cardinality(one \cup {two}) = 2
    BY <2>3, FS_AddElement
  <2> QED
    BY <2>2, <2>4 DEF one, two
<1>2. IsFiniteSet({1, 2} \X P) /\ Cardinality({1, 2} \X P) = 2 * Cardinality(P)
  BY <1>1, FS_Product
<1>3. h \in Bijection({1, 2} \X P, Q)
  BY Fun_IsBij
<1> QED
  BY <1>2, <1>3, FS_Bijection DEF ExistsBijection

\* A node of a copy, and an edge.
CopyOf(i, n) == [n EXCEPT !.id = << i, @ >>]
EdgeOf(i, e) == [e EXCEPT !.source = << i, @ >>, !.target = << i, @ >>]

\* The copies of some nodes.
Copies(S) == {CopyOf(i, n) : i \in {1, 2}, n \in S}

\* What a workflow and its copy side by side are made of.
LEMMA TwiceConsists ==
    ASSUME NEW wf \in Workflow
    PROVE  /\ Twice(wf).nodes = Copies(wf.nodes)
           /\ Twice(wf).edges = {EdgeOf(i, e) : i \in {1, 2}, e \in wf.edges}
           /\ Twice(wf).sensitive = wf.sensitive
<1> DEFINE N == {[n EXCEPT !.id = << 1, @ >>] : n \in wf.nodes} \cup {[n EXCEPT !.id = << 2, @ >>] : n \in wf.nodes}
           E == {[e EXCEPT !.source = << 1, @ >>, !.target = << 1, @ >>] : e \in wf.edges}
                    \cup {[e EXCEPT !.source = << 2, @ >>, !.target = << 2, @ >>] : e \in wf.edges}
<1>1. Twice(wf) = [wf EXCEPT !.nodes = N, !.edges = E]
  BY DEF Twice
<1>2. N = Copies(wf.nodes)
  BY DEF Copies, CopyOf
<1>3. E = {EdgeOf(i, e) : i \in {1, 2}, e \in wf.edges}
  BY DEF EdgeOf
<1>4. {"nodes", "edges", "sensitive"} \subseteq DOMAIN wf
  BY RecordAssumption
<1> HIDE DEF N, E
<1>5. [wf EXCEPT !.nodes = N, !.edges = E].nodes = N /\ [wf EXCEPT !.nodes = N, !.edges = E].edges = E
      /\ [wf EXCEPT !.nodes = N, !.edges = E].sensitive = wf.sensitive
  BY <1>4
<1> QED
  BY <1>1, <1>2, <1>3, <1>5

\* A copy differs in its id only.
LEMMA CopyDiffers ==
    ASSUME NEW wf \in Workflow, NEW n \in wf.nodes, NEW i \in {1, 2}
    PROVE  LET m == CopyOf(i, n)
           IN  /\ m.id = << i, n.id >> /\ m.type = n.type /\ m.timeout = n.timeout /\ m.retry = n.retry
               /\ m.auth = n.auth /\ m.http = n.http /\ m.secrets = n.secrets /\ m.leaks = n.leaks
BY RecordAssumption DEF CopyOf

LEMMA EdgeDiffers ==
    ASSUME NEW wf \in Workflow, NEW e \in wf.edges, NEW i \in {1, 2}
    PROVE  /\ EdgeOf(i, e).source = << i, e.source >> /\ EdgeOf(i, e).target = << i, e.target >>
           /\ EdgeOf(i, e).fails = e.fails
BY RecordAssumption DEF EdgeOf

\* Copies are told apart.
LEMMA CopiesDiffer ==
    ASSUME NEW wf \in Workflow, NEW n \in wf.nodes, NEW m \in wf.nodes, NEW i \in {1, 2}, NEW j \in {1, 2},
           CopyOf(i, n) = CopyOf(j, m)
    PROVE  i = j /\ n = m
<1>1. /\ n = [field \in DOMAIN n |-> n[field]] /\ m = [field \in DOMAIN m |-> m[field]]
      /\ "id" \in DOMAIN n /\ "id" \in DOMAIN m
  BY RecordAssumption
<1>2. << i, n.id >> = << j, m.id >>
  BY CopyDiffers
<1>3. /\ DOMAIN CopyOf(i, n) = DOMAIN n /\ DOMAIN CopyOf(j, m) = DOMAIN m
      /\ \A field \in DOMAIN n : field # "id" => CopyOf(i, n)[field] = n[field]
      /\ \A field \in DOMAIN m : field # "id" => CopyOf(j, m)[field] = m[field]
  BY <1>1 DEF CopyOf
<1>4. DOMAIN n = DOMAIN m /\ \A field \in DOMAIN n : n[field] = m[field]
  BY <1>2, <1>3
<1> QED
  BY <1>1, <1>2, <1>4
\* There are twice as many copies as nodes, of any kind, and their ids are twice as many.
LEMMA CopiesDouble ==
    ASSUME NEW wf \in Workflow, NEW S \in SUBSET wf.nodes
    PROVE  /\ IsFiniteSet(S) /\ IsFiniteSet(Copies(S)) /\ Cardinality(Copies(S)) = 2 * Cardinality(S)
           /\ IsFiniteSet({n.id : n \in S}) /\ IsFiniteSet({m.id : m \in Copies(S)})
           /\ Cardinality({m.id : m \in Copies(S)}) = 2 * Cardinality({n.id : n \in S})
<1>1. IsFiniteSet(S)
  BY NodesAreFinite
<1>2. IsFiniteSet(Copies(S)) /\ Cardinality(Copies(S)) = 2 * Cardinality(S)
  <2> DEFINE h == [a \in {1, 2} \X S |-> CopyOf(a[1], a[2])]
  <2>0. \A i \in {1, 2}, n \in S : CopyOf(i, n) \in Copies(S)
    BY DEF Copies
  <2>1. h \in [{1, 2} \X S -> Copies(S)]
    BY <2>0
  <2>3. ASSUME NEW q \in Copies(S) PROVE \E a \in {1, 2} \X S : h[a] = q
    <3>1. PICK i \in {1, 2}, n \in S : q = CopyOf(i, n)
      BY DEF Copies
    <3>2. << i, n >> \in {1, 2} \X S /\ h[<< i, n >>] = q
      BY <3>1
    <3> QED
      BY <3>2
  <2>2. ASSUME NEW a \in {1, 2} \X S, NEW b \in {1, 2} \X S, h[a] = h[b] PROVE a = b
    <3>1. /\ a = << a[1], a[2] >> /\ a[1] \in {1, 2} /\ a[2] \in wf.nodes
          /\ b = << b[1], b[2] >> /\ b[1] \in {1, 2} /\ b[2] \in wf.nodes
          /\ CopyOf(a[1], a[2]) = CopyOf(b[1], b[2])
      BY <2>2
    <3>2. a[1] = b[1] /\ a[2] = b[2]
      BY <3>1, CopiesDiffer
    <3> QED
      BY <3>1, <3>2
  <2> HIDE DEF h
  <2> QED
    BY <1>1, <2>1, <2>2, <2>3, TwoOfEach
<1> DEFINE id == [n \in S |-> n.id]
           P == {n.id : n \in S}
           Q == {m.id : m \in Copies(S)}
<1>3. P = {id[n] : n \in S}
  OBVIOUS
<1>4. IsFiniteSet(P)
  <2> HIDE DEF id, P
  <2> QED
    BY <1>1, <1>3, FiniteImage
<1>5. \A i \in {1, 2}, n \in S : CopyOf(i, n) \in Copies(S) /\ CopyOf(i, n).id = << i, n.id >>
  BY CopyDiffers DEF Copies
<1>6. Q = {1, 2} \X P
  <2>1. ASSUME NEW m \in Copies(S) PROVE m.id \in {1, 2} \X P
    <3>1. PICK i \in {1, 2}, n \in S : m = CopyOf(i, n)
      BY DEF Copies
    <3>2. n.id \in P /\ m.id = << i, n.id >>
      BY <1>5, <3>1
    <3> QED
      BY <3>2
  <2>2. ASSUME NEW i \in {1, 2}, NEW x \in P PROVE << i, x >> \in Q
    <3>1. PICK n \in S : x = n.id
      OBVIOUS
    <3> QED
      BY <1>5, <3>1
  <2> QED
    BY <2>1, <2>2
<1>7. IsFiniteSet(Q) /\ Cardinality(Q) = 2 * Cardinality(P)
  <2> DEFINE h == [a \in {1, 2} \X P |-> a]
  <2>1. /\ h \in [{1, 2} \X P -> Q] /\ \A q \in Q : \E a \in {1, 2} \X P : h[a] = q
        /\ \A a, b \in {1, 2} \X P : h[a] = h[b] => a = b
    <3> HIDE DEF P, Q
    <3> QED
      BY <1>6
  <2> HIDE DEF h, P, Q
  <2> QED
    BY <1>4, <2>1, TwoOfEach
<1> QED
  BY <1>1, <1>2, <1>4, <1>7

\* The calls of two copies are the copies of the calls.
LEMMA KindsDouble ==
    ASSUME NEW wf \in Workflow
    PROVE  /\ External(Twice(wf)) = Copies(External(wf)) /\ Llm(Twice(wf)) = Copies(Llm(wf))
           /\ Dependent(Twice(wf)) = Copies(Dependent(wf))
<1>1. ASSUME NEW type
      PROVE  {m \in Twice(wf).nodes : m.type = type} = Copies({n \in wf.nodes : n.type = type})
  BY TwiceConsists, CopyDiffers DEF Copies
<1>2. \A S, T : Copies(S \cup T) = Copies(S) \cup Copies(T)
  BY DEF Copies
<1>3. External(Twice(wf)) = Copies(External(wf)) /\ Llm(Twice(wf)) = Copies(Llm(wf))
  <2>1. /\ {m \in Twice(wf).nodes : m.type = "external_api"} = Copies({n \in wf.nodes : n.type = "external_api"})
        /\ {m \in Twice(wf).nodes : m.type = "llm"} = Copies({n \in wf.nodes : n.type = "llm"})
    BY <1>1
  <2> QED
    BY <2>1 DEF External, Llm
<1>4. {m \in Twice(wf).nodes : m.type = "database"} = Copies({n \in wf.nodes : n.type = "database"})
  BY <1>1
<1> DEFINE base == {n \in wf.nodes : n.type = "database"}
<1>5. Copies(Dependent(wf)) = (Copies(External(wf)) \cup Copies(Llm(wf))) \cup Copies(base)
  <2>1. Dependent(wf) = (External(wf) \cup Llm(wf)) \cup base
    BY DEF Dependent
  <2> HIDE DEF base
  <2>2. Copies((External(wf) \cup Llm(wf)) \cup base) = Copies(External(wf) \cup Llm(wf)) \cup Copies(base)
    BY ONLY <1>2
  <2>3. Copies(External(wf) \cup Llm(wf)) = Copies(External(wf)) \cup Copies(Llm(wf))
    BY ONLY <1>2
  <2> QED
    BY ONLY <2>1, <2>2, <2>3
<1>6. Dependent(Twice(wf)) = (External(Twice(wf)) \cup Llm(Twice(wf))) \cup Copies(base)
  BY <1>4 DEF Dependent
<1> HIDE DEF base
<1> QED
  BY ONLY <1>3, <1>5, <1>6

\* A finding for each of some nodes.
OfEach(rule, severity, S, population) == {Found(rule, severity, n.id, population) : n \in S}

\* A rule with a finding for each of some nodes, in a population of nodes.
LEMMA IdRuleDoubles ==
    ASSUME NEW wf \in Workflow, NEW rule, NEW severity \in Severities,
           NEW T \in {wf.nodes, External(wf), Llm(wf), Dependent(wf)}, NEW S \in SUBSET T
    PROVE  /\ SameCosts(OfEach(rule, severity, S, Cardinality(T)),
                        OfEach(rule, severity, Copies(S), Cardinality(Copies(T))))
           /\ Rules(OfEach(rule, severity, S, Cardinality(T))) \subseteq {rule}
<1> DEFINE P == {n.id : n \in S}
           Q == {m.id : m \in Copies(S)}
           p == Cardinality(T)
           F == {Found(rule, severity, n.id, Cardinality(T)) : n \in S}
           G == {Found(rule, severity, m.id, Cardinality(Copies(T))) : m \in Copies(S)}
<1>1. T \in SUBSET wf.nodes /\ S \in SUBSET wf.nodes
  BY NodesAreFinite
<1>2. /\ IsFiniteSet(T) /\ p \in Nat /\ Cardinality(Copies(T)) = 2 * p
      /\ IsFiniteSet(P) /\ IsFiniteSet(Q) /\ Cardinality(Q) = 2 * Cardinality(P)
  BY <1>1, CopiesDouble, FS_CardinalityType
<1>3. P # {} => p # 0 /\ Unit % (2 * p) = 0
  <2>1. SUFFICES ASSUME P # {} PROVE p # 0 /\ Unit % (2 * p) = 0
    OBVIOUS
  <2>2. T # {}
    BY <2>1
  <2> QED
    BY <1>2, <2>2, ShareAssumption, FS_EmptySet
<1>4. F = AtEach(rule, severity, P, p)
  BY DEF AtEach
<1>5. G = AtEach(rule, severity, Q, 2 * p)
  BY <1>2 DEF AtEach
<1> HIDE DEF P, Q, p, F, G
<1>6. SameCosts(F, G) /\ Rules(F) \subseteq {rule}
  <2>1. severity \in Severities
    OBVIOUS
  <2> QED
    BY ONLY <1>2, <1>3, <1>4, <1>5, <2>1, RuleDoubles
<1> QED
  BY <1>6 DEF F, G, OfEach
\* A list costs what it costs.
LEMMA SameAsItself ==
    ASSUME NEW F, WellFormed(F)
    PROVE  SameCosts(F, F)
BY DEF SameCosts

\* What tells nodes apart tells their copies apart.
LEMMA CopiesSelect ==
    ASSUME NEW wf \in Workflow, NEW S \in SUBSET wf.nodes
    PROVE  /\ {m \in Copies(S) : m.timeout} = Copies({n \in S : n.timeout})
           /\ {m \in Copies(S) : m.retry} = Copies({n \in S : n.retry})
           /\ {m \in Copies(S) : m.auth} = Copies({n \in S : n.auth})
           /\ {m \in Copies(S) : m.http} = Copies({n \in S : n.http})
           /\ \A D \in SUBSET S : Copies(S) \ Copies(D) = Copies(S \ D)
<1>1. \A i \in {1, 2}, n \in S :
          /\ CopyOf(i, n).timeout = n.timeout /\ CopyOf(i, n).retry = n.retry
          /\ CopyOf(i, n).auth = n.auth /\ CopyOf(i, n).http = n.http
  BY CopyDiffers
<1>2. \A i, j \in {1, 2} : \A n, m \in S : CopyOf(i, n) = CopyOf(j, m) => n = m
  BY CopiesDiffer
<1> QED
  BY <1>1, <1>2 DEF Copies

\* The rules about a field of the calls: each that lacks it, or one advice.
LEMMA FieldRuleDoubles ==
    ASSUME NEW wf \in Workflow, NEW rule, NEW D \in SUBSET External(wf)
    PROVE  /\ SameCosts(FieldRule(wf, rule, D), FieldRule(Twice(wf), rule, Copies(D)))
           /\ Rules(FieldRule(wf, rule, D)) \subseteq {rule}
<1> DEFINE calls == External(wf)
           F == FieldRule(wf, rule, D)
           G == FieldRule(Twice(wf), rule, Copies(D))
<1>1. External(Twice(wf)) = Copies(calls) /\ calls \in SUBSET wf.nodes
  BY KindsDouble, NodesAreFinite
<1>2. Copies(calls) \ Copies(D) = Copies(calls \ D)
  BY <1>1, CopiesSelect
<1>3. \A S : S = {} <=> Copies(S) = {}
  BY DEF Copies
<1>4. CASE calls = {}
  <2>1. F = {} /\ G = {}
    BY <1>1, <1>3, <1>4 DEF FieldRule
  <2>2. Rules({}) = {}
    BY DEF Rules
  <2> QED
    BY <2>1, <2>2, WellFormedNone, SameAsItself
<1>5. CASE calls # {} /\ D = {}
  <2> DEFINE advice == {Found(rule, "INFO", "workflow", 0)}
  <2>1. F = advice /\ G = advice
    BY <1>1, <1>3, <1>5 DEF FieldRule
  <2>2. WellFormed(advice)
    BY WellFormedOne DEF Severities
  <2>3. Rules(advice) = {rule}
    BY DEF Rules, Found
  <2> QED
    BY <2>1, <2>2, <2>3, SameAsItself
<1>6. CASE calls # {} /\ D # {}
  <2> DEFINE X == OfEach(rule, "WARNING", calls \ D, Cardinality(calls))
             Y == OfEach(rule, "WARNING", Copies(calls \ D), Cardinality(Copies(calls)))
  <2>1. F = X
    BY <1>6 DEF FieldRule, OfEach
  <2>2. G = Y
    <3>1. External(Twice(wf)) # {} /\ Copies(D) # {}
      BY <1>1, <1>3, <1>6
    <3>2. G = {Found(rule, "WARNING", m.id, Cardinality(External(Twice(wf)))) :
                  m \in External(Twice(wf)) \ Copies(D)}
      BY <3>1 DEF FieldRule
    <3> HIDE DEF G, calls
    <3> QED
      BY <1>1, <1>2, <3>2 DEF OfEach
  <2>3. SameCosts(X, Y) /\ Rules(X) \subseteq {rule}
    <3>1. "WARNING" \in Severities /\ calls \ D \in SUBSET calls
      BY DEF Severities
    <3> QED
      BY <3>1, IdRuleDoubles
  <2> HIDE DEF F, G, X, Y
  <2> QED
    BY <2>1, <2>2, <2>3 DEF F, G
<1> QED
  BY <1>4, <1>5, <1>6

\* A copy has the same successors, and its failures are handled if those of the node are.
LEMMA CopiesAreWired ==
    ASSUME NEW wf \in Workflow, NEW n \in wf.nodes, NEW i \in {1, 2}
    PROVE  /\ FailureHandled(Twice(wf), CopyOf(i, n)) <=> FailureHandled(wf, n)
           /\ Cardinality({e.target : e \in {e \in Twice(wf).edges : e.source = CopyOf(i, n).id}})
                  = Cardinality({e.target : e \in {e \in wf.edges : e.source = n.id}})
<1>1. Twice(wf).edges = {EdgeOf(j, e) : j \in {1, 2}, e \in wf.edges} /\ CopyOf(i, n).id = << i, n.id >>
  BY TwiceConsists, CopyDiffers
<1>2. \A j \in {1, 2}, e \in wf.edges :
          /\ EdgeOf(j, e).source = << j, e.source >> /\ EdgeOf(j, e).target = << j, e.target >>
          /\ EdgeOf(j, e).fails = e.fails
  BY EdgeDiffers
<1>3. FailureHandled(Twice(wf), CopyOf(i, n)) <=> FailureHandled(wf, n)
  <2>1. ASSUME FailureHandled(wf, n) PROVE FailureHandled(Twice(wf), CopyOf(i, n))
    <3>1. PICK e \in wf.edges : e.fails /\ n.id \in {e.source, e.target}
      BY <2>1 DEF FailureHandled
    <3>2. EdgeOf(i, e) \in Twice(wf).edges
      BY <1>1
    <3>3. EdgeOf(i, e).fails /\ CopyOf(i, n).id \in {EdgeOf(i, e).source, EdgeOf(i, e).target}
      BY <1>1, <1>2, <3>1
    <3> QED
      BY <3>2, <3>3 DEF FailureHandled
  <2>2. ASSUME FailureHandled(Twice(wf), CopyOf(i, n)) PROVE FailureHandled(wf, n)
    <3>1. PICK j \in {1, 2}, e \in wf.edges :
              EdgeOf(j, e).fails /\ CopyOf(i, n).id \in {EdgeOf(j, e).source, EdgeOf(j, e).target}
      BY <1>1, <2>2 DEF FailureHandled
    <3>2. e.fails /\ << i, n.id >> \in {<< j, e.source >>, << j, e.target >>}
      BY <1>1, <1>2, <3>1
    <3> QED
      BY <3>2 DEF FailureHandled
  <2> QED
    BY <2>1, <2>2
<1> DEFINE P == {e.target : e \in {e \in wf.edges : e.source = n.id}}
           Q == {e.target : e \in {e \in Twice(wf).edges : e.source = CopyOf(i, n).id}}
           h == [x \in P |-> << i, x >>]
<1>4. IsFiniteSet(P)
  <2> DEFINE E == {e \in wf.edges : e.source = n.id}
             g == [e \in E |-> e.target]
  <2>1. E \in SUBSET wf.edges /\ P = {g[e] : e \in E}
    OBVIOUS
  <2>2. IsFiniteSet(E)
    BY <2>1, AssessmentAssumption, FS_Subset
  <2> HIDE DEF E, g, P
  <2> QED
    BY <2>1, <2>2, FiniteImage
<1>5. \A x : x \in P <=> << i, x >> \in Q
  <2>1. ASSUME NEW e \in wf.edges, e.source = n.id PROVE << i, e.target >> \in Q
    <3>1. /\ EdgeOf(i, e) \in Twice(wf).edges /\ EdgeOf(i, e).source = CopyOf(i, n).id
          /\ EdgeOf(i, e).target = << i, e.target >>
      BY <1>1, <1>2, <2>1
    <3> QED
      BY <3>1
  <2>2. ASSUME NEW x, << i, x >> \in Q PROVE x \in P
    <3>1. PICK j \in {1, 2}, e \in wf.edges :
              EdgeOf(j, e).source = CopyOf(i, n).id /\ EdgeOf(j, e).target = << i, x >>
      BY <1>1, <2>2
    <3>2. << j, e.source >> = << i, n.id >> /\ << j, e.target >> = << i, x >>
      BY <1>1, <1>2, <3>1
    <3> QED
      BY <3>2
  <2> QED
    BY <2>1, <2>2
<1>6. ASSUME NEW q \in Q PROVE \E x \in P : q = << i, x >>
  <2>1. PICK j \in {1, 2}, e \in wf.edges : EdgeOf(j, e).source = CopyOf(i, n).id /\ q = EdgeOf(j, e).target
    BY <1>1
  <2>2. << j, e.source >> = << i, n.id >> /\ q = << j, e.target >>
    BY <1>1, <1>2, <2>1
  <2> QED
    BY <2>2
<1>7. h \in [P -> Q] /\ (\A a, b \in P : h[a] = h[b] => a = b) /\ \A q \in Q : \E x \in P : h[x] = q
  <2> HIDE DEF P, Q
  <2> QED
    BY <1>5, <1>6
<1>8. Cardinality(Q) = Cardinality(P)
  <2> HIDE DEF P, Q, h
  <2>1. h \in Bijection(P, Q)
    BY <1>7, Fun_IsBij
  <2> QED
    BY <1>4, <2>1, FS_Bijection DEF ExistsBijection
<1> QED
  BY <1>3, <1>8
\* A rule with a finding for each key of each node (security.py 53-88).
LEMMA KeyRuleAt ==
    ASSUME NEW w, NEW rule, NEW keys
    PROVE  KeyRule(w, rule, keys)
               = AtEach(rule, "CRITICAL", UNION {{<< n.id, key >> : key \in keys[n]} : n \in w.nodes},
                        Cardinality(w.nodes))
<1> DEFINE P == UNION {{<< n.id, key >> : key \in keys[n]} : n \in w.nodes}
           p == Cardinality(w.nodes)
           F == KeyRule(w, rule, keys)
           H == AtEach(rule, "CRITICAL", P, p)
<1>1. ASSUME NEW f \in F PROVE f \in H
  <2>1. PICK n \in w.nodes : f \in {Found(rule, "CRITICAL", << n.id, key >>, p) : key \in keys[n]}
    BY DEF KeyRule
  <2>2. PICK key \in keys[n] : f = Found(rule, "CRITICAL", << n.id, key >>, p)
    BY <2>1
  <2>3. << n.id, key >> \in P
    OBVIOUS
  <2> HIDE DEF P, p, F
  <2> QED
    BY <2>2, <2>3 DEF AtEach
<1>2. ASSUME NEW f \in H PROVE f \in F
  <2>1. PICK place \in P : f = Found(rule, "CRITICAL", place, p)
    BY DEF AtEach
  <2>2. PICK n \in w.nodes : place \in {<< n.id, key >> : key \in keys[n]}
    OBVIOUS
  <2>3. PICK key \in keys[n] : place = << n.id, key >>
    BY <2>2
  <2>4. f \in {Found(rule, "CRITICAL", << n.id, key2 >>, p) : key2 \in keys[n]}
    BY <2>1, <2>3
  <2> QED
    BY <2>4 DEF KeyRule
<1> HIDE DEF F, H
<1>3. F = H
  BY <1>1, <1>2
<1> QED
  BY <1>3 DEF F, H

\* Such a rule in two copies.
LEMMA KeyRuleDoubles ==
    ASSUME NEW wf \in Workflow, NEW rule, NEW keys, \A n \in wf.nodes : IsFiniteSet(keys[n]),
           NEW others, \A i \in {1, 2}, n \in wf.nodes : others[CopyOf(i, n)] = keys[n]
    PROVE  /\ SameCosts(KeyRule(wf, rule, keys), KeyRule(Twice(wf), rule, others))
           /\ Rules(KeyRule(wf, rule, keys)) \subseteq {rule}
<1> DEFINE N == wf.nodes
           M == Copies(N)
           p == Cardinality(N)
           P == UNION {{<< n.id, key >> : key \in keys[n]} : n \in N}
           Q == UNION {{<< m.id, key >> : key \in others[m]} : m \in M}
           F == KeyRule(wf, rule, keys)
           G == KeyRule(Twice(wf), rule, others)
<1>1. M = Twice(wf).nodes /\ N \in SUBSET wf.nodes
  BY TwiceConsists
<1>2. p \in Nat /\ IsFiniteSet(N) /\ Cardinality(M) = 2 * p
  BY <1>1, CopiesDouble, FS_CardinalityType
<1>3. F = AtEach(rule, "CRITICAL", P, p)
  BY KeyRuleAt
<1>4. G = AtEach(rule, "CRITICAL", Q, 2 * p)
  <2>1. G = AtEach(rule, "CRITICAL", UNION {{<< m.id, key >> : key \in others[m]} : m \in Twice(wf).nodes},
                   Cardinality(Twice(wf).nodes))
    BY KeyRuleAt
  <2> QED
    BY ONLY <1>1, <1>2, <2>1
<1>5. IsFiniteSet(P)
  <2>1. WellFormed(F)
    BY KeyRuleWellFormed
  <2> DEFINE place == [f \in F |-> f.about]
  <2>2. P = {place[f] : f \in F}
    <3>1. \A x \in P : Found(rule, "CRITICAL", x, p) \in F /\ Found(rule, "CRITICAL", x, p).about = x
      BY <1>3 DEF AtEach, Found
    <3>2. \A f \in F : f.about \in P
      BY <1>3 DEF AtEach, Found
    <3> HIDE DEF F, P
    <3> QED
      BY <3>1, <3>2
  <2> HIDE DEF place, F, P
  <2> QED
    BY <2>1, <2>2, FiniteImage DEF WellFormed
<1>6. \A x : x \in P <=> \E n \in N : \E key \in keys[n] : x = << n.id, key >>
  OBVIOUS
<1>7. \A x : x \in Q <=> \E i \in {1, 2}, n \in N : \E key \in keys[n] : x = << << i, n.id >>, key >>
  <2>1. \A i \in {1, 2}, n \in N : CopyOf(i, n) \in M /\ CopyOf(i, n).id = << i, n.id >>
    BY CopyDiffers DEF Copies
  <2>2. \A m \in M : \E i \in {1, 2}, n \in N : m = CopyOf(i, n)
    BY DEF Copies
  <2>3. \A x : x \in Q <=> \E m \in M : \E key \in others[m] : x = << m.id, key >>
    OBVIOUS
  <2> HIDE DEF M, N, Q
  <2> QED
    BY <2>1, <2>2, <2>3 DEF N
<1>8. IsFiniteSet(Q) /\ Cardinality(Q) = 2 * Cardinality(P)
  <2> DEFINE h == [a \in {1, 2} \X P |-> << << a[1], a[2][1] >>, a[2][2] >>]
  <2>1. ASSUME NEW a \in {1, 2} \X P
        PROVE  /\ h[a] \in Q /\ a[2] = << a[2][1], a[2][2] >> /\ a = << a[1], a[2] >>
               /\ h[a] = << << a[1], a[2][1] >>, a[2][2] >>
    <3>1. PICK n \in N : \E key \in keys[n] : a[2] = << n.id, key >>
      BY <1>6
    <3>2. PICK key \in keys[n] : a[2] = << n.id, key >>
      BY <3>1
    <3>3. a[1] \in {1, 2} /\ h[a] = << << a[1], n.id >>, key >>
      BY <3>2
    <3> HIDE DEF N, P, Q, h
    <3> QED
      BY <1>7, <3>2, <3>3
  <2>2. ASSUME NEW q \in Q PROVE \E a \in {1, 2} \X P : h[a] = q
    <3>1. PICK i \in {1, 2}, n \in N : \E key \in keys[n] : q = << << i, n.id >>, key >>
      BY <1>7
    <3>2. PICK key \in keys[n] : q = << << i, n.id >>, key >>
      BY <3>1
    <3>3. << n.id, key >> \in P
      BY <1>6
    <3>4. << i, << n.id, key >> >> \in {1, 2} \X P
      BY <3>3
    <3>5. h[<< i, << n.id, key >> >>] = q
      BY <3>2, <3>4
    <3> QED
      BY <3>4, <3>5
  <2>3. h \in [{1, 2} \X P -> Q]
    BY <2>1
  <2>4. \A a, b \in {1, 2} \X P : h[a] = h[b] => a = b
    <3> HIDE DEF h, P, Q
    <3> QED
      BY <2>1
  <2> HIDE DEF h, P, Q
  <2> QED
    BY ONLY <1>5, <2>2, <2>3, <2>4, TwoOfEach
<1>9. P # {} => p # 0 /\ Unit % (2 * p) = 0
  <2>1. P # {} => N # {}
    OBVIOUS
  <2> QED
    BY <1>2, <2>1, ShareAssumption, FS_EmptySet
<1>10. "CRITICAL" \in Severities
  BY DEF Severities
<1> HIDE DEF F, G, P, Q, p
<1>11. SameCosts(F, G) /\ Rules(F) \subseteq {rule}
  BY ONLY <1>2, <1>3, <1>4, <1>5, <1>8, <1>9, <1>10, RuleDoubles
<1> QED
  BY <1>11 DEF F, G

\* The rules about single calls (reliability.py) cost two copies what they cost one workflow.
LEMMA CallRulesDouble ==
    ASSUME NEW wf \in Workflow
    PROVE  SameCosts(CallRules(wf), CallRules(Twice(wf)))
<1> DEFINE X == Twice(wf)
           E == External(wf)
           L == Llm(wf)
           D == Dependent(wf)
           Alone(w, n) == Cardinality({e.target : e \in {e \in w.edges : e.source = n.id}}) = 1
           timed == {n \in E : n.timeout}
           retried == {n \in E : n.retry}
           unhandled == {n \in L : ~ FailureHandled(wf, n)}
           alone == {n \in D : Alone(wf, n)}
<1>1. /\ E \in SUBSET wf.nodes /\ L \in SUBSET wf.nodes /\ D \in SUBSET wf.nodes
      /\ External(X) = Copies(E) /\ Llm(X) = Copies(L) /\ Dependent(X) = Copies(D)
  BY NodesAreFinite, KindsDouble
<1>2. {n \in External(X) : n.timeout} = Copies(timed) /\ {n \in External(X) : n.retry} = Copies(retried)
  BY <1>1, CopiesSelect
<1>3. {n \in Llm(X) : ~ FailureHandled(X, n)} = Copies(unhandled)
  <2>1. \A i \in {1, 2}, n \in L : FailureHandled(X, CopyOf(i, n)) <=> FailureHandled(wf, n)
    BY <1>1, CopiesAreWired
  <2> HIDE DEF X, L
  <2> QED
    BY <1>1, <2>1 DEF Copies
<1>4. {n \in Dependent(X) : Alone(X, n)} = Copies(alone)
  <2>1. \A i \in {1, 2}, n \in D : Alone(X, CopyOf(i, n)) <=> Alone(wf, n)
    BY <1>1, CopiesAreWired
  <2> HIDE DEF X, D, Alone
  <2> QED
    BY <1>1, <2>1 DEF Copies
<1> DEFINE A1 == FieldRule(wf, "WG-REL-001", timed)
           A2 == FieldRule(X, "WG-REL-001", Copies(timed))
           B1 == FieldRule(wf, "WG-REL-002", retried)
           B2 == FieldRule(X, "WG-REL-002", Copies(retried))
           C1 == OfEach("WG-REL-003", "WARNING", unhandled, Cardinality(L))
           C2 == OfEach("WG-REL-003", "WARNING", Copies(unhandled), Cardinality(Copies(L)))
           D1 == OfEach("WG-REL-004", "INFO", alone, Cardinality(D))
           D2 == OfEach("WG-REL-004", "INFO", Copies(alone), Cardinality(Copies(D)))
<1>5. CallRules(wf) = ((A1 \cup B1) \cup C1) \cup D1
  BY DEF CallRules, OfEach
<1>6. CallRules(X) = ((A2 \cup B2) \cup C2) \cup D2
  <2>1. CallRules(X) = ((FieldRule(X, "WG-REL-001", {n \in External(X) : n.timeout})
                             \cup FieldRule(X, "WG-REL-002", {n \in External(X) : n.retry}))
                            \cup OfEach("WG-REL-003", "WARNING", {n \in Llm(X) : ~ FailureHandled(X, n)},
                                        Cardinality(Llm(X))))
                           \cup OfEach("WG-REL-004", "INFO", {n \in Dependent(X) : Alone(X, n)},
                                       Cardinality(Dependent(X)))
    BY DEF CallRules, OfEach
  <2> HIDE DEF X, Alone, timed, retried, unhandled, alone, L, D
  <2> QED
    BY ONLY <1>1, <1>2, <1>3, <1>4, <2>1
<1>7. /\ SameCosts(A1, A2) /\ Rules(A1) \subseteq {"WG-REL-001"}
      /\ SameCosts(B1, B2) /\ Rules(B1) \subseteq {"WG-REL-002"}
  <2>1. timed \in SUBSET E /\ retried \in SUBSET E
    OBVIOUS
  <2> HIDE DEF timed, retried
  <2> QED
    BY <2>1, FieldRuleDoubles
<1>8. /\ SameCosts(C1, C2) /\ Rules(C1) \subseteq {"WG-REL-003"}
      /\ SameCosts(D1, D2) /\ Rules(D1) \subseteq {"WG-REL-004"}
  <2>1. unhandled \in SUBSET L /\ alone \in SUBSET D /\ "WARNING" \in Severities /\ "INFO" \in Severities
    BY DEF Severities
  <2> HIDE DEF unhandled, alone
  <2> QED
    BY <2>1, IdRuleDoubles
<1> HIDE DEF A1, A2, B1, B2, C1, C2, D1, D2
<1>9. SameCosts(A1 \cup B1, A2 \cup B2) /\ Rules(A1 \cup B1) = Rules(A1) \cup Rules(B1)
  BY <1>7, SameCostsUnion
<1>10. /\ SameCosts((A1 \cup B1) \cup C1, (A2 \cup B2) \cup C2)
       /\ Rules((A1 \cup B1) \cup C1) = (Rules(A1) \cup Rules(B1)) \cup Rules(C1)
  <2>1. Rules(A1 \cup B1) \cap Rules(C1) = {}
    BY ONLY <1>7, <1>8, <1>9
  <2> QED
    BY ONLY <1>8, <1>9, <2>1, SameCostsUnion
<1>11. SameCosts(((A1 \cup B1) \cup C1) \cup D1, ((A2 \cup B2) \cup C2) \cup D2)
  BY <1>7, <1>8, <1>10, SameCostsUnion
<1> QED
  BY ONLY <1>5, <1>6, <1>11

\* So do the rules of security.py.
LEMMA SecurityRulesDouble ==
    ASSUME NEW wf \in Workflow
    PROVE  SameCosts(SecurityRules(wf), SecurityRules(Twice(wf)))
<1> DEFINE X == Twice(wf)
           N == wf.nodes
           E == External(wf)
           L == Llm(wf)
           secrets == [n \in N |-> n.secrets]
           leaks == [n \in N |-> n.leaks \ n.secrets]
           secrets2 == [n \in X.nodes |-> n.secrets]
           leaks2 == [n \in X.nodes |-> n.leaks \ n.secrets]
           open == {n \in N : n.http}
           authed == {n \in E : n.auth}
           exposed == {n \in L : wf.sensitive}
<1>1. /\ E \in SUBSET N /\ L \in SUBSET N /\ X.nodes = Copies(N) /\ X.sensitive = wf.sensitive
      /\ External(X) = Copies(E) /\ Llm(X) = Copies(L)
  BY NodesAreFinite, KindsDouble, TwiceConsists
<1>2. {n \in X.nodes : n.http} = Copies(open) /\ {n \in External(X) : n.auth} = Copies(authed)
  BY <1>1, CopiesSelect
<1>3. {n \in Llm(X) : X.sensitive} = Copies(exposed)
  <2> HIDE DEF X, L
  <2> QED
    BY <1>1 DEF Copies
<1>4. ASSUME NEW n \in N PROVE IsFiniteSet(secrets[n]) /\ IsFiniteSet(leaks[n])
  <2>1. IsFiniteSet(n.secrets) /\ IsFiniteSet(n.leaks) /\ n.leaks \ n.secrets \in SUBSET n.leaks
    BY AssessmentAssumption
  <2> QED
    BY <2>1, FS_Subset
<1>5. ASSUME NEW i \in {1, 2}, NEW n \in N
      PROVE  secrets2[CopyOf(i, n)] = secrets[n] /\ leaks2[CopyOf(i, n)] = leaks[n]
  <2>1. CopyOf(i, n) \in X.nodes
    BY <1>1 DEF Copies
  <2>2. CopyOf(i, n).secrets = n.secrets /\ CopyOf(i, n).leaks = n.leaks
    BY CopyDiffers
  <2> QED
    BY <2>1, <2>2
<1> DEFINE A1 == KeyRule(wf, "WG-SEC-001", secrets)
           A2 == KeyRule(X, "WG-SEC-001", secrets2)
           B1 == KeyRule(wf, "WG-SEC-002", leaks)
           B2 == KeyRule(X, "WG-SEC-002", leaks2)
           C1 == OfEach("WG-SEC-003", "ERROR", open, Cardinality(N))
           C2 == OfEach("WG-SEC-003", "ERROR", Copies(open), Cardinality(Copies(N)))
           D1 == FieldRule(wf, "WG-SEC-004", authed)
           D2 == FieldRule(X, "WG-SEC-004", Copies(authed))
           E1 == OfEach("WG-SEC-005", "WARNING", exposed, Cardinality(L))
           E2 == OfEach("WG-SEC-005", "WARNING", Copies(exposed), Cardinality(Copies(L)))
<1>6. SecurityRules(wf) = (((A1 \cup B1) \cup C1) \cup D1) \cup E1
  BY DEF SecurityRules, OfEach
<1>7. SecurityRules(X) = (((A2 \cup B2) \cup C2) \cup D2) \cup E2
  <2>1. SecurityRules(X) =
            (((A2 \cup B2)
                \cup OfEach("WG-SEC-003", "ERROR", {n \in X.nodes : n.http}, Cardinality(X.nodes)))
                \cup FieldRule(X, "WG-SEC-004", {n \in External(X) : n.auth}))
                \cup OfEach("WG-SEC-005", "WARNING", {n \in Llm(X) : X.sensitive}, Cardinality(Llm(X)))
    BY DEF SecurityRules, OfEach
  <2> HIDE DEF X, N, L, A2, B2, open, authed, exposed
  <2> QED
    BY ONLY <1>1, <1>2, <1>3, <2>1
<1>8. /\ SameCosts(A1, A2) /\ Rules(A1) \subseteq {"WG-SEC-001"}
      /\ SameCosts(B1, B2) /\ Rules(B1) \subseteq {"WG-SEC-002"}
  <2> HIDE DEF secrets, leaks, secrets2, leaks2
  <2> QED
    BY <1>4, <1>5, KeyRuleDoubles
<1>9. SameCosts(D1, D2) /\ Rules(D1) \subseteq {"WG-SEC-004"}
  <2>1. authed \in SUBSET E
    OBVIOUS
  <2> HIDE DEF authed
  <2> QED
    BY <2>1, FieldRuleDoubles
<1>10. /\ SameCosts(C1, C2) /\ Rules(C1) \subseteq {"WG-SEC-003"}
       /\ SameCosts(E1, E2) /\ Rules(E1) \subseteq {"WG-SEC-005"}
  <2>1. open \in SUBSET N /\ exposed \in SUBSET L /\ "WARNING" \in Severities /\ "ERROR" \in Severities
    BY DEF Severities
  <2> HIDE DEF open, exposed
  <2> QED
    BY <2>1, IdRuleDoubles
<1> HIDE DEF A1, A2, B1, B2, C1, C2, D1, D2, E1, E2
<1>11. SameCosts(A1 \cup B1, A2 \cup B2) /\ Rules(A1 \cup B1) = Rules(A1) \cup Rules(B1)
  BY <1>8, SameCostsUnion
<1>12. /\ SameCosts((A1 \cup B1) \cup C1, (A2 \cup B2) \cup C2)
       /\ Rules((A1 \cup B1) \cup C1) = (Rules(A1) \cup Rules(B1)) \cup Rules(C1)
  <2>1. Rules(A1 \cup B1) \cap Rules(C1) = {}
    BY ONLY <1>8, <1>10, <1>11
  <2> QED
    BY ONLY <1>10, <1>11, <2>1, SameCostsUnion
<1>13. /\ SameCosts(((A1 \cup B1) \cup C1) \cup D1, ((A2 \cup B2) \cup C2) \cup D2)
       /\ Rules(((A1 \cup B1) \cup C1) \cup D1) = ((Rules(A1) \cup Rules(B1)) \cup Rules(C1)) \cup Rules(D1)
  <2>1. Rules((A1 \cup B1) \cup C1) \cap Rules(D1) = {}
    BY ONLY <1>8, <1>9, <1>10, <1>12
  <2> DEFINE all1 == (A1 \cup B1) \cup C1
             all2 == (A2 \cup B2) \cup C2
  <2>2. SameCosts(all1, all2) /\ Rules(all1) \cap Rules(D1) = {}
    BY <1>12, <2>1
  <2> HIDE DEF all1, all2
  <2>3. SameCosts(all1 \cup D1, all2 \cup D2) /\ Rules(all1 \cup D1) = Rules(all1) \cup Rules(D1)
    BY ONLY <1>9, <2>2, SameCostsUnion
  <2> QED
    BY <1>12, <2>3 DEF all1, all2
<1>14. SameCosts((((A1 \cup B1) \cup C1) \cup D1) \cup E1, (((A2 \cup B2) \cup C2) \cup D2) \cup E2)
  BY <1>8, <1>9, <1>10, <1>13, SameCostsUnion
<1> QED
  BY ONLY <1>6, <1>7, <1>14

\* Two copies of a workflow side by side score as one does, on the calls they make and on
\* security (scoring.py 159-171): what a rule takes depends on the share that fails it.
THEOREM SizeDoesNotCount == Spec => []SizeIsNoDefect
<1>1. ASSUME NEW wf \in Workflow PROVE wf \in IndifferentToSize
  BY CallRulesDouble, SecurityRulesDouble, SameScore DEF IndifferentToSize, PerCall, Security
<1>2. ASSUME IInv PROVE SizeIsNoDefect
  <2>1. versions[Current] \in Workflow
    BY <1>2, CurrentIsAVersion DEF IInv
  <2> QED
    BY <1>1, <2>1 DEF SizeIsNoDefect
<1> QED
  BY <1>2, Invariance, PTL
=============================================================================
