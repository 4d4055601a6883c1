------------------------------ MODULE Conditions ------------------------------
(***************************************************************************)
(* The language of edge conditions and its two readers: conditions.py, which *)
(* evaluates a condition, and analysis/reachability.py, which solves it with  *)
(* a parser of its own.                                                     *)
(*                                                                         *)
(* A condition is what both parsers start from: alternatives, each of them    *)
(* clauses in order, spelled with || and && or with the words or and and.     *)
(* A clause is a comparison of a field with a literal, one of the bare         *)
(* approval words, or a bare field.  No literal is the name of a field, and a   *)
(* comparison is written backwards only with a number or a boolean: neither     *)
(* reader can tell which of two texts is the field.                           *)
(***************************************************************************)
EXTENDS Integers, SequencesExt

CONSTANTS Field,      \* keys of the state that conditions read
          Approved,   \* the one the approval words read
          NameRank    \* where a field's name sorts among the texts

ASSUME FieldAssumption == Approved \in Field /\ NameRank \in [Field -> Nat]

\* Values, by kind; booleans are numbers in every comparison.
Bool(b) == [kind |-> "bool", v |-> IF b THEN 1 ELSE 0]
Num(n)  == [kind |-> "num", v |-> n]
Text(r) == [kind |-> "text", v |-> r]

IsNumber(x) == x.kind \in {"bool", "num"}

Operators == {"==", "!=", ">=", "<=", ">", "<"}

Comparison(field, op, value, flipped) ==
    [form |-> "comparison", field |-> field, op |-> op, value |-> value, flipped |-> flipped]
ApprovalFlag(expected) ==
    [form |-> "approval", field |-> Approved, op |-> "==", value |-> Bool(expected), flipped |-> FALSE]
Truthy(field) ==
    [form |-> "truthy", field |-> field, op |-> "==", value |-> Bool(TRUE), flipped |-> FALSE]

Value == [kind : {"num", "text"}, v : Int] \cup [kind : {"bool"}, v : {0, 1}]

Clause ==
    [form : {"comparison", "approval", "truthy"}, field : Field, op : Operators, value : Value,
     flipped : BOOLEAN]

\* An edge has no condition, a blank one, or one of several clauses spelled with words,
\* or else it has one spelled with symbols.
Absent == [spelling |-> "absent", parts |-> << >>]
Blank  == [spelling |-> "blank", parts |-> << >>]

IsCondition(c) == c.spelling \in {"symbols", "words"}

IsWritten(c) ==
    \/ c \in {Absent, Blank}
    \/ /\ c \in [spelling : {"symbols", "words"}, parts : Seq(Seq(Clause))]
       /\ c.parts # << >> /\ \A i \in DOMAIN c.parts : c.parts[i] # << >>
-----------------------------------------------------------------------------
(* The evaluator.  A state is a function from some of the fields to values.      *)

\* A reference the state does not resolve stands for its own text.
resolve_token(field, state) ==
    IF field \in DOMAIN state THEN state[field] ELSE Text(NameRank[field])

\* Values of different kinds are unequal, and ordering them is a TypeError, which the
\* caller takes for "not satisfied".
Compare(op, x, y) ==
    LET comparable == IsNumber(x) <=> IsNumber(y)
    IN  \/ op = "==" /\ comparable /\ x.v = y.v
        \/ op = "!=" /\ ~ (comparable /\ x.v = y.v)
        \/ op = ">=" /\ comparable /\ x.v >= y.v
        \/ op = "<=" /\ comparable /\ x.v <= y.v
        \/ op = ">"  /\ comparable /\ x.v > y.v
        \/ op = "<"  /\ comparable /\ x.v < y.v

\* bool(): zero is false, and no text of this language is empty.
IsTrue(x) == x.kind = "text" \/ x.v # 0

ClauseHolds(c, state) ==
    \/ /\ c.form = "comparison"
       /\ LET read == resolve_token(c.field, state)
          IN  IF c.flipped THEN Compare(c.op, c.value, read) ELSE Compare(c.op, read, c.value)
    \/ /\ c.form = "approval"
       /\ (c.field \in DOMAIN state => IsTrue(state[c.field])) <=> c.value.v = 1
    \/ /\ c.form = "truthy"
       /\ c.field \in DOMAIN state /\ IsTrue(state[c.field])

\* A disjunction of conjunctions, however they are spelled.
evaluate_condition(cond, state) ==
    \E i \in DOMAIN cond.parts :
        \A j \in DOMAIN cond.parts[i] : ClauseHolds(cond.parts[i][j], state)
-----------------------------------------------------------------------------
(* The solver.  Operators named Bug... are plausible mistakes, not the code.     *)

Unsolved == [kind |-> "unsolved", v |-> 0]

DifferentText == 1000
OtherText     == 1001

_value_for(op, x) ==
    IF x.kind = "bool" THEN
        IF op \in {"==", ">=", "<="} THEN x
        ELSE IF op = "!=" THEN Bool(x.v = 0) ELSE Unsolved
    ELSE IF x.kind = "num" THEN
        IF op \in {"!=", ">"} THEN Num(x.v + 1)
        ELSE IF op = "<" THEN Num(x.v - 1) ELSE x
    ELSE
        IF op = "==" THEN x
        ELSE IF op # "!=" THEN Unsolved
        ELSE IF x.v # DifferentText THEN Text(DifferentText) ELSE Text(OtherText)

BugNoMirror(op) == op

_mirror(op) ==
    CASE op = ">" -> "<" [] op = "<" -> ">" [] op = ">=" -> "<=" [] op = "<=" -> ">="
      [] OTHER -> op

\* The state that makes one comparison true, or nothing.
_solve_clause(c) ==
    LET x == _value_for(IF c.flipped THEN _mirror(c.op) ELSE c.op, c.value)
    IN  IF c.form # "comparison" \/ x = Unsolved THEN << >> ELSE [field \in {c.field} |-> x]

\* The words or and and are not separators to the solver: what follows the operator of
\* the first comparison is one text to it.  What it solves then, it files under a key
\* nothing reads unless that comparison comes first, with the field on the left.
_solve_words(cond) ==
    LET c == cond.parts[1][1]
    IN  IF c.form # "comparison" \/ c.flipped THEN << >>
        ELSE _solve_clause([c EXCEPT !.value = Text(OtherText + 1)])

\* A state after some updates, of which the last that has a field gives its value.
Updated(state, updates) ==
    LET giving(field) == {i \in DOMAIN updates : field \in DOMAIN updates[i]}
    IN  [field \in DOMAIN state \cup UNION {DOMAIN updates[i] : i \in DOMAIN updates} |->
            IF giving(field) = {} THEN state[field] ELSE updates[Max(giving(field))][field]]

\* The clauses the solver works through: of a disjunction, one.
ClausesSolved(cond) ==
    IF Len(cond.parts) > 1 THEN << cond.parts[1][1] >> ELSE cond.parts[1]

satisfying_state(cond) ==
    IF ~ IsCondition(cond) THEN << >>
    ELSE IF cond.spelling = "words" THEN _solve_words(cond)
    ELSE LET clauses == ClausesSolved(cond)
         IN  Updated(<< >>, [k \in DOMAIN clauses |-> _solve_clause(clauses[k])])
=============================================================================
