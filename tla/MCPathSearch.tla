---------------------------- MODULE MCPathSearch ----------------------------
(* Bounded instances of PathSearch: graphs with every kind of flaw the rules look   *)
(* for, and chains of two branches under all pairs of conditions.                  *)
EXTENDS PathSearch

Node(id, type, configured) == [id |-> id, type |-> type, configured |-> configured]

Edge(from, to, condition) == [source |-> from, target |-> to, condition |-> condition]

Symbols(parts) == [spelling |-> "symbols", parts |-> parts]
Words(parts)   == [spelling |-> "words", parts |-> parts]

Big    == Comparison("amount", ">", Num(5), FALSE)
Small  == Comparison("amount", "<=", Num(5), FALSE)
Above  == Comparison("amount", "<", Num(5), TRUE)
NotSix == Comparison("amount", "!=", Num(6), FALSE)
Plan   == Comparison("plan", "==", Text(1), FALSE)
NoPlan == Comparison("plan", "!=", Text(1), FALSE)
Denied == Comparison("approved", "==", Bool(FALSE), FALSE)
Unless == Comparison("approved", "!=", Bool(FALSE), TRUE)

Conditions ==
    {Absent, Blank} \cup {Symbols(<< << c >> >>) : c \in {Big, Above, NoPlan, Denied, Unless}}
        \cup {Symbols(<< << ApprovalFlag(TRUE) >> >>), Symbols(<< << Truthy("amount") >> >>),
              Symbols(<< << Big, Plan >> >>), Symbols(<< << Plan >>, << Small >> >>),
              Symbols(<< << Above, NotSix >> >>), Symbols(<< << Big, Denied >>, << Plan >> >>),
              Words(<< << Plan >>, << Big >> >>), Words(<< << Above, Plan >> >>)}

Chains ==
    {[nodes |-> {Node("s", "trigger", TRUE), Node("a", "task", TRUE), Node("b", "end", TRUE)},
      edges |-> {Edge("s", "a", c), Edge("a", "b", d)}] : c \in Conditions, d \in Conditions}

Pool == {Edge("s", "a", Absent), Edge("a", "b", Absent), Edge("a", "b", Blank), Edge("s", "b", Absent),
         Edge("b", "a", Absent), Edge("c", "b", Absent), Edge("b", "c", Absent),
         Edge("c", "d", Absent), Edge("d", "b", Absent)}

Trigger == Node("s", "trigger", TRUE)
Plain   == Node("s", "condition", TRUE)
Task    == Node("a", "task", TRUE)
Bare    == Node("a", "task", FALSE)
Twin    == Node("a", "end", TRUE)
Final   == Node("c", "end", TRUE)
Open    == Node("c", "database", FALSE)

Flavours == {{Trigger, Task, Final}, {Plain, Task, Final}, {Plain, Bare, Open},
             {Plain, Task, Twin, Open}}

Graphs ==
    {[nodes |-> flavour \cup {Node("b", "condition", TRUE)}, edges |-> edges] :
        flavour \in Flavours, edges \in SUBSET Pool}

Workflows == Chains \cup Graphs

Bases == {<< >>, "amount" :> Num(6) @@ "approved" :> Bool(TRUE) @@ "plan" :> Text(1)}

Names == "amount" :> 2 @@ "approved" :> 3 @@ "plan" :> 4
=============================================================================
