--------------------------- MODULE MCTestEvidence ---------------------------
(* Bounded instances of TestEvidence.  Requests differ by nothing but name.      *)
EXTENDS TestEvidence, TLC

Requests == Permutations(Request)
=============================================================================
